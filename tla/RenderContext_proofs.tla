------------------------- MODULE RenderContext_proofs -------------------------
(***************************************************************************)
(* Proofs about RenderContext and the engine functions of RcsEngine: the    *)
(* engine at rest is as the firmware left it (RestIsBaseline), an image the *)
(* driver counts on exists (CurrentHasImage), and the registers never name  *)
(* memory that was freed (ReferencedIsKept).  The first part says of every  *)
(* engine function which fields it keeps; Moved and the lemmas named Step   *)
(* sum the actions up, and the theorems at the end use only those.          *)
(***************************************************************************)
EXTENDS RenderContext, TLAPS

\* What the registers may name, and the shape of an engine record
Memory == RenderClient \cup {"private", "freed"}

EngineState ==
    [faulted : BOOLEAN, quarantined : BOOLEAN, bcsReady : BOOLEAN,
     owner : RenderClient \cup {"none"}, held : BOOLEAN, flags : SUBSET Domains,
     wakeChanged : BOOLEAN, base : SUBSET Memory, allow : BOOLEAN,
     acks : SUBSET Domains, ring : SUBSET Memory,
     bcsRing : SUBSET {"private", "test"},
     live : RenderClient \cup {"none", "private"},
     settings : SUBSET {"cache", "control"},
     ok : BOOLEAN, changed : BOOLEAN, taken : SUBSET Domains, touched : BOOLEAN,
     run : BOOLEAN, safe : BOOLEAN, renewed : BOOLEAN]

\* What the power functions leave alone, and what the others leave to them
KeepsRing(r, e) ==
    /\ r.faulted = e.faulted /\ r.quarantined = e.quarantined
    /\ r.owner = e.owner /\ r.base = e.base /\ r.ring = e.ring /\ r.live = e.live
    /\ r.settings = e.settings /\ r.touched = e.touched /\ r.run = e.run
    /\ r.safe = e.safe /\ r.renewed = e.renewed
KeepsPower(r, e) ==
    /\ r.held = e.held /\ r.flags = e.flags /\ r.wakeChanged = e.wakeChanged
    /\ r.acks = e.acks /\ r.taken = e.taken /\ r.changed = e.changed

LEMMA BegunState ==
    ASSUME NEW e \in EngineState
    PROVE  /\ Begun(e) \in EngineState
           /\ Begun(e).ok /\ ~Begun(e).changed /\ Begun(e).taken = {}
           /\ ~Begun(e).touched /\ ~Begun(e).run /\ Begun(e).safe
           /\ ~Begun(e).renewed
           /\ Begun(e).acks = e.acks /\ Begun(e).held = e.held
           /\ Begun(e).flags = e.flags /\ Begun(e).wakeChanged = e.wakeChanged
           /\ Begun(e).faulted = e.faulted /\ Begun(e).quarantined = e.quarantined
           /\ Begun(e).owner = e.owner /\ Begun(e).base = e.base
           /\ Begun(e).ring = e.ring /\ Begun(e).live = e.live
           /\ Begun(e).settings = e.settings
BY DEF Begun, EngineState

LEMMA RefusedState ==
    ASSUME NEW e \in EngineState
    PROVE  LET r == [e EXCEPT !.ok = FALSE]
           IN  r \in EngineState /\ KeepsRing(r, e) /\ KeepsPower(r, e) /\ ~r.ok
<1> DEFINE r == [e EXCEPT !.ok = FALSE]
<1>1. r \in EngineState /\ ~r.ok
  BY DEF EngineState
<1>2. KeepsRing(r, e)
  BY DEF EngineState, KeepsRing
<1>3. KeepsPower(r, e)
  BY DEF EngineState, KeepsPower
<1> QED BY <1>1, <1>2, <1>3

LEMMA Kept ==
    ASSUME NEW e \in EngineState
    PROVE  KeepsRing(e, e) /\ KeepsPower(e, e)
BY DEF KeepsRing, KeepsPower

LEMMA KeepsChain ==
    ASSUME NEW r, NEW x, NEW e, KeepsRing(r, x), KeepsRing(x, e)
    PROVE  KeepsRing(r, e)
BY DEF KeepsRing

LEMMA FallibleKeeps ==
    ASSUME NEW e \in EngineState, NEW kind, NEW r \in Fallible(kind, e)
    PROVE  /\ r \in EngineState /\ KeepsRing(r, e) /\ KeepsPower(r, e)
           /\ r.ok => e.ok
           /\ r = e \/ (~r.ok /\ kind \in GpuFault)
<1>1. r = e \/ (r = [e EXCEPT !.ok = FALSE] /\ kind \in GpuFault)
  BY DEF Fallible, Refused
<1> QED BY <1>1, RefusedState, Kept

LEMMA GtWakeKeeps ==
    ASSUME NEW e \in EngineState, NEW r \in EnableGtWake(e)
    PROVE  /\ r \in EngineState /\ KeepsRing(r, e)
           /\ r.held = e.held /\ r.flags = e.flags /\ r.wakeChanged = e.wakeChanged
           /\ r.acks = e.acks /\ r.taken = e.taken /\ (r.ok => e.ok)
<1> DEFINE x == [e EXCEPT !.allow = TRUE, !.changed = TRUE]
<1>1. x \in EngineState /\ x.held = e.held /\ x.flags = e.flags
      /\ x.wakeChanged = e.wakeChanged
      /\ x.acks = e.acks /\ x.taken = e.taken /\ x.ok = e.ok
  BY DEF EngineState
<1>2. KeepsRing(x, e)
  BY DEF EngineState, KeepsRing
<1>3. r = e \/ r \in Fallible("wake", x)
  BY DEF EnableGtWake
<1> HIDE DEF x
<1>4. CASE r = e
  BY <1>4, Kept
<1>5. CASE r \in Fallible("wake", x)
  <2>1. KeepsRing(r, x) /\ KeepsPower(r, x) /\ r \in EngineState /\ (r.ok => x.ok)
    BY <1>5, <1>1, FallibleKeeps
  <2> QED BY <2>1, <1>1, <1>2 DEF KeepsRing, KeepsPower
<1> QED BY <1>3, <1>4, <1>5

LEMMA RestoreGtWakeKeeps ==
    ASSUME NEW e \in EngineState, NEW r \in RestoreGtWake(e)
    PROVE  /\ r \in EngineState /\ KeepsRing(r, e) /\ KeepsPower(r, e)
           /\ r.ok => e.ok
           /\ e.ok => r.ok \/ "wake" \in GpuFault
<1> DEFINE x == [e EXCEPT !.allow = FALSE]
<1>1. x \in EngineState /\ x.ok = e.ok
  BY DEF EngineState
<1>2. KeepsRing(x, e) /\ KeepsPower(x, e)
  BY DEF EngineState, KeepsRing, KeepsPower
<1>3. r = e \/ r \in Fallible("wake", x)
  BY DEF RestoreGtWake
<1> HIDE DEF x
<1>4. CASE r = e
  BY <1>4, Kept
<1>5. CASE r \in Fallible("wake", x)
  <2>1. /\ KeepsRing(r, x) /\ KeepsPower(r, x) /\ r \in EngineState
        /\ r.ok => x.ok
        /\ r = x \/ "wake" \in GpuFault
    BY <1>5, <1>1, FallibleKeeps
  <2> QED BY <2>1, <1>1, <1>2 DEF KeepsRing, KeepsPower
<1> QED BY <1>3, <1>4, <1>5

LEMMA AcquireKeeps ==
    ASSUME NEW e \in EngineState, NEW r \in AcquireForcewake(e), e.taken = {}
    PROVE  /\ r \in EngineState /\ KeepsRing(r, e)
           /\ r.held = e.held /\ r.flags = e.flags /\ r.wakeChanged = e.wakeChanged
           /\ \/ r.taken = {} /\ r.acks = e.acks /\ ~r.ok
              \/ e.acks = {} /\ r.taken = r.acks
           /\ r.ok => e.ok
<1>1. CASE e.acks # {}
  <2>1. r = [e EXCEPT !.ok = FALSE]
    BY <1>1 DEF AcquireForcewake, Refused
  <2>2. KeepsRing(r, e) /\ KeepsPower(r, e) /\ r \in EngineState /\ ~r.ok
    BY <2>1, RefusedState
  <2> QED BY <2>2 DEF KeepsPower
<1>2. CASE e.acks = {}
  <2>1. PICK d \in SUBSET Domains, b \in BOOLEAN :
            r = [e EXCEPT !.acks = d, !.taken = d, !.ok = b] /\ (b => e.ok)
    <3>1. CASE r = [e EXCEPT !.acks = Domains, !.taken = Domains]
      <4>1. r = [e EXCEPT !.acks = Domains, !.taken = Domains, !.ok = e.ok]
        BY <3>1 DEF EngineState
      <4>2. e.ok \in BOOLEAN
        BY DEF EngineState
      <4> QED BY <4>1, <4>2
    <3>2. CASE \E d \in {{"render"}, Domains} :
                 r = [e EXCEPT !.acks = d, !.taken = d, !.ok = FALSE]
      BY <3>2 DEF Domains
    <3> QED BY <1>2, <3>1, <3>2 DEF AcquireForcewake
  <2>2. /\ r \in EngineState /\ r.held = e.held /\ r.flags = e.flags
        /\ r.wakeChanged = e.wakeChanged /\ r.taken = d /\ r.acks = d /\ r.ok = b
    BY <2>1 DEF EngineState
  <2>3. KeepsRing(r, e)
    BY <2>1 DEF EngineState, KeepsRing
  <2> QED BY <1>2, <2>1, <2>2, <2>3
<1> QED BY <1>1, <1>2

LEMMA TakePowerKeeps ==
    ASSUME NEW e \in EngineState, NEW r \in TakePower(e), e.taken = {}
    PROVE  /\ r \in EngineState /\ KeepsRing(r, e)
           /\ r.held = e.held /\ r.flags = e.flags /\ r.wakeChanged = e.wakeChanged
           /\ \/ r.taken = {} /\ r.acks = e.acks /\ ~r.ok
              \/ e.acks = {} /\ r.taken = r.acks
           /\ r.ok => e.ok
<1>1. PICK x \in EnableGtWake(e) :
          IF x.ok THEN r \in AcquireForcewake(x) ELSE r = x
  BY DEF TakePower, Then
<1>2. /\ x \in EngineState /\ KeepsRing(x, e)
      /\ x.held = e.held /\ x.flags = e.flags /\ x.wakeChanged = e.wakeChanged
      /\ x.taken = {} /\ x.acks = e.acks /\ (x.ok => e.ok)
  BY <1>1, GtWakeKeeps
<1>3. CASE x.ok
  <2>1. r \in AcquireForcewake(x)
    BY <1>1, <1>3
  <2>2. /\ r \in EngineState /\ KeepsRing(r, x)
        /\ r.held = x.held /\ r.flags = x.flags /\ r.wakeChanged = x.wakeChanged
        /\ \/ r.taken = {} /\ r.acks = x.acks /\ ~r.ok
           \/ x.acks = {} /\ r.taken = r.acks
    BY <2>1, <1>2, AcquireKeeps
  <2> QED BY <2>2, <1>2, <1>3 DEF KeepsRing
<1>4. CASE ~x.ok
  BY <1>1, <1>2, <1>4
<1> QED BY <1>3, <1>4

LEMMA StatusSet ==
    ASSUME NEW e \in EngineState, NEW b \in BOOLEAN
    PROVE  LET r == [e EXCEPT !.ok = b]
           IN  r \in EngineState /\ KeepsRing(r, e) /\ KeepsPower(r, e) /\ r.ok = b
<1> DEFINE r == [e EXCEPT !.ok = b]
<1>1. r \in EngineState /\ r.ok = b
  BY DEF EngineState
<1>2. KeepsRing(r, e)
  BY DEF EngineState, KeepsRing
<1>3. KeepsPower(r, e)
  BY DEF EngineState, KeepsPower
<1> QED BY <1>1, <1>2, <1>3

LEMMA ReleaseForcewakeKeeps ==
    ASSUME NEW e \in EngineState, NEW r \in ReleaseForcewake(e)
    PROVE  /\ r \in EngineState /\ KeepsRing(r, e)
           /\ r.held = e.held /\ r.flags = e.flags /\ r.wakeChanged = e.wakeChanged
           /\ r.taken = e.taken /\ (r.ok => e.ok)
           /\ \/ r.acks = e.acks \ e.taken
              \/ "release" \in GpuFault /\ ~r.ok /\ r.acks = e.acks
<1>1. CASE r = [e EXCEPT !.acks = @ \ e.taken]
  <2>1. e.acks \in SUBSET Domains /\ e.taken \in SUBSET Domains
    BY DEF EngineState
  <2>2. /\ r \in EngineState /\ r.held = e.held /\ r.flags = e.flags
        /\ r.wakeChanged = e.wakeChanged /\ r.taken = e.taken /\ r.ok = e.ok
        /\ r.acks = e.acks \ e.taken
    BY <1>1, <2>1 DEF EngineState
  <2>3. KeepsRing(r, e)
    BY <1>1 DEF EngineState, KeepsRing
  <2> QED BY <2>2, <2>3
<1>2. CASE r = [e EXCEPT !.ok = FALSE] /\ "release" \in GpuFault
  <2>1. r \in EngineState /\ KeepsRing(r, e) /\ KeepsPower(r, e) /\ ~r.ok
    BY <1>2, RefusedState
  <2> QED BY <1>2, <2>1 DEF KeepsPower
<1> QED BY <1>1, <1>2 DEF ReleaseForcewake, Refused

\* What a function gives back it had taken; what a persistent owner holds stays
LEMMA ReturnPowerKeeps ==
    ASSUME NEW S \in SUBSET EngineState, NEW r \in ReturnPower(S)
    PROVE  \E e \in S :
              /\ r \in EngineState /\ KeepsRing(r, e)
              /\ r.held = e.held /\ r.flags = e.flags /\ r.wakeChanged = e.wakeChanged
              /\ r.ok => e.ok
              /\ r.acks = e.acks \ e.taken \/ "release" \in GpuFault
<1>1. PICK x \in Always(S, ReleaseForcewake) :
          \E y \in RestoreGtWake([x EXCEPT !.ok = TRUE]) :
              r = [y EXCEPT !.ok = @ /\ x.ok]
  BY DEF ReturnPower, Always
<1>a. x \in Always(S, ReleaseForcewake)
  BY <1>1
<1>2. PICK e \in S : \E z \in ReleaseForcewake([e EXCEPT !.ok = TRUE]) :
                         x = [z EXCEPT !.ok = @ /\ e.ok]
  BY <1>a DEF Always
<1> PICK z \in ReleaseForcewake([e EXCEPT !.ok = TRUE]) : x = [z EXCEPT !.ok = @ /\ e.ok]
  BY <1>2
<1>3. PICK y \in RestoreGtWake([x EXCEPT !.ok = TRUE]) : r = [y EXCEPT !.ok = @ /\ x.ok]
  BY <1>1
<1> DEFINE e1 == [e EXCEPT !.ok = TRUE]
           x1 == [x EXCEPT !.ok = TRUE]
<1>4. e1 \in EngineState /\ KeepsRing(e1, e) /\ KeepsPower(e1, e) /\ e \in EngineState
  BY StatusSet
<1>5. /\ z \in EngineState /\ KeepsRing(z, e1)
      /\ z.held = e1.held /\ z.flags = e1.flags /\ z.wakeChanged = e1.wakeChanged
      /\ z.acks = e1.acks \ e1.taken \/ "release" \in GpuFault
  BY <1>2, <1>4, ReleaseForcewakeKeeps
<1>6. z.ok \in BOOLEAN /\ e.ok \in BOOLEAN
  BY <1>4, <1>5 DEF EngineState
<1>7. x \in EngineState /\ KeepsRing(x, z) /\ KeepsPower(x, z) /\ x.ok = (z.ok /\ e.ok)
  <2>1. (z.ok /\ e.ok) \in BOOLEAN /\ x = [z EXCEPT !.ok = z.ok /\ e.ok]
    BY <1>2, <1>6
  <2> QED BY <2>1, <1>5, StatusSet
<1>8. x1 \in EngineState /\ KeepsRing(x1, x) /\ KeepsPower(x1, x)
  BY <1>7, StatusSet
<1>9. y \in EngineState /\ KeepsRing(y, x1) /\ KeepsPower(y, x1)
  BY <1>3, <1>8, RestoreGtWakeKeeps
<1>10. y.ok \in BOOLEAN /\ x.ok \in BOOLEAN
  BY <1>7, <1>9 DEF EngineState
<1>11. r \in EngineState /\ KeepsRing(r, y) /\ KeepsPower(r, y) /\ r.ok = (y.ok /\ x.ok)
  <2>1. (y.ok /\ x.ok) \in BOOLEAN /\ r = [y EXCEPT !.ok = y.ok /\ x.ok]
    BY <1>3, <1>10
  <2> QED BY <2>1, <1>9, StatusSet
<1> HIDE DEF e1, x1
<1>12. KeepsRing(r, e)
  BY <1>4, <1>5, <1>7, <1>8, <1>9, <1>11 DEF KeepsRing
<1>13. r.held = e.held /\ r.flags = e.flags /\ r.wakeChanged = e.wakeChanged
       /\ (r.acks = e.acks \ e.taken \/ "release" \in GpuFault)
  BY <1>4, <1>5, <1>7, <1>8, <1>9, <1>11 DEF KeepsPower
<1>14. r.ok => e.ok
  BY <1>7, <1>11
<1> QED BY <1>11, <1>12, <1>13, <1>14

\* At rest no forcewake is acknowledged but what a persistent owner keeps
PowerRest(e) == e.acks = IF e.held THEN e.flags ELSE {}

LEMMA PersistentPowerKeeps ==
    ASSUME NEW e \in EngineState, e.ok, NEW r \in ReleasePersistentPowerLocked(e)
    PROVE  /\ r \in EngineState /\ KeepsRing(r, e) /\ r.taken = e.taken
           /\ e.held /\ r.ok => ~r.held
           /\ ~e.held => r = e
           /\ "release" \notin GpuFault /\ PowerRest(e) => PowerRest(r)
<1>0. CASE ~e.held
  BY <1>0, Kept DEF ReleasePersistentPowerLocked
<1>1. CASE e.held
  <2> DEFINE e1 == [e EXCEPT !.taken = e.flags]
             W(x) == IF ~x.wakeChanged THEN {x}
                     ELSE {[u EXCEPT !.wakeChanged = ~u.ok, !.changed = x.changed] :
                              u \in RestoreGtWake([x EXCEPT !.changed = TRUE])}
             G(x) == {[x EXCEPT !.held = FALSE]}
             S == {[u EXCEPT !.taken = e.taken, !.flags = IF u.ok THEN {} ELSE @] :
                      u \in ReleaseForcewake(e1)}
  <2>1. r \in Then(Then(S, W), G)
    BY <1>1 DEF ReleasePersistentPowerLocked
  <2>2. PICK w \in Then(S, W) : IF w.ok THEN r = [w EXCEPT !.held = FALSE] ELSE r = w
    BY <2>1 DEF Then
  <2>3. PICK d \in S : IF d.ok THEN w \in W(d) ELSE w = d
    BY <2>2 DEF Then
  <2>4. PICK u \in ReleaseForcewake(e1) :
            d = [u EXCEPT !.taken = e.taken, !.flags = IF u.ok THEN {} ELSE @]
    BY <2>3
  <2>5. /\ e1 \in EngineState /\ e1.held = e.held /\ e1.flags = e.flags
        /\ e1.taken = e.flags /\ e1.acks = e.acks /\ e1.ok
    BY DEF EngineState
  <2>6. KeepsRing(e1, e)
    BY DEF EngineState, KeepsRing
  <2>7. /\ u \in EngineState /\ KeepsRing(u, e1) /\ u.held = e1.held /\ u.flags = e1.flags
        /\ \/ u.acks = e1.acks \ e1.taken
           \/ "release" \in GpuFault /\ ~u.ok /\ u.acks = e1.acks
    BY <2>5, ReleaseForcewakeKeeps
  <2>8. (IF u.ok THEN {} ELSE u.flags) \in SUBSET Domains /\ e.taken \in SUBSET Domains
    BY <2>7 DEF EngineState
  <2>9. /\ d \in EngineState /\ d.held = u.held /\ d.acks = u.acks /\ d.ok = u.ok
        /\ d.flags = (IF u.ok THEN {} ELSE u.flags) /\ d.taken = e.taken
    BY <2>4, <2>7, <2>8 DEF EngineState
  <2>10. KeepsRing(d, u)
    BY <2>4, <2>7 DEF EngineState, KeepsRing
  <2>11. /\ w \in EngineState /\ KeepsRing(w, d) /\ w.held = d.held
         /\ w.acks = d.acks /\ w.flags = d.flags /\ w.taken = d.taken
         /\ w.ok => d.ok
    <3>1. CASE w = d
      BY <3>1, <2>9, Kept
    <3>2. CASE d.ok /\ d.wakeChanged
      <4> DEFINE d1 == [d EXCEPT !.changed = TRUE]
      <4>1. PICK v \in RestoreGtWake(d1) :
                w = [v EXCEPT !.wakeChanged = ~v.ok, !.changed = d.changed]
        BY <3>2, <2>3
      <4>2. /\ d1 \in EngineState /\ d1.held = d.held /\ d1.acks = d.acks
            /\ d1.flags = d.flags /\ d1.taken = d.taken /\ d1.ok = d.ok
        BY <2>9 DEF EngineState
      <4>3. KeepsRing(d1, d)
        BY <2>9 DEF EngineState, KeepsRing
      <4>4. v \in EngineState /\ KeepsRing(v, d1) /\ KeepsPower(v, d1) /\ (v.ok => d1.ok)
        BY <4>2, RestoreGtWakeKeeps
      <4>5. (~v.ok) \in BOOLEAN /\ d.changed \in BOOLEAN
        BY <2>9, <4>4 DEF EngineState
      <4>6. /\ w \in EngineState /\ w.held = v.held /\ w.acks = v.acks
            /\ w.flags = v.flags /\ w.taken = v.taken /\ w.ok = v.ok
        <5>1. PICK b \in BOOLEAN : w = [v EXCEPT !.wakeChanged = b, !.changed = d.changed]
          BY <4>1, <4>5
        <5> QED BY <5>1, <4>4, <4>5 DEF EngineState
      <4>7. KeepsRing(w, v)
        BY <4>1, <4>4 DEF EngineState, KeepsRing
      <4> HIDE DEF d1
      <4>8. KeepsRing(w, d)
        BY <4>3, <4>4, <4>7 DEF KeepsRing
      <4> QED BY <4>2, <4>4, <4>6, <4>8 DEF KeepsPower
    <3> QED BY <2>3, <3>1, <3>2
  <2>12. /\ r \in EngineState /\ KeepsRing(r, w) /\ r.acks = w.acks /\ r.flags = w.flags
         /\ r.taken = w.taken /\ r.ok = w.ok
         /\ IF w.ok THEN ~r.held ELSE r.held = w.held
    <3>1. CASE ~w.ok
      BY <3>1, <2>2, <2>11, Kept
    <3>2. CASE w.ok
      <4>1. r = [w EXCEPT !.held = FALSE]
        BY <2>2, <3>2
      <4>2. KeepsRing(r, w)
        BY <4>1, <2>11 DEF EngineState, KeepsRing
      <4> QED BY <3>2, <4>1, <4>2, <2>11 DEF EngineState
    <3> QED BY <3>1, <3>2
  <2> HIDE DEF e1, S
  <2>13. KeepsRing(r, e)
    <3>1. KeepsRing(w, u)
      BY <2>10, <2>11, KeepsChain
    <3>2. KeepsRing(u, e)
      BY <2>6, <2>7, KeepsChain
    <3> QED BY <3>1, <3>2, <2>12, KeepsChain
  <2>14. ASSUME "release" \notin GpuFault, PowerRest(e) PROVE PowerRest(r)
    <3>1. e.acks = e.flags
      BY <1>1, <2>14 DEF PowerRest
    <3>2. u.acks = {} /\ r.acks = {}
      BY <3>1, <2>5, <2>7, <2>9, <2>11, <2>12, <2>14
    <3>3. CASE u.ok
      BY <3>2, <3>3, <2>9, <2>11, <2>12 DEF PowerRest
    <3>4. CASE ~u.ok
      <4>1. "release" \in GpuFault
        BY <3>4, <2>5 DEF ReleaseForcewake, Refused, EngineState
      <4> QED BY <4>1, <2>14
    <3> QED BY <3>3, <3>4
  <2> QED BY <1>1, <2>9, <2>11, <2>12, <2>13, <2>14
<1> QED BY <1>0, <1>1

\* What a register write, a wait or a reset of the ring leaves alone
RingMove(r, e) ==
    /\ r \in EngineState /\ KeepsPower(r, e)
    /\ r.faulted = e.faulted /\ r.quarantined = e.quarantined
    /\ r.owner = e.owner /\ r.base = e.base /\ r.renewed = e.renewed

LEMMA MoveChain ==
    ASSUME NEW r, NEW x, NEW e, RingMove(r, x), RingMove(x, e)
    PROVE  RingMove(r, e)
BY DEF RingMove, KeepsPower

RestoreFails == GpuFault \cap {"reset", "restore"} # {}

LEMMA RestoreRing ==
    ASSUME NEW e \in EngineState, NEW memories \in SUBSET Memory,
           NEW reset \in BOOLEAN,
           NEW r \in RestoreRcsSubmissionRing(memories, reset, e)
    PROVE  /\ RingMove(r, e) /\ r.settings = e.settings /\ r.touched = e.touched
           /\ r.run = e.run
           /\ r.live = e.live \/ r.live = "none"
           /\ reset => r.live = "none"
           /\ \/ r.safe /\ r.ring = memories /\ (reset => r.ok)
              \/ ~r.safe /\ ~r.ok /\ r.ring = e.ring /\ RestoreFails
<1> DEFINE waited == IF reset THEN Refused(e) ELSE Fallible("hang", e)
           halted(x) == IF x.ok THEN {x} ELSE ResetRcs([x EXCEPT !.ok = TRUE])
           written(x) == {[x EXCEPT !.ring = memories, !.safe = TRUE]}
                         \cup IF "restore" \in GpuFault THEN Refused(x) ELSE {}
<1>0. r \in UNION {{[u EXCEPT !.ok = @ /\ (reset \/ x.ok)] :
                      u \in Then(halted([x EXCEPT !.safe = FALSE]), written)} :
                    x \in waited}
  BY DEF RestoreRcsSubmissionRing
<1>1. PICK x \in waited : \E h \in halted([x EXCEPT !.safe = FALSE]) :
          \E u \in (IF h.ok THEN written(h) ELSE {h}) :
             r = [u EXCEPT !.ok = @ /\ (reset \/ x.ok)]
  <2> HIDE DEF waited, halted, written
  <2> QED BY <1>0 DEF Then
<1> DEFINE x1 == [x EXCEPT !.safe = FALSE]
<1> PICK h \in halted(x1) : \E u \in (IF h.ok THEN written(h) ELSE {h}) :
             r = [u EXCEPT !.ok = @ /\ (reset \/ x.ok)]
  BY <1>1
<1>2. PICK u \in (IF h.ok THEN written(h) ELSE {h}) :
          r = [u EXCEPT !.ok = @ /\ (reset \/ x.ok)]
  OBVIOUS
<1>3. /\ x \in EngineState /\ KeepsRing(x, e) /\ KeepsPower(x, e)
      /\ reset => ~x.ok
  <2>1. CASE reset
    BY <2>1, <1>1, RefusedState DEF Refused
  <2>2. CASE ~reset
    BY <2>2, <1>1, FallibleKeeps
  <2> QED BY <2>1, <2>2
<1>4. /\ x1 \in EngineState /\ ~x1.safe /\ x1.ok = x.ok /\ x1.live = x.live
      /\ x1.ring = x.ring /\ x1.settings = x.settings /\ x1.touched = x.touched
      /\ x1.run = x.run
  BY <1>3 DEF EngineState
<1>5. RingMove(x1, x)
  BY <1>3, <1>4 DEF EngineState, RingMove, KeepsPower
<1> HIDE DEF x1
<1>6. /\ RingMove(h, x1) /\ ~h.safe /\ h.ring = x1.ring
      /\ h.settings = x1.settings /\ h.touched = x1.touched /\ h.run = x1.run
      /\ IF x1.ok THEN h.live = x1.live ELSE h.live = "none"
      /\ h.ok \/ "reset" \in GpuFault
  <2>1. CASE x1.ok
    <3>1. h = x1
      BY <2>1, <1>2
    <3> QED BY <2>1, <3>1, <1>4, Kept DEF RingMove
  <2>2. CASE ~x1.ok
    <3> DEFINE y == [[x1 EXCEPT !.ok = TRUE] EXCEPT !.live = "none"]
    <3>1. h \in Fallible("reset", y)
      BY <2>2, <1>2 DEF ResetRcs
    <3>2. /\ y \in EngineState /\ y.ok /\ y.live = "none" /\ y.safe = x1.safe
          /\ y.ring = x1.ring /\ y.settings = x1.settings
          /\ y.touched = x1.touched /\ y.run = x1.run
      BY <1>4 DEF EngineState
    <3>3. RingMove(y, x1)
      BY <1>4, <3>2 DEF EngineState, RingMove, KeepsPower
    <3> HIDE DEF y
    <3>4. /\ h \in EngineState /\ KeepsRing(h, y) /\ KeepsPower(h, y)
          /\ h.ok \/ "reset" \in GpuFault
      BY <3>1, <3>2, FallibleKeeps
    <3> QED BY <2>2, <1>4, <3>2, <3>3, <3>4 DEF RingMove, KeepsRing, KeepsPower
  <2> QED BY <2>1, <2>2
<1>7. /\ RingMove(u, h) /\ u.settings = h.settings /\ u.touched = h.touched
      /\ u.run = h.run /\ u.live = h.live
      /\ \/ u.safe /\ u.ring = memories /\ u.ok
         \/ ~u.safe /\ ~u.ok /\ u.ring = h.ring /\ RestoreFails
  <2>0. h \in EngineState
    BY <1>6 DEF RingMove
  <2>1. CASE ~h.ok
    BY <2>0, <2>1, <1>2, <1>6, Kept DEF RingMove, RestoreFails
  <2>2. CASE h.ok /\ u = [h EXCEPT !.ring = memories, !.safe = TRUE]
    <3>1. /\ u \in EngineState /\ u.settings = h.settings /\ u.touched = h.touched
          /\ u.run = h.run /\ u.live = h.live /\ u.safe /\ u.ring = memories /\ u.ok
      BY <2>0, <2>2 DEF EngineState
    <3>2. KeepsPower(u, h)
      BY <2>0, <2>2 DEF EngineState, KeepsPower
    <3>3. RingMove(u, h)
      BY <2>0, <2>2, <3>1, <3>2 DEF EngineState, RingMove
    <3> QED BY <3>1, <3>3
  <2>3. CASE h.ok /\ u = [h EXCEPT !.ok = FALSE] /\ "restore" \in GpuFault
    <3>1. u \in EngineState /\ KeepsRing(u, h) /\ KeepsPower(u, h) /\ ~u.ok
      BY <2>0, <2>3, RefusedState
    <3> QED BY <2>3, <3>1, <1>6 DEF KeepsRing, RingMove, RestoreFails
  <2> QED BY <1>2, <2>1, <2>2, <2>3 DEF Refused
<1>8. PICK b \in BOOLEAN : r = [u EXCEPT !.ok = b] /\ (b <=> u.ok /\ (reset \/ x.ok))
  <2>1. x.ok \in BOOLEAN /\ u.ok \in BOOLEAN /\ u \in EngineState
    BY <1>3, <1>7 DEF RingMove, EngineState
  <2>2. (u.ok /\ (reset \/ x.ok)) \in BOOLEAN
    OBVIOUS
  <2>3. r = [u EXCEPT !.ok = u.ok /\ (reset \/ x.ok)]
    BY <1>2
  <2> QED BY <2>2, <2>3
<1>9. r \in EngineState /\ KeepsRing(r, u) /\ KeepsPower(r, u) /\ r.ok = b
  BY <1>7, <1>8, StatusSet DEF RingMove
<1>10. RingMove(r, e)
  <2>1. RingMove(x, e) /\ RingMove(r, u)
    BY <1>3, <1>9 DEF RingMove, KeepsRing
  <2>2. RingMove(r, h)
    BY <2>1, <1>7, MoveChain
  <2>3. RingMove(r, x1)
    BY <2>2, <1>6, MoveChain
  <2>4. RingMove(r, x)
    BY <2>3, <1>5, MoveChain
  <2> QED BY <2>1, <2>4, MoveChain
<1>11. r.settings = e.settings /\ r.touched = e.touched /\ r.run = e.run
  BY <1>3, <1>4, <1>6, <1>7, <1>9 DEF KeepsRing
<1>12. (r.live = e.live \/ r.live = "none") /\ (reset => r.live = "none")
  BY <1>3, <1>4, <1>6, <1>7, <1>9 DEF KeepsRing
<1>13. \/ r.safe /\ r.ring = memories /\ (reset => r.ok)
       \/ ~r.safe /\ ~r.ok /\ r.ring = e.ring /\ RestoreFails
  BY <1>3, <1>4, <1>6, <1>7, <1>8, <1>9 DEF KeepsRing
<1> QED BY <1>10, <1>11, <1>12, <1>13

LEMMA RestoreCache ==
    ASSUME NEW e \in EngineState, NEW r \in RestoreRcsSubmissionCache(e)
    PROVE  /\ RingMove(r, e) /\ r.ring = e.ring /\ r.live = e.live
           /\ r.touched = e.touched /\ r.run = e.run /\ r.safe = e.safe
           /\ \/ r.settings = e.settings \ {"cache"} /\ r.ok = e.ok
              \/ r.settings = e.settings /\ ~r.ok /\ RestoreFails
<1>1. CASE r = [e EXCEPT !.settings = @ \ {"cache"}]
  <2>0. e.settings \ {"cache"} \in SUBSET {"cache", "control"}
    BY DEF EngineState
  <2>1. /\ r \in EngineState /\ r.ring = e.ring /\ r.live = e.live
        /\ r.touched = e.touched /\ r.run = e.run /\ r.safe = e.safe
        /\ r.settings = e.settings \ {"cache"} /\ r.ok = e.ok
    BY <1>1, <2>0 DEF EngineState
  <2>2. KeepsPower(r, e)
    BY <1>1 DEF EngineState, KeepsPower
  <2>3. RingMove(r, e)
    BY <1>1, <2>1, <2>2 DEF EngineState, RingMove
  <2> QED BY <2>1, <2>3
<1>2. CASE r = [e EXCEPT !.ok = FALSE] /\ "restore" \in GpuFault
  <2>1. r \in EngineState /\ KeepsRing(r, e) /\ KeepsPower(r, e) /\ ~r.ok
    BY <1>2, RefusedState
  <2> QED BY <1>2, <2>1 DEF KeepsRing, RingMove, RestoreFails
<1> QED BY <1>1, <1>2 DEF RestoreRcsSubmissionCache, Refused

LEMMA RestoreControl ==
    ASSUME NEW e \in EngineState, NEW r \in RestoreRcsPpgttControl(e)
    PROVE  /\ RingMove(r, e) /\ r.ring = e.ring /\ r.live = e.live
           /\ r.touched = e.touched /\ r.run = e.run /\ r.safe = e.safe
           /\ \/ r.settings = e.settings \ {"control"} /\ r.ok = e.ok
              \/ r.settings = e.settings /\ ~r.ok /\ RestoreFails
<1>1. CASE r = [e EXCEPT !.settings = @ \ {"control"}]
  <2>0. e.settings \ {"control"} \in SUBSET {"cache", "control"}
    BY DEF EngineState
  <2>1. /\ r \in EngineState /\ r.ring = e.ring /\ r.live = e.live
        /\ r.touched = e.touched /\ r.run = e.run /\ r.safe = e.safe
        /\ r.settings = e.settings \ {"control"} /\ r.ok = e.ok
    BY <1>1, <2>0 DEF EngineState
  <2>2. KeepsPower(r, e)
    BY <1>1 DEF EngineState, KeepsPower
  <2>3. RingMove(r, e)
    BY <1>1, <2>1, <2>2 DEF EngineState, RingMove
  <2> QED BY <2>1, <2>3
<1>2. CASE r = [e EXCEPT !.ok = FALSE] /\ "restore" \in GpuFault
  <2>1. r \in EngineState /\ KeepsRing(r, e) /\ KeepsPower(r, e) /\ ~r.ok
    BY <1>2, RefusedState
  <2> QED BY <1>2, <2>1 DEF KeepsRing, RingMove, RestoreFails
<1> QED BY <1>1, <1>2 DEF RestoreRcsPpgttControl, Refused

\* Marking a fault changes nothing else
LEMMA MarkedState ==
    ASSUME NEW e \in EngineState
    PROVE  /\ Marked(e) \in EngineState /\ KeepsPower(Marked(e), e)
           /\ Marked(e).faulted /\ Marked(e).quarantined
           /\ Marked(e).owner = e.owner /\ Marked(e).base = e.base
           /\ Marked(e).ring = e.ring /\ Marked(e).live = e.live
           /\ Marked(e).settings = e.settings /\ Marked(e).touched = e.touched
           /\ Marked(e).run = e.run /\ Marked(e).safe = e.safe
           /\ Marked(e).renewed = e.renewed /\ Marked(e).ok = e.ok
<1>1. KeepsPower(Marked(e), e)
  BY DEF Marked, EngineState, KeepsPower
<1> QED BY <1>1 DEF Marked, EngineState

\* One element of Always(S, F)
LEMMA BothStatuses ==
    ASSUME NEW e \in EngineState, NEW y \in EngineState, NEW r,
           r = [y EXCEPT !.ok = @ /\ e.ok]
    PROVE  /\ r \in EngineState /\ KeepsRing(r, y) /\ KeepsPower(r, y)
           /\ r.ok <=> y.ok /\ e.ok
<1>1. y.ok \in BOOLEAN /\ e.ok \in BOOLEAN
  BY DEF EngineState
<1>2. (y.ok /\ e.ok) \in BOOLEAN /\ r = [y EXCEPT !.ok = y.ok /\ e.ok]
  BY <1>1
<1>3. r \in EngineState /\ KeepsRing(r, y) /\ KeepsPower(r, y) /\ r.ok = (y.ok /\ e.ok)
  BY <1>2, StatusSet
<1> QED BY <1>3

\* Nothing of the driver is left in the render engine
BaseRing(e) == e.ring = {} /\ e.live = "none" /\ e.settings = {}

\* However it goes, ownership ends and a generation begins; either the baseline
\* is back or the engine is at fault
LEMMA RestoreBaseline ==
    ASSUME NEW e \in EngineState, e.base = {},
           NEW r \in RestorePersistentRcsBaselineLocked(e)
    PROVE  /\ r \in EngineState /\ KeepsPower(r, e)
           /\ r.owner = "none" /\ r.renewed /\ r.base = {} /\ r.live = "none"
           /\ \/ r.ok /\ BaseRing(r) /\ r.faulted = e.faulted
                 /\ r.quarantined = e.quarantined
              \/ ~r.ok /\ r.faulted /\ r.quarantined
           /\ ~RestoreFails => r.ring = {} /\ r.ok
<1> DEFINE ring == RestoreRcsSubmissionRing(e.base, TRUE, e)
           cache(x) == IF x.safe THEN RestoreRcsSubmissionCache(x) ELSE Refused(x)
           ended(x) == [x EXCEPT !.owner = "none", !.renewed = TRUE]
           D == Always(ring, cache)
           S == Always(D, RestoreRcsPpgttControl)
<1>0. r \in {IF x.ok THEN ended(x) ELSE ended(Marked(x)) : x \in S}
  BY DEF RestorePersistentRcsBaselineLocked
<1>1. PICK x \in S : r = IF x.ok THEN ended(x) ELSE ended(Marked(x))
  <2> HIDE DEF S, ended
  <2> QED BY <1>0
<1>2. PICK d \in D : \E y \in RestoreRcsPpgttControl([d EXCEPT !.ok = TRUE]) :
                        x = [y EXCEPT !.ok = @ /\ d.ok]
  <2> HIDE DEF D
  <2> QED BY <1>1 DEF Always
<1>3. PICK y \in RestoreRcsPpgttControl([d EXCEPT !.ok = TRUE]) :
          x = [y EXCEPT !.ok = @ /\ d.ok]
  BY <1>2
<1>4. PICK u \in ring : \E v \in cache([u EXCEPT !.ok = TRUE]) :
                           d = [v EXCEPT !.ok = @ /\ u.ok]
  <2> HIDE DEF ring, cache
  <2> QED BY <1>2 DEF Always
<1>5. PICK v \in cache([u EXCEPT !.ok = TRUE]) : d = [v EXCEPT !.ok = @ /\ u.ok]
  BY <1>4
<1>6. /\ RingMove(u, e) /\ u.settings = e.settings /\ u.live = "none"
      /\ \/ u.safe /\ u.ring = {} /\ u.ok
         \/ ~u.safe /\ ~u.ok /\ u.ring = e.ring /\ RestoreFails
  <2>1. e.base \in SUBSET Memory /\ TRUE \in BOOLEAN
    BY DEF EngineState
  <2> QED BY <2>1, RestoreRing
<1> DEFINE u1 == [u EXCEPT !.ok = TRUE]
           d1 == [d EXCEPT !.ok = TRUE]
<1>7. u1 \in EngineState /\ KeepsRing(u1, u) /\ KeepsPower(u1, u) /\ u1.ok
  BY <1>6, StatusSet DEF RingMove
<1>8. /\ RingMove(v, u1) /\ v.ring = u1.ring /\ v.live = u1.live
      /\ \/ v.settings = u1.settings \ {"cache"} /\ v.ok
         \/ ~v.ok /\ RestoreFails
  <2>1. CASE u1.safe
    BY <1>7, <2>1, RestoreCache
  <2>2. CASE ~u1.safe
    <3>1. v = [u1 EXCEPT !.ok = FALSE]
      BY <2>2 DEF Refused
    <3>2. v \in EngineState /\ KeepsRing(v, u1) /\ KeepsPower(v, u1) /\ ~v.ok
      BY <3>1, <1>7, RefusedState
    <3>3. RestoreFails
      BY <2>2, <1>6, <1>7 DEF KeepsRing
    <3> QED BY <3>2, <3>3 DEF KeepsRing, RingMove
  <2> QED BY <2>1, <2>2
<1> HIDE DEF u1
<1>9. /\ d \in EngineState /\ KeepsRing(d, v) /\ KeepsPower(d, v)
      /\ d.ok <=> v.ok /\ u.ok
  BY <1>5, <1>6, <1>8, BothStatuses DEF RingMove
<1>10. d1 \in EngineState /\ KeepsRing(d1, d) /\ KeepsPower(d1, d) /\ d1.ok
  BY <1>9, StatusSet
<1>11. /\ RingMove(y, d1) /\ y.ring = d1.ring /\ y.live = d1.live
       /\ \/ y.settings = d1.settings \ {"control"} /\ y.ok
          \/ ~y.ok /\ RestoreFails
  BY <1>3, <1>10, RestoreControl
<1> HIDE DEF d1
<1>12. /\ x \in EngineState /\ KeepsRing(x, y) /\ KeepsPower(x, y)
       /\ x.ok <=> y.ok /\ d.ok
  BY <1>3, <1>9, <1>11, BothStatuses DEF RingMove
<1>13. RingMove(x, e)
  <2>1. RingMove(x, y) /\ RingMove(d1, d) /\ RingMove(d, v) /\ RingMove(u1, u)
    BY <1>7, <1>9, <1>10, <1>12 DEF RingMove, KeepsRing
  <2>2. RingMove(x, d)
    BY <2>1, <1>11, MoveChain
  <2>3. RingMove(x, u1)
    BY <2>1, <2>2, <1>8, MoveChain
  <2> QED BY <2>1, <2>3, <1>6, MoveChain
<1>14. x.live = "none"
  BY <1>6, <1>7, <1>8, <1>9, <1>10, <1>11, <1>12 DEF KeepsRing
<1>15. x.ok => x.ring = {} /\ x.settings = {}
  <2> SUFFICES ASSUME x.ok PROVE x.ring = {} /\ x.settings = {}
    OBVIOUS
  <2>1. y.ok /\ d.ok /\ v.ok /\ u.ok
    BY <1>9, <1>12
  <2>2. x.ring = {} /\ x.settings = (e.settings \ {"cache"}) \ {"control"}
    BY <2>1, <1>6, <1>7, <1>8, <1>9, <1>10, <1>11, <1>12 DEF KeepsRing
  <2>3. e.settings \in SUBSET {"cache", "control"}
    BY DEF EngineState
  <2> QED BY <2>2, <2>3
<1>16. ~x.ok => RestoreFails
  BY <1>6, <1>8, <1>9, <1>11, <1>12
<1>17. CASE x.ok
  <2>1. r = ended(x) /\ x \in EngineState
    BY <1>1, <1>12, <1>17
  <2>2. /\ r \in EngineState /\ r.owner = "none" /\ r.renewed /\ r.base = x.base
        /\ r.live = x.live /\ r.ring = x.ring /\ r.settings = x.settings
        /\ r.ok = x.ok /\ r.faulted = x.faulted /\ r.quarantined = x.quarantined
    BY <2>1 DEF EngineState
  <2>3. KeepsPower(r, x)
    BY <2>1 DEF EngineState, KeepsPower
  <2> QED BY <2>2, <2>3, <1>13, <1>14, <1>15, <1>17 DEF RingMove, KeepsPower, BaseRing
<1>18. CASE ~x.ok
  <2> DEFINE m == Marked(x)
  <2>1. r = ended(m)
    BY <1>1, <1>18
  <2>2. /\ m \in EngineState /\ KeepsPower(m, x) /\ m.faulted /\ m.quarantined
        /\ m.base = x.base /\ m.live = x.live /\ m.ok = x.ok
    BY <1>12, MarkedState
  <2> HIDE DEF m
  <2>3. /\ r \in EngineState /\ r.owner = "none" /\ r.renewed /\ r.base = m.base
        /\ r.live = m.live /\ r.ok = m.ok /\ r.faulted = m.faulted
        /\ r.quarantined = m.quarantined
    BY <2>1, <2>2 DEF EngineState
  <2>4. KeepsPower(r, m)
    BY <2>1, <2>2 DEF EngineState, KeepsPower
  <2> QED BY <2>2, <2>3, <2>4, <1>13, <1>14, <1>16, <1>18 DEF RingMove, KeepsPower
<1> QED BY <1>17, <1>18

----------------------------------------------------------------------------
(* A transient submission and the diagnostic.                              *)

\* Where a transient batch stands before its cleanup: what it took, programmed
\* and loaded, compared with the engine it began with
Attempt(x, b, w) ==
    /\ x \in EngineState /\ x.safe
    /\ x.faulted = b.faulted /\ x.quarantined = b.quarantined
    /\ x.owner = b.owner /\ x.base = b.base /\ x.renewed = b.renewed
    /\ x.held = b.held /\ x.flags = b.flags /\ x.wakeChanged = b.wakeChanged
    /\ \/ x.taken = {} /\ x.acks = b.acks
       \/ b.acks = {} /\ x.taken = x.acks
    /\ "control" \in x.settings => x.touched \/ "control" \in b.settings
    /\ "cache" \in x.settings => x.run \/ "cache" \in b.settings
    /\ \/ x.ring = b.ring /\ ~x.run /\ x.live = b.live
       \/ /\ b.ring = {} /\ b.live = "none"
          /\ x.run => x.ring = {w}
          /\ x.live # "none" => x.run
OnFreeRing(x, b, w) ==
    Attempt(x, b, w) /\ (x.ok => b.ring = {} /\ b.live = "none" /\ ~x.run)
Loaded(x, b, w) == OnFreeRing(x, b, w) /\ (x.ok => x.ring = {w})

\* A step that may fail fails for what it did as well
LEMMA FallibleAttempt ==
    ASSUME NEW b \in EngineState, NEW w, NEW x, Attempt(x, b, w), NEW kind,
           NEW r \in Fallible(kind, x)
    PROVE  /\ Attempt(r, b, w) /\ (r.ok => x.ok)
           /\ r.ring = x.ring /\ (r.run => x.run) /\ (x.run => r.run)
<1>1. x \in EngineState
  BY DEF Attempt
<1>2. r \in EngineState /\ KeepsRing(r, x) /\ KeepsPower(r, x) /\ (r.ok => x.ok)
  BY <1>1, FallibleKeeps
<1> QED BY <1>2 DEF Attempt, KeepsRing, KeepsPower

LEMMA ControlAttempt ==
    ASSUME NEW b \in EngineState, NEW w, NEW x, Attempt(x, b, w), ~x.run,
           NEW r \in ProgramRcsPpgttControl(x)
    PROVE  Attempt(r, b, w) /\ ~r.run
<1> DEFINE y == [x EXCEPT !.settings = @ \cup {"control"}, !.touched = TRUE]
<1>1. x \in EngineState /\ x.settings \cup {"control"} \in SUBSET {"cache", "control"}
  BY DEF Attempt, EngineState
<1>2. /\ y \in EngineState /\ y.safe = x.safe /\ y.faulted = x.faulted
      /\ y.quarantined = x.quarantined /\ y.owner = x.owner /\ y.base = x.base
      /\ y.renewed = x.renewed /\ y.touched /\ y.run = x.run /\ y.ring = x.ring
      /\ y.live = x.live /\ y.settings = x.settings \cup {"control"}
  BY <1>1 DEF EngineState
<1>3. KeepsPower(y, x)
  BY <1>1 DEF EngineState, KeepsPower
<1>4. r \in Fallible("write", y)
  BY DEF ProgramRcsPpgttControl
<1> HIDE DEF y
<1>5. Attempt(y, b, w)
  BY <1>2, <1>3 DEF Attempt, KeepsPower
<1> QED BY <1>2, <1>4, <1>5, FallibleAttempt

LEMMA RingAttempt ==
    ASSUME NEW b \in EngineState, NEW w \in Memory, NEW x, OnFreeRing(x, b, w), x.ok,
           NEW r \in PrepareRcsRing(w, x)
    PROVE  OnFreeRing(r, b, w)
<1> DEFINE y == [x EXCEPT !.ring = @ \cup {w}]
<1>1. x \in EngineState /\ x.ring \cup {w} \in SUBSET Memory
  BY DEF OnFreeRing, Attempt, EngineState
<1>2. /\ y \in EngineState /\ y.safe = x.safe /\ y.faulted = x.faulted
      /\ y.quarantined = x.quarantined /\ y.owner = x.owner /\ y.base = x.base
      /\ y.renewed = x.renewed /\ y.touched = x.touched /\ y.run = x.run
      /\ y.live = x.live /\ y.settings = x.settings /\ y.ok = x.ok
  BY <1>1 DEF EngineState
<1>3. KeepsPower(y, x)
  BY <1>1 DEF EngineState, KeepsPower
<1>4. r \in Fallible("write", y)
  BY DEF PrepareRcsRing
<1> HIDE DEF y
<1>5. Attempt(y, b, w)
  BY <1>2, <1>3 DEF OnFreeRing, Attempt, KeepsPower
<1>6. Attempt(r, b, w) /\ (r.run => y.run)
  BY <1>4, <1>5, FallibleAttempt
<1> QED BY <1>2, <1>6 DEF OnFreeRing

LEMMA PpgttAttempt ==
    ASSUME NEW b \in EngineState, NEW w \in Memory, NEW x, OnFreeRing(x, b, w), x.ok,
           NEW r \in ProgramRcsPpgtt(w, x)
    PROVE  Loaded(r, b, w)
<1>1. x \in EngineState /\ {w} \in SUBSET Memory /\ ~x.run /\ Attempt(x, b, w)
      /\ b.ring = {} /\ b.live = "none"
  BY DEF OnFreeRing, Attempt
<1>2. CASE r = [x EXCEPT !.ring = {w}]
  <2>1. /\ r \in EngineState /\ r.safe = x.safe /\ r.faulted = x.faulted
        /\ r.quarantined = x.quarantined /\ r.owner = x.owner /\ r.base = x.base
        /\ r.renewed = x.renewed /\ r.touched = x.touched /\ r.run = x.run
        /\ r.live = x.live /\ r.settings = x.settings /\ r.ok = x.ok /\ r.ring = {w}
    BY <1>1, <1>2 DEF EngineState
  <2>2. KeepsPower(r, x)
    BY <1>1, <1>2 DEF EngineState, KeepsPower
  <2>3. Attempt(r, b, w)
    BY <1>1, <2>1, <2>2 DEF Attempt, KeepsPower
  <2> QED BY <1>1, <2>1, <2>3 DEF OnFreeRing, Loaded
<1>3. CASE r = [x EXCEPT !.ok = FALSE]
  <2>1. r \in EngineState /\ KeepsRing(r, x) /\ KeepsPower(r, x) /\ ~r.ok
    BY <1>1, <1>3, RefusedState
  <2>2. Attempt(r, b, w)
    BY <1>1, <2>1 DEF Attempt, KeepsRing, KeepsPower
  <2> QED BY <2>1, <2>2 DEF OnFreeRing, Loaded
<1> QED BY <1>2, <1>3 DEF ProgramRcsPpgtt, Refused

LEMMA EnableAttempt ==
    ASSUME NEW b \in EngineState, NEW w \in RenderClient \cup {"private"}, NEW x,
           Loaded(x, b, w), x.ok, NEW switch \in BOOLEAN,
           NEW r \in EnableRcsRing(w, switch, x)
    PROVE  Attempt(r, b, w)
<1> DEFINE live == IF switch THEN w ELSE x.live
           y == [x EXCEPT !.run = TRUE, !.settings = @ \cup {"cache"}, !.live = live]
<1>1. x \in EngineState /\ x.settings \cup {"cache"} \in SUBSET {"cache", "control"}
      /\ live \in RenderClient \cup {"none", "private"}
      /\ b.ring = {} /\ b.live = "none" /\ x.ring = {w} /\ Attempt(x, b, w)
  BY DEF Loaded, OnFreeRing, Attempt, EngineState
<1>2. r \in Fallible("write", y)
  <2>1. y = [x EXCEPT !.run = TRUE, !.settings = @ \cup {"cache"},
                      !.live = IF switch THEN w ELSE @]
    BY <1>1 DEF EngineState
  <2> QED BY <2>1 DEF EnableRcsRing
<1> HIDE DEF live
<1>3. /\ y \in EngineState /\ y.safe = x.safe /\ y.faulted = x.faulted
      /\ y.quarantined = x.quarantined /\ y.owner = x.owner /\ y.base = x.base
      /\ y.renewed = x.renewed /\ y.touched = x.touched /\ y.run
      /\ y.settings = x.settings \cup {"cache"} /\ y.ring = x.ring
  BY <1>1 DEF EngineState
<1>4. KeepsPower(y, x)
  BY <1>1 DEF EngineState, KeepsPower
<1> HIDE DEF y
<1>5. Attempt(y, b, w)
  BY <1>1, <1>3, <1>4 DEF Attempt, KeepsPower
<1> QED BY <1>2, <1>5, FallibleAttempt

Faulty(S) == {IF v.ok THEN v ELSE [v EXCEPT !.faulted = TRUE] : v \in S}
CacheBack(u) == IF u.safe THEN Faulty(RestoreRcsSubmissionCache(u)) ELSE {u}
RingBack(r, x, old) ==
    IF x.ring = old THEN r = x
    ELSE \E u \in RestoreRcsSubmissionRing(old, x.run, x) :
           \E v \in CacheBack([u EXCEPT !.ok = TRUE]) : r = [v EXCEPT !.ok = @ /\ u.ok]

\* The cleanup of a transient batch: the ring as it was or marked as unsafe
LEMMA TransientRestores ==
    ASSUME NEW x \in EngineState, x.safe, NEW old \in SUBSET Memory,
           NEW r, RingBack(r, x, old)
    PROVE  /\ r \in EngineState /\ KeepsPower(r, x)
           /\ r.owner = x.owner /\ r.base = x.base /\ r.renewed = x.renewed
           /\ r.touched = x.touched
           /\ x.faulted => r.faulted
           /\ r.quarantined = x.quarantined
           /\ r.live = x.live \/ r.live = "none"
           /\ r.safe => r.ring = old
           /\ ~r.safe => RestoreFails
           /\ x.ring # old /\ x.run => r.live = "none"
           /\ x.ring = old => r = x
           /\ r.settings \subseteq x.settings
           /\ x.ring # old /\ r.safe /\ ~r.faulted => "cache" \notin r.settings
<1>1. CASE x.ring = old
  BY <1>1, Kept DEF RingBack
<1>2. CASE x.ring # old
  <2>2. PICK u \in RestoreRcsSubmissionRing(old, x.run, x) :
            \E v \in CacheBack([u EXCEPT !.ok = TRUE]) :
               r = [v EXCEPT !.ok = @ /\ u.ok]
    BY <1>2 DEF RingBack
  <2> DEFINE u1 == [u EXCEPT !.ok = TRUE]
  <2>3. PICK v \in CacheBack(u1) : r = [v EXCEPT !.ok = @ /\ u.ok]
    BY <2>2
  <2>4. /\ RingMove(u, x) /\ u.settings = x.settings /\ u.touched = x.touched
        /\ u.live = x.live \/ u.live = "none"
        /\ x.run => u.live = "none"
        /\ \/ u.safe /\ u.ring = old
           \/ ~u.safe /\ RestoreFails
    <3>1. x.run \in BOOLEAN
      BY DEF EngineState
    <3> QED BY <3>1, RestoreRing
  <2>5. u1 \in EngineState /\ KeepsRing(u1, u) /\ KeepsPower(u1, u) /\ u1.ok
    BY <2>4, StatusSet DEF RingMove
  <2>6. RingMove(u1, u)
    BY <2>5 DEF RingMove, KeepsRing
  <2> HIDE DEF u1
  <2>7. /\ v \in EngineState /\ KeepsPower(v, u1) /\ v.owner = u1.owner
        /\ v.base = u1.base /\ v.renewed = u1.renewed /\ v.touched = u1.touched
        /\ v.quarantined = u1.quarantined /\ v.ring = u1.ring /\ v.live = u1.live
        /\ v.safe = u1.safe
        /\ u1.faulted => v.faulted
        /\ v.settings \subseteq u1.settings
        /\ u1.safe /\ ~v.faulted => "cache" \notin v.settings
    <3>1. CASE ~u1.safe
      BY <3>1, <2>3, <2>5, Kept DEF CacheBack
    <3>2. CASE u1.safe
      <4>1. PICK z \in RestoreRcsSubmissionCache(u1) :
                v = IF z.ok THEN z ELSE [z EXCEPT !.faulted = TRUE]
        BY <3>2, <2>3 DEF CacheBack, Faulty
      <4>2. /\ RingMove(z, u1) /\ z.ring = u1.ring /\ z.live = u1.live
            /\ z.touched = u1.touched /\ z.safe = u1.safe
            /\ \/ z.settings = u1.settings \ {"cache"}
               \/ z.settings = u1.settings /\ ~z.ok
        BY <2>5, <4>1, RestoreCache
      <4>3. CASE z.ok
        BY <4>1, <4>2, <4>3 DEF RingMove
      <4>4. CASE ~z.ok
        <5>1. v = [z EXCEPT !.faulted = TRUE] /\ z \in EngineState
          BY <4>1, <4>2, <4>4 DEF RingMove
        <5>2. /\ v \in EngineState /\ v.owner = z.owner /\ v.base = z.base
              /\ v.renewed = z.renewed /\ v.touched = z.touched /\ v.faulted
              /\ v.quarantined = z.quarantined /\ v.ring = z.ring /\ v.live = z.live
              /\ v.safe = z.safe /\ v.settings = z.settings
          BY <5>1 DEF EngineState
        <5>3. KeepsPower(v, z)
          BY <5>1 DEF EngineState, KeepsPower
        <5> QED BY <4>2, <5>2, <5>3 DEF RingMove, KeepsPower
      <4> QED BY <4>3, <4>4
    <3> QED BY <3>1, <3>2
  <2>8. r \in EngineState /\ KeepsRing(r, v) /\ KeepsPower(r, v)
    BY <2>3, <2>4, <2>7, BothStatuses DEF RingMove
  <2>9. KeepsPower(r, x)
    BY <2>4, <2>5, <2>7, <2>8 DEF RingMove, KeepsPower
  <2>10. /\ r.owner = x.owner /\ r.base = x.base /\ r.renewed = x.renewed
         /\ r.touched = x.touched /\ r.quarantined = x.quarantined
         /\ (x.faulted => r.faulted) /\ (r.live = x.live \/ r.live = "none")
         /\ (x.run => r.live = "none")
    BY <2>4, <2>5, <2>7, <2>8 DEF RingMove, KeepsRing
  <2>11. /\ r.safe => r.ring = old
         /\ ~r.safe => RestoreFails
         /\ r.settings \subseteq x.settings
         /\ r.safe /\ ~r.faulted => "cache" \notin r.settings
    BY <2>4, <2>5, <2>7, <2>8 DEF KeepsRing
  <2> QED BY <1>2, <2>8, <2>9, <2>10, <2>11
<1> QED BY <1>1, <1>2

LEMMA TransientControl ==
    ASSUME NEW x \in EngineState,
           NEW r \in IF x.touched THEN Faulty(RestoreRcsPpgttControl(x)) ELSE {x}
    PROVE  /\ r \in EngineState /\ KeepsPower(r, x)
           /\ r.owner = x.owner /\ r.base = x.base /\ r.renewed = x.renewed
           /\ x.faulted => r.faulted
           /\ r.quarantined = x.quarantined /\ r.live = x.live
           /\ r.ring = x.ring /\ r.safe = x.safe
           /\ r.settings \subseteq x.settings
           /\ x.touched /\ ~r.faulted => "control" \notin r.settings
<1>1. CASE ~x.touched
  BY <1>1, Kept
<1>2. CASE x.touched
  <2>1. PICK z \in RestoreRcsPpgttControl(x) :
            r = IF z.ok THEN z ELSE [z EXCEPT !.faulted = TRUE]
    BY <1>2 DEF Faulty
  <2>2. /\ RingMove(z, x) /\ z.ring = x.ring /\ z.live = x.live /\ z.safe = x.safe
        /\ \/ z.settings = x.settings \ {"control"}
           \/ z.settings = x.settings /\ ~z.ok
    BY <2>1, RestoreControl
  <2>3. CASE z.ok
    BY <2>1, <2>2, <2>3 DEF RingMove
  <2>4. CASE ~z.ok
    <3>1. r = [z EXCEPT !.faulted = TRUE] /\ z \in EngineState
      BY <2>1, <2>2, <2>4 DEF RingMove
    <3>2. /\ r \in EngineState /\ r.owner = z.owner /\ r.base = z.base
          /\ r.renewed = z.renewed /\ r.faulted /\ r.quarantined = z.quarantined
          /\ r.ring = z.ring /\ r.live = z.live /\ r.safe = z.safe
          /\ r.settings = z.settings
      BY <3>1 DEF EngineState
    <3>3. KeepsPower(r, z)
      BY <3>1 DEF EngineState, KeepsPower
    <3> QED BY <2>2, <3>2, <3>3 DEF RingMove, KeepsPower
  <2> QED BY <2>3, <2>4
<1> QED BY <1>1, <1>2

\* The attempt itself, stage by stage
LEMMA TransientAttempt ==
    ASSUME NEW e \in EngineState, NEW w \in RenderClient \cup {"private"},
           NEW isSubmission \in BOOLEAN,
           NEW x \in Then(Then(Then(Then(Then(Then(TakePower(Begun(e)),
                       LAMBDA u : IF isSubmission
                                  THEN Then(ClearRcsFault(u), ProgramRcsPpgttControl)
                                  ELSE {u}),
                       LAMBDA u : Guarded(RingAvailable(u), u)),
                       LAMBDA u : PrepareRcsRing(w, u)),
                       LAMBDA u : ProgramRcsPpgtt(w, u)),
                       LAMBDA u : EnableRcsRing(w, TRUE, u)), WaitForRcsCompletion)
    PROVE  Attempt(x, Begun(e), w)
<1> DEFINE b == Begun(e)
           Prep(u) == IF isSubmission THEN Then(ClearRcsFault(u), ProgramRcsPpgttControl)
                      ELSE {u}
           S0 == TakePower(b)
           S1 == Then(S0, Prep)
           S2 == Then(S1, LAMBDA u : Guarded(RingAvailable(u), u))
           S3 == Then(S2, LAMBDA u : PrepareRcsRing(w, u))
           S4 == Then(S3, LAMBDA u : ProgramRcsPpgtt(w, u))
           S5 == Then(S4, LAMBDA u : EnableRcsRing(w, TRUE, u))
           S6 == Then(S5, WaitForRcsCompletion)
<1>a. x \in S6 /\ w \in Memory
  BY DEF Memory
<1>b. b \in EngineState /\ b.taken = {} /\ ~b.run /\ b.safe
  BY BegunState
<1> HIDE DEF b
<1>0. \A u \in S0 : Attempt(u, b, w) /\ ~u.run
  <2> TAKE u \in S0
  <2>1. /\ u \in EngineState /\ KeepsRing(u, b)
        /\ u.held = b.held /\ u.flags = b.flags /\ u.wakeChanged = b.wakeChanged
        /\ \/ u.taken = {} /\ u.acks = b.acks
           \/ b.acks = {} /\ u.taken = u.acks
    BY <1>b, TakePowerKeeps
  <2> QED BY <1>b, <2>1 DEF KeepsRing, Attempt
<1> HIDE DEF S0
<1>1. \A u \in S1 : Attempt(u, b, w) /\ ~u.run
  <2> TAKE u \in S1
  <2>1. PICK y \in S0 : IF y.ok THEN u \in Prep(y) ELSE u = y
    <3> HIDE DEF Prep
    <3> QED BY DEF Then
  <2>2. Attempt(y, b, w) /\ ~y.run
    BY <1>0
  <2>3. CASE u = y
    BY <2>2, <2>3
  <2>4. CASE y.ok /\ isSubmission
    <3>1. u \in Then(ClearRcsFault(y), ProgramRcsPpgttControl)
      BY <2>1, <2>4
    <3>2. PICK z \in ClearRcsFault(y) :
              IF z.ok THEN u \in ProgramRcsPpgttControl(z) ELSE u = z
      BY <3>1 DEF Then
    <3>3. Attempt(z, b, w) /\ ~z.run
      BY <2>2, <1>b, FallibleAttempt DEF ClearRcsFault
    <3> QED BY <1>b, <3>2, <3>3, ControlAttempt
  <2> QED BY <2>1, <2>3, <2>4
<1> HIDE DEF S1
<1>2. \A u \in S2 : OnFreeRing(u, b, w)
  <2> TAKE u \in S2
  <2>1. PICK y \in S1 : IF y.ok THEN u \in Guarded(RingAvailable(y), y) ELSE u = y
    BY DEF Then
  <2>2. Attempt(y, b, w) /\ ~y.run /\ y \in EngineState
    BY <1>1 DEF Attempt
  <2>3. CASE ~y.ok
    BY <2>1, <2>2, <2>3 DEF OnFreeRing
  <2>4. CASE y.ok /\ RingAvailable(y)
    BY <2>1, <2>2, <2>4 DEF Guarded, RingAvailable, OnFreeRing, Attempt
  <2>5. CASE y.ok /\ ~RingAvailable(y)
    <3>1. u = [y EXCEPT !.ok = FALSE]
      BY <2>1, <2>5 DEF Guarded, Refused
    <3>2. u \in EngineState /\ KeepsRing(u, y) /\ KeepsPower(u, y) /\ ~u.ok
      BY <2>2, <3>1, RefusedState
    <3> QED BY <2>2, <3>2 DEF OnFreeRing, Attempt, KeepsRing, KeepsPower
  <2> QED BY <2>3, <2>4, <2>5
<1> HIDE DEF S2
<1>3. \A u \in S3 : OnFreeRing(u, b, w)
  <2> TAKE u \in S3
  <2>1. PICK y \in S2 : IF y.ok THEN u \in PrepareRcsRing(w, y) ELSE u = y
    BY DEF Then
  <2> QED BY <1>a, <1>b, <1>2, <2>1, RingAttempt
<1> HIDE DEF S3
<1>4. \A u \in S4 : Loaded(u, b, w)
  <2> TAKE u \in S4
  <2>1. PICK y \in S3 : IF y.ok THEN u \in ProgramRcsPpgtt(w, y) ELSE u = y
    BY DEF Then
  <2>2. CASE ~y.ok
    BY <1>3, <2>1, <2>2 DEF Loaded
  <2> QED BY <1>a, <1>b, <1>3, <2>1, <2>2, PpgttAttempt
<1> HIDE DEF S4
<1>5. \A u \in S5 : Attempt(u, b, w)
  <2> TAKE u \in S5
  <2>1. PICK y \in S4 : IF y.ok THEN u \in EnableRcsRing(w, TRUE, y) ELSE u = y
    BY DEF Then
  <2>2. CASE ~y.ok
    BY <1>4, <2>1, <2>2 DEF Loaded, OnFreeRing
  <2> QED BY <1>b, <1>4, <2>1, <2>2, EnableAttempt
<1> HIDE DEF S5
<1>6. PICK y \in S5 : IF y.ok THEN x \in WaitForRcsCompletion(y) ELSE x = y
  BY <1>a DEF Then
<1> QED BY <1>b, <1>5, <1>6, FallibleAttempt DEF WaitForRcsCompletion, b

\* What a transient use of the engine may leave: as it was, or a fault
TransientPost(r, e) ==
    /\ r \in EngineState
    /\ r.owner = e.owner /\ r.base = e.base /\ ~r.renewed
    /\ e.faulted => r.faulted
    /\ e.quarantined => r.quarantined
    /\ e.live = "none" \/ r.live = e.live
    /\ r.ring = e.ring \/ (r.faulted /\ r.quarantined /\ RestoreFails)
    /\ BaseRing(e) /\ ~r.faulted => BaseRing(r)
    /\ r.held = e.held
    /\ "release" \notin GpuFault /\ PowerRest(e) => PowerRest(r)

LEMMA TransientLeaves ==
    ASSUME NEW e \in EngineState, NEW w \in RenderClient \cup {"private"},
           NEW isSubmission \in BOOLEAN, NEW r \in Transient(w, isSubmission, e)
    PROVE  TransientPost(r, e)
<1> DEFINE b == Begun(e)
           Prep(u) == IF isSubmission THEN Then(ClearRcsFault(u), ProgramRcsPpgttControl)
                      ELSE {u}
           ran == Then(Then(Then(Then(Then(Then(TakePower(Begun(e)), Prep),
                       LAMBDA u : Guarded(RingAvailable(u), u)),
                       LAMBDA u : PrepareRcsRing(w, u)),
                       LAMBDA u : ProgramRcsPpgtt(w, u)),
                       LAMBDA u : EnableRcsRing(w, TRUE, u)), WaitForRcsCompletion)
           Restore(x) == IF x.ring = e.ring THEN {x}
                         ELSE Always(RestoreRcsSubmissionRing(e.ring, x.run, x), CacheBack)
           Control(x) == IF x.touched THEN Faulty(RestoreRcsPpgttControl(x)) ELSE {x}
           half == Always(ran, Restore)
           restored == Always(half, Control)
           Keep(x) == IF x.safe THEN x ELSE Marked(x)
<1>b. /\ b \in EngineState /\ b.taken = {} /\ ~b.run /\ b.safe /\ b.ok /\ ~b.touched
      /\ ~b.renewed /\ b.acks = e.acks /\ b.held = e.held /\ b.flags = e.flags
      /\ b.faulted = e.faulted /\ b.quarantined = e.quarantined
      /\ b.owner = e.owner /\ b.base = e.base /\ b.ring = e.ring
      /\ b.live = e.live /\ b.settings = e.settings
  BY BegunState
<1>0. CASE ~EngineUsable(e)
  <2>1. r = [b EXCEPT !.ok = FALSE]
    BY <1>0 DEF Transient, Refused
  <2> HIDE DEF b
  <2>2. r \in EngineState /\ KeepsRing(r, b) /\ KeepsPower(r, b)
    BY <1>b, <2>1, RefusedState
  <2> QED BY <1>b, <2>2 DEF TransientPost, KeepsRing, KeepsPower, BaseRing, PowerRest
<1>1. CASE EngineUsable(e)
  <2>1. r \in {Keep(x) : x \in ReturnPower(restored)}
    BY <1>1 DEF Transient, Faulty, CacheBack
  <2>2. PICK z \in ReturnPower(restored) : r = Keep(z)
    <3> HIDE DEF restored, Keep
    <3> QED BY <2>1
  <2>3. \A x \in ran : Attempt(x, b, w)
    BY TransientAttempt
  <2> HIDE DEF ran, b
  \* the ring
  <2> DEFINE Back(y) ==
               /\ y \in EngineState
               /\ y.owner = b.owner /\ y.base = b.base /\ ~y.renewed
               /\ b.faulted => y.faulted
               /\ y.quarantined = b.quarantined
               /\ y.held = b.held /\ y.flags = b.flags
               /\ \/ y.taken = {} /\ y.acks = b.acks
                  \/ b.acks = {} /\ y.taken = y.acks
               /\ b.live = "none" \/ y.live = b.live
               /\ y.safe => y.ring = b.ring
               /\ ~y.safe => RestoreFails
               /\ BaseRing(b) /\ y.safe /\ ~y.faulted =>
                     /\ y.live = "none" /\ "cache" \notin y.settings
                     /\ "control" \in y.settings => y.touched
  <2>4. \A y \in half : Back(y)
    <3> TAKE y \in half
    <3>1. PICK x \in ran : \E v \in Restore([x EXCEPT !.ok = TRUE]) :
                              y = [v EXCEPT !.ok = @ /\ x.ok]
      <4> HIDE DEF Restore
      <4> QED BY DEF Always
    <3> DEFINE x1 == [x EXCEPT !.ok = TRUE]
    <3>2. PICK v \in Restore(x1) : y = [v EXCEPT !.ok = @ /\ x.ok]
      BY <3>1
    <3>3. Attempt(x, b, w) /\ x \in EngineState
      BY <2>3 DEF Attempt
    <3>4. x1 \in EngineState /\ KeepsRing(x1, x) /\ KeepsPower(x1, x)
      BY <3>3, StatusSet
    <3> HIDE DEF x1
    <3>5. x1.safe /\ e.ring \in SUBSET Memory
      BY <3>3, <3>4 DEF Attempt, KeepsRing, EngineState
    <3> HIDE DEF half, restored, Control
    <3>a. RingBack(v, x1, e.ring)
      BY <3>2 DEF Always, RingBack
    <3> HIDE DEF Restore
    <3>6. /\ v \in EngineState /\ KeepsPower(v, x1)
          /\ v.owner = x1.owner /\ v.base = x1.base /\ v.renewed = x1.renewed
          /\ v.touched = x1.touched
          /\ x1.faulted => v.faulted
          /\ v.quarantined = x1.quarantined
          /\ v.live = x1.live \/ v.live = "none"
          /\ v.safe => v.ring = e.ring
          /\ ~v.safe => RestoreFails
          /\ x1.ring # e.ring /\ x1.run => v.live = "none"
          /\ x1.ring = e.ring => v = x1
          /\ v.settings \subseteq x1.settings
          /\ x1.ring # e.ring /\ v.safe /\ ~v.faulted => "cache" \notin v.settings
      BY <3>4, <3>5, <3>a, TransientRestores
    <3>7. y \in EngineState /\ KeepsRing(y, v) /\ KeepsPower(y, v)
      BY <3>2, <3>3, <3>6, BothStatuses
    <3>8. /\ y.owner = b.owner /\ y.base = b.base /\ ~y.renewed
          /\ b.faulted => y.faulted
          /\ y.quarantined = b.quarantined
          /\ y.safe => y.ring = b.ring
          /\ ~y.safe => RestoreFails
      BY <1>b, <3>3, <3>4, <3>6, <3>7 DEF Attempt, KeepsRing
    <3>b. /\ y.held = b.held /\ y.flags = b.flags
          /\ \/ y.taken = {} /\ y.acks = b.acks
             \/ b.acks = {} /\ y.taken = y.acks
      BY <1>b, <3>3, <3>4, <3>6, <3>7 DEF Attempt, KeepsPower
    <3>9. b.live = "none" \/ y.live = b.live
      BY <1>b, <3>3, <3>4, <3>6, <3>7 DEF Attempt, KeepsRing
    <3>10. ASSUME BaseRing(b), y.safe, ~y.faulted
           PROVE  /\ y.live = "none" /\ "cache" \notin y.settings
                  /\ "control" \in y.settings => y.touched
      <4>0. b.ring = {} /\ b.live = "none" /\ b.settings = {} /\ e.ring = {}
        BY <1>b, <3>10 DEF BaseRing
      <4>1. "control" \in y.settings => y.touched
        BY <4>0, <3>3, <3>4, <3>6, <3>7 DEF Attempt, KeepsRing
      <4>2. CASE x1.ring = e.ring
        <5>1. ~x.run
          BY <4>0, <4>2, <3>3, <3>4 DEF Attempt, KeepsRing
        <5> QED BY <4>0, <4>1, <4>2, <5>1, <3>3, <3>4, <3>6, <3>7 DEF Attempt, KeepsRing
      <4>3. CASE x1.ring # e.ring
        <5>1. "cache" \notin y.settings
          BY <4>3, <3>6, <3>7, <3>10 DEF KeepsRing
        <5>2. y.live = "none"
          BY <4>0, <4>3, <3>3, <3>4, <3>6, <3>7 DEF Attempt, KeepsRing
        <5> QED BY <4>1, <5>1, <5>2
      <4> QED BY <4>2, <4>3
    <3> QED BY <3>7, <3>8, <3>9, <3>10, <3>b
  <2> HIDE DEF half
  <2>5. ASSUME NEW q \in restored
        PROVE  /\ Back(q)
               /\ BaseRing(b) /\ q.safe /\ ~q.faulted => "control" \notin q.settings
    <3>1. PICK y \in half : \E v \in Control([y EXCEPT !.ok = TRUE]) :
                               q = [v EXCEPT !.ok = @ /\ y.ok]
      <4> HIDE DEF Control
      <4> QED BY DEF Always
    <3> DEFINE y1 == [y EXCEPT !.ok = TRUE]
    <3>2. PICK v \in Control(y1) : q = [v EXCEPT !.ok = @ /\ y.ok]
      BY <3>1
    <3>3. Back(y) /\ y \in EngineState
      BY <2>4
    <3>4. y1 \in EngineState /\ KeepsRing(y1, y) /\ KeepsPower(y1, y)
      BY <3>3, StatusSet
    <3> HIDE DEF y1
    <3>5. /\ v \in EngineState /\ KeepsPower(v, y1)
          /\ v.owner = y1.owner /\ v.base = y1.base /\ v.renewed = y1.renewed
          /\ y1.faulted => v.faulted
          /\ v.quarantined = y1.quarantined /\ v.live = y1.live
          /\ v.ring = y1.ring /\ v.safe = y1.safe
          /\ v.settings \subseteq y1.settings
          /\ y1.touched /\ ~v.faulted => "control" \notin v.settings
      BY <3>4, TransientControl
    <3>6. q \in EngineState /\ KeepsRing(q, v) /\ KeepsPower(q, v)
      BY <3>2, <3>3, <3>5, BothStatuses
    <3>7. BaseRing(b) /\ q.safe /\ ~q.faulted =>
              "control" \notin q.settings /\ "cache" \notin q.settings
              /\ q.live = "none"
      BY <3>3, <3>4, <3>5, <3>6 DEF KeepsRing
    <3>8. Back(q)
      <4>1. /\ q.held = b.held /\ q.flags = b.flags
            /\ \/ q.taken = {} /\ q.acks = b.acks
               \/ b.acks = {} /\ q.taken = q.acks
        BY <3>3, <3>4, <3>5, <3>6 DEF KeepsPower
      <4>2. /\ q.owner = b.owner /\ q.base = b.base /\ ~q.renewed
            /\ b.faulted => q.faulted
            /\ q.quarantined = b.quarantined
            /\ b.live = "none" \/ q.live = b.live
            /\ q.safe => q.ring = b.ring
            /\ ~q.safe => RestoreFails
        BY <3>3, <3>4, <3>5, <3>6 DEF KeepsRing
      <4> QED BY <4>1, <4>2, <3>6, <3>7
    <3> QED BY <3>7, <3>8
  <2>6. restored \in SUBSET EngineState
    BY <2>5
  <2> HIDE DEF restored
  <2>7. PICK q \in restored :
           /\ z \in EngineState /\ KeepsRing(z, q)
           /\ z.held = q.held /\ z.flags = q.flags
           /\ z.acks = q.acks \ q.taken \/ "release" \in GpuFault
    BY <2>6, ReturnPowerKeeps
  <2>8. /\ Back(q)
        /\ BaseRing(b) /\ q.safe /\ ~q.faulted => "control" \notin q.settings
    BY <2>5
  <2>9. BaseRing(b) /\ q.safe /\ ~q.faulted => BaseRing(q)
    <3>1. q.settings \in SUBSET {"cache", "control"}
      BY <2>8 DEF EngineState
    <3> QED BY <3>1, <2>8 DEF BaseRing
  <2>10. "release" \notin GpuFault /\ PowerRest(b) => PowerRest(z)
    BY <2>7, <2>8 DEF PowerRest
  <2>11. CASE z.safe
    <3>1. r = z
      BY <2>2, <2>11
    <3> QED BY <1>b, <3>1, <2>7, <2>8, <2>9, <2>10, <2>11
         DEF TransientPost, KeepsRing, BaseRing, PowerRest
  <2>12. CASE ~z.safe
    <3>1. r = Marked(z)
      BY <2>2, <2>12
    <3>2. /\ r \in EngineState /\ KeepsPower(r, z) /\ r.faulted /\ r.quarantined
          /\ r.owner = z.owner /\ r.base = z.base /\ r.ring = z.ring
          /\ r.live = z.live /\ r.renewed = z.renewed
      BY <2>7, <3>1, MarkedState
    <3> QED BY <1>b, <3>2, <2>7, <2>8, <2>10, <2>12
         DEF TransientPost, KeepsRing, KeepsPower, PowerRest
  <2> QED BY <2>11, <2>12
<1> QED BY <1>0, <1>1

----------------------------------------------------------------------------
(* Ownership.                                                              *)

\* An engine without owner and fault is as the firmware left it
AtRest(e) ==
    /\ e.base = {}
    /\ e.owner = "none" /\ ~e.faulted => BaseRing(e) /\ ~e.held

LEMMA PowerVerifiedKeeps ==
    ASSUME NEW e \in EngineState, NEW r \in PowerVerified(e)
    PROVE  /\ r \in EngineState /\ KeepsRing(r, e) /\ KeepsPower(r, e)
           /\ r.ok => e.ok
<1>1. r = e \/ r = [e EXCEPT !.ok = FALSE]
  BY DEF PowerVerified, Guarded, Refused
<1> QED BY <1>1, RefusedState, Kept

\* What was taken can be given back without touching what a persistent owner has
Borrowed(x, e) ==
    \/ x.taken = {} /\ x.acks = e.acks
    \/ e.acks = {} /\ x.taken = x.acks

\* Ownership given up: the baseline is back, or the engine is at fault
ReleasedPost(r, e) ==
    /\ r \in EngineState /\ r.owner = "none" /\ AtRest(r)
    /\ e.faulted => r.faulted
    /\ e.quarantined => r.quarantined
    /\ ~r.ok => r.faulted /\ r.quarantined
    /\ \/ ~r.renewed /\ r.ring = e.ring /\ r.live = e.live /\ (e.owner # "none" => ~r.ok)
       \/ r.renewed /\ r.live = "none" /\ (~RestoreFails => r.ring = {})
    /\ "release" \notin GpuFault /\ PowerRest(e) => PowerRest(r)

LEMMA ReleaseLeaves ==
    ASSUME NEW e \in EngineState, AtRest(e), NEW expected,
           NEW r \in ReleasePersistentRcsOwnership(expected, e)
    PROVE  \/ ReleasedPost(r, e)
           \/ r = Begun(e) /\ (e.owner = "none" \/ e.owner # expected)
<1> DEFINE b == Begun(e)
           owned == e.owner # "none"
           power == IF ~owned THEN {b}
                    ELSE IF e.held /\ e.flags # {} THEN PowerVerified(b)
                    ELSE IF e.held THEN Refused(b) ELSE TakePower(b)
           restored == IF owned
                       THEN Then(power, RestorePersistentRcsBaselineLocked)
                       ELSE power
           returned == IF e.held THEN Always(restored, ReleasePersistentPowerLocked)
                       ELSE ReturnPower(restored)
           End(x) == [IF x.ok THEN x ELSE Marked(x) EXCEPT !.owner = "none"]
           idle == \/ ~owned /\ ~e.held
                   \/ expected # "any" /\ owned /\ e.owner # expected
<1>b. /\ b \in EngineState /\ b.taken = {} /\ b.ok /\ ~b.renewed
      /\ b.acks = e.acks /\ b.held = e.held /\ b.flags = e.flags
      /\ b.faulted = e.faulted /\ b.quarantined = e.quarantined
      /\ b.owner = e.owner /\ b.base = e.base /\ b.ring = e.ring
      /\ b.live = e.live /\ b.settings = e.settings
  BY BegunState
<1>c. e.base = {}
  BY DEF AtRest
<1>1. CASE idle
  <2>1. r = b
    BY <1>1 DEF ReleasePersistentRcsOwnership
  <2> QED BY <1>1, <2>1
<1>2. CASE ~idle
  <2>1. r \in {End(x) : x \in returned}
    BY <1>2 DEF ReleasePersistentRcsOwnership
  <2>2. PICK z \in returned : r = End(z)
    <3> HIDE DEF returned, End
    <3> QED BY <2>1
  <2> HIDE DEF b
  <2>3. \A x \in power :
           /\ x \in EngineState /\ KeepsRing(x, b) /\ x.held = b.held
           /\ x.flags = b.flags /\ Borrowed(x, b) /\ (e.held => x.taken = {})
    <3> TAKE x \in power
    <3>1. CASE ~owned
      BY <1>b, <3>1, Kept DEF Borrowed
    <3>2. CASE owned /\ e.held /\ e.flags # {}
      BY <1>b, <3>2, PowerVerifiedKeeps DEF Borrowed, KeepsPower
    <3>3. CASE owned /\ e.held /\ e.flags = {}
      <4>1. x = [b EXCEPT !.ok = FALSE]
        BY <3>3 DEF Refused
      <4> QED BY <1>b, <4>1, RefusedState DEF Borrowed, KeepsPower
    <3>4. CASE owned /\ ~e.held
      BY <1>b, <3>4, TakePowerKeeps DEF Borrowed
    <3> QED BY <3>1, <3>2, <3>3, <3>4
  <2> HIDE DEF power
  <2> DEFINE Restored(y) ==
               /\ y \in EngineState /\ y.base = {} /\ y.held = b.held
               /\ y.flags = b.flags /\ Borrowed(y, b) /\ (e.held => y.taken = {})
               /\ b.faulted => y.faulted
               /\ b.quarantined => y.quarantined
               /\ \/ ~y.renewed /\ y.ring = b.ring /\ y.live = b.live
                     /\ y.settings = b.settings /\ (owned => ~y.ok)
                  \/ /\ y.renewed /\ y.live = "none"
                     /\ ~RestoreFails => y.ring = {}
                     /\ y.ok => BaseRing(y)
  <2>4. \A y \in restored : Restored(y)
    <3> TAKE y \in restored
    <3>1. CASE ~owned
      <4>1. y \in power
        BY <3>1
      <4> HIDE DEF restored
      <4> QED BY <1>b, <1>c, <2>3, <3>1, <4>1 DEF KeepsRing
    <3>2. CASE owned
      <4>1. PICK x \in power :
                IF x.ok THEN y \in RestorePersistentRcsBaselineLocked(x) ELSE y = x
        BY <3>2 DEF Then
      <4> HIDE DEF restored, returned
      <4>2. /\ x \in EngineState /\ KeepsRing(x, b) /\ x.held = b.held
            /\ x.flags = b.flags /\ Borrowed(x, b) /\ (e.held => x.taken = {})
            /\ x.base = {}
        BY <1>b, <1>c, <2>3 DEF KeepsRing
      <4>3. CASE ~x.ok
        BY <1>b, <3>2, <4>1, <4>2, <4>3 DEF KeepsRing
      <4>4. CASE x.ok
        <5>1. /\ y \in EngineState /\ KeepsPower(y, x)
              /\ y.renewed /\ y.base = {} /\ y.live = "none"
              /\ \/ y.ok /\ BaseRing(y) /\ y.faulted = x.faulted
                    /\ y.quarantined = x.quarantined
                 \/ ~y.ok /\ y.faulted /\ y.quarantined
              /\ ~RestoreFails => y.ring = {} /\ y.ok
          BY <4>1, <4>2, <4>4, RestoreBaseline
        <5>2. /\ y.held = b.held /\ y.flags = b.flags /\ Borrowed(y, b)
              /\ (e.held => y.taken = {})
          BY <4>2, <5>1 DEF KeepsPower, Borrowed
        <5>3. (b.faulted => y.faulted) /\ (b.quarantined => y.quarantined)
          BY <4>2, <5>1 DEF KeepsRing
        <5> QED BY <5>1, <5>2, <5>3
      <4> QED BY <4>3, <4>4
    <3> QED BY <3>1, <3>2
  <2>5. restored \in SUBSET EngineState
    BY <2>4
  <2> HIDE DEF restored
  <2>6. \E y \in restored :
           /\ z \in EngineState /\ KeepsRing(z, y) /\ (z.ok => y.ok /\ ~z.held)
           /\ "release" \notin GpuFault /\ PowerRest(e) => PowerRest(z)
    <3>1. CASE e.held
      <4>1. PICK y \in restored :
                \E v \in ReleasePersistentPowerLocked([y EXCEPT !.ok = TRUE]) :
                   z = [v EXCEPT !.ok = @ /\ y.ok]
        BY <3>1 DEF Always
      <4> DEFINE y1 == [y EXCEPT !.ok = TRUE]
      <4>2. PICK v \in ReleasePersistentPowerLocked(y1) : z = [v EXCEPT !.ok = @ /\ y.ok]
        BY <4>1
      <4>3. Restored(y) /\ y \in EngineState
        BY <2>4
      <4>4. y1 \in EngineState /\ KeepsRing(y1, y) /\ KeepsPower(y1, y) /\ y1.ok
        BY <4>3, StatusSet
      <4> HIDE DEF y1, returned
      <4>5. /\ v \in EngineState /\ KeepsRing(v, y1)
            /\ y1.held /\ v.ok => ~v.held
            /\ "release" \notin GpuFault /\ PowerRest(y1) => PowerRest(v)
        BY <4>4, PersistentPowerKeeps
      <4>6. /\ z \in EngineState /\ KeepsRing(z, v) /\ KeepsPower(z, v)
            /\ z.ok <=> v.ok /\ y.ok
        BY <4>2, <4>3, <4>5, BothStatuses
      <4>7. KeepsRing(z, y)
        BY <4>4, <4>5, <4>6 DEF KeepsRing
      <4>8. y1.held
        BY <1>b, <3>1, <4>3, <4>4 DEF KeepsPower
      <4>9. z.ok => y.ok /\ ~z.held
        BY <4>5, <4>6, <4>8 DEF KeepsPower
      <4>10. ASSUME "release" \notin GpuFault, PowerRest(e) PROVE PowerRest(z)
        <5>1. y.acks = e.acks /\ y.held = e.held /\ y.flags = e.flags
          BY <1>b, <3>1, <4>3 DEF Borrowed
        <5>2. PowerRest(y1)
          BY <4>4, <4>10, <5>1 DEF KeepsPower, PowerRest
        <5> QED BY <4>5, <4>6, <4>10, <5>2 DEF KeepsPower, PowerRest
      <4> QED BY <4>6, <4>7, <4>9, <4>10
    <3>2. CASE ~e.held
      <4>1. z \in ReturnPower(restored)
        BY <3>2
      <4> HIDE DEF returned
      <4>2. PICK y \in restored :
              /\ z \in EngineState /\ KeepsRing(z, y)
              /\ z.held = y.held /\ z.flags = y.flags
              /\ z.ok => y.ok
              /\ z.acks = y.acks \ y.taken \/ "release" \in GpuFault
        BY <2>5, <4>1, ReturnPowerKeeps
      <4>3. Restored(y)
        BY <2>4
      <4>4. ~z.held
        BY <1>b, <3>2, <4>2, <4>3
      <4>5. ASSUME "release" \notin GpuFault, PowerRest(e) PROVE PowerRest(z)
        BY <1>b, <3>2, <4>2, <4>3, <4>4, <4>5 DEF Borrowed, PowerRest
      <4> QED BY <4>2, <4>4, <4>5
    <3> QED BY <3>1, <3>2
  <2> HIDE DEF returned
  <2>7. PICK y \in restored :
           /\ z \in EngineState /\ KeepsRing(z, y) /\ (z.ok => y.ok /\ ~z.held)
           /\ "release" \notin GpuFault /\ PowerRest(e) => PowerRest(z)
    BY <2>6
  <2>8. Restored(y)
    BY <2>4
  <2> DEFINE m == IF z.ok THEN z ELSE Marked(z)
  <2>9. /\ m \in EngineState /\ m.ok = z.ok /\ m.held = z.held /\ m.acks = z.acks
        /\ m.flags = z.flags /\ m.base = z.base /\ m.ring = z.ring
        /\ m.live = z.live /\ m.settings = z.settings /\ m.renewed = z.renewed
        /\ z.faulted => m.faulted
        /\ z.quarantined => m.quarantined
        /\ ~z.ok => m.faulted /\ m.quarantined
    BY <2>7, MarkedState DEF KeepsPower
  <2>10. r = [m EXCEPT !.owner = "none"]
    BY <2>2
  <2> HIDE DEF m
  <2>11. /\ r \in EngineState /\ r.ok = m.ok /\ r.held = m.held /\ r.acks = m.acks
         /\ r.flags = m.flags /\ r.base = m.base /\ r.ring = m.ring
         /\ r.live = m.live /\ r.settings = m.settings /\ r.renewed = m.renewed
         /\ r.faulted = m.faulted /\ r.quarantined = m.quarantined
         /\ r.owner = "none"
    BY <2>9, <2>10 DEF EngineState
  <2>12. "release" \notin GpuFault /\ PowerRest(e) => PowerRest(r)
    BY <2>7, <2>9, <2>11 DEF PowerRest
  <2>13. /\ e.faulted => r.faulted
         /\ e.quarantined => r.quarantined
         /\ ~r.ok => r.faulted /\ r.quarantined
    BY <1>b, <2>7, <2>8, <2>9, <2>11 DEF KeepsRing
  <2>14. /\ r.base = {} /\ r.ring = y.ring /\ r.live = y.live
         /\ r.settings = y.settings /\ r.renewed = y.renewed
         /\ (r.ok => y.ok /\ ~r.held)
    BY <2>7, <2>8, <2>9, <2>11 DEF KeepsRing
  <2>15. \/ ~r.renewed /\ r.ring = e.ring /\ r.live = e.live /\ (e.owner # "none" => ~r.ok)
         \/ r.renewed /\ r.live = "none" /\ (~RestoreFails => r.ring = {})
    BY <1>b, <2>8, <2>14
  <2>16. AtRest(r)
    <3> SUFFICES ASSUME ~r.faulted PROVE BaseRing(r) /\ ~r.held
      BY <2>14 DEF AtRest
    <3>1. r.ok /\ y.ok /\ ~r.held
      BY <2>13, <2>14
    <3>2. CASE owned
      BY <2>8, <2>14, <3>1, <3>2 DEF BaseRing
    <3>3. CASE ~owned
      <4>1. e.held /\ ~e.faulted
        BY <1>2, <2>13, <3>3
      <4> QED BY <3>3, <4>1 DEF AtRest
    <3> QED BY <3>1, <3>2, <3>3
  <2> QED BY <2>11, <2>12, <2>13, <2>15, <2>16 DEF ReleasedPost
<1> QED BY <1>1, <1>2

----------------------------------------------------------------------------
(* A persistent submission.                                                *)

\* Where it stands: the registers change only once the ring is claimed, which
\* either the owner or touched records
Claiming(x, b) ==
    /\ x \in EngineState
    /\ x.faulted = b.faulted /\ x.quarantined = b.quarantined
    /\ x.base = {} /\ ~x.renewed /\ x.held = b.held /\ x.flags = b.flags
    /\ Borrowed(x, b) /\ (b.held => x.taken = {})
    /\ x.owner = "none" /\ ~x.touched =>
          /\ b.owner = "none" /\ x.ring = b.ring /\ x.live = b.live
          /\ x.settings = b.settings
Named(x) == x.owner # "none" \/ x.touched
Fresh(x, b) ==
    /\ Claiming(x, b)
    /\ x.owner = b.owner /\ x.ring = b.ring /\ x.live = b.live
    /\ x.settings = b.settings

LEMMA FallibleClaims ==
    ASSUME NEW b, NEW x, Claiming(x, b), NEW kind, NEW r \in Fallible(kind, x)
    PROVE  /\ Claiming(r, b) /\ (r.ok => x.ok) /\ (Named(x) => Named(r))
           /\ r.owner = x.owner /\ r.ring = x.ring /\ r.live = x.live
           /\ r.settings = x.settings
<1>1. x \in EngineState
  BY DEF Claiming
<1>2. r \in EngineState /\ KeepsRing(r, x) /\ KeepsPower(r, x) /\ (r.ok => x.ok)
  BY <1>1, FallibleKeeps
<1>3. Claiming(r, b)
  BY <1>2 DEF Claiming, KeepsRing, KeepsPower, Borrowed
<1> QED BY <1>2, <1>3 DEF Named, KeepsRing

LEMMA RefusedClaims ==
    ASSUME NEW b, NEW x, Claiming(x, b), NEW r \in Refused(x)
    PROVE  Claiming(r, b) /\ ~r.ok
<1>1. x \in EngineState /\ r = [x EXCEPT !.ok = FALSE]
  BY DEF Claiming, Refused
<1>2. r \in EngineState /\ KeepsRing(r, x) /\ KeepsPower(r, x) /\ ~r.ok
  BY <1>1, RefusedState
<1> QED BY <1>2 DEF Claiming, KeepsRing, KeepsPower, Borrowed

\* A step that changes registers of a ring already claimed
LEMMA ChangeClaims ==
    ASSUME NEW b, NEW x, Claiming(x, b), NEW y \in EngineState, Named(y),
           KeepsPower(y, x), y.faulted = x.faulted, y.quarantined = x.quarantined,
           y.base = {}, y.renewed = x.renewed
    PROVE  Claiming(y, b)
BY DEF Claiming, Named, KeepsPower, Borrowed

LEMMA ControlClaims ==
    ASSUME NEW b, NEW x, Claiming(x, b), NEW r \in ProgramRcsPpgttControl(x)
    PROVE  Claiming(r, b) /\ Named(r)
<1> DEFINE y == [x EXCEPT !.settings = @ \cup {"control"}, !.touched = TRUE]
<1>1. x \in EngineState /\ x.base = {}
      /\ x.settings \cup {"control"} \in SUBSET {"cache", "control"}
  BY DEF Claiming, EngineState
<1>2. /\ y \in EngineState /\ y.faulted = x.faulted /\ y.touched
      /\ y.quarantined = x.quarantined /\ y.base = x.base /\ y.renewed = x.renewed
  BY <1>1 DEF EngineState
<1>3. KeepsPower(y, x)
  BY <1>1 DEF EngineState, KeepsPower
<1>4. r \in Fallible("write", y)
  BY DEF ProgramRcsPpgttControl
<1> HIDE DEF y
<1>5. Claiming(y, b) /\ Named(y)
  BY <1>1, <1>2, <1>3, ChangeClaims DEF Named
<1> QED BY <1>4, <1>5, FallibleClaims

LEMMA RingClaimed ==
    ASSUME NEW b, NEW c, NEW x, Fresh(x, b), NEW r \in ClaimRing(c, x)
    PROVE  Claiming(r, b) /\ (r.ok => Named(r))
<1>0. x \in EngineState /\ x.base = {} /\ Claiming(x, b)
  BY DEF Fresh, Claiming
<1>1. CASE x.owner # "none" /\ x.owner \in x.ring /\ x.live = x.owner
  BY <1>0, <1>1 DEF ClaimRing, Named
<1>2. CASE ~(x.owner # "none" /\ x.owner \in x.ring /\ x.live = x.owner) /\ ~RingAvailable(x)
  <2> DEFINE t == x.owner # "none"
  <2>1. r = [x EXCEPT !.ok = FALSE, !.touched = t]
    BY <1>2 DEF ClaimRing
  <2>2. t \in BOOLEAN
    OBVIOUS
  <2> HIDE DEF t
  <2>3. /\ r \in EngineState /\ ~r.ok /\ r.faulted = x.faulted
        /\ r.quarantined = x.quarantined /\ r.base = x.base
        /\ r.renewed = x.renewed /\ r.owner = x.owner /\ r.ring = x.ring
        /\ r.live = x.live /\ r.settings = x.settings
    BY <1>0, <2>1, <2>2 DEF EngineState
  <2>4. KeepsPower(r, x)
    BY <1>0, <2>1 DEF EngineState, KeepsPower
  <2> QED BY <1>0, <2>3, <2>4 DEF Claiming, Fresh, KeepsPower, Borrowed
<1>3. CASE ~(x.owner # "none" /\ x.owner \in x.ring /\ x.live = x.owner) /\ RingAvailable(x)
  <2> DEFINE lost == [x EXCEPT !.owner = "none"]
             y == IF lost.held THEN lost ELSE [lost EXCEPT !.base = lost.ring]
  <2>1. r \in ProgramRcsPpgttControl(y)
    BY <1>3 DEF ClaimRing
  <2>2. /\ lost \in EngineState /\ lost.faulted = x.faulted
        /\ lost.quarantined = x.quarantined /\ lost.base = {} /\ lost.ring = {}
        /\ lost.renewed = x.renewed
    BY <1>0, <1>3 DEF EngineState, RingAvailable
  <2>3. KeepsPower(lost, x)
    BY <1>0 DEF EngineState, KeepsPower
  <2>4. y = lost
    BY <2>2 DEF EngineState
  <2> HIDE DEF y, lost
  <2> DEFINE z == [lost EXCEPT !.settings = @ \cup {"control"}, !.touched = TRUE]
  <2>5. lost.settings \cup {"control"} \in SUBSET {"cache", "control"}
    BY <2>2 DEF EngineState
  <2>6. /\ z \in EngineState /\ z.faulted = x.faulted /\ z.touched
        /\ z.quarantined = x.quarantined /\ z.base = {} /\ z.renewed = x.renewed
    BY <2>2, <2>5 DEF EngineState
  <2>7. KeepsPower(z, lost)
    BY <2>2 DEF EngineState, KeepsPower
  <2>8. r \in Fallible("write", z)
    BY <2>1, <2>4 DEF ProgramRcsPpgttControl
  <2> HIDE DEF z
  <2>9. KeepsPower(z, x) /\ Named(z)
    BY <2>3, <2>6, <2>7 DEF KeepsPower, Named
  <2>10. Claiming(z, b)
    BY <1>0, <2>6, <2>9, ChangeClaims
  <2> QED BY <2>8, <2>9, <2>10, FallibleClaims
<1> QED BY <1>1, <1>2, <1>3

LEMMA PrepareClaims ==
    ASSUME NEW b, NEW c \in RenderClient, NEW x, Claiming(x, b), Named(x),
           NEW r \in PrepareRcsRing(c, x)
    PROVE  Claiming(r, b) /\ Named(r)
<1> DEFINE y == [x EXCEPT !.ring = @ \cup {c}]
<1>1. x \in EngineState /\ x.base = {} /\ x.ring \cup {c} \in SUBSET Memory
  BY DEF Claiming, EngineState, Memory
<1>2. /\ y \in EngineState /\ y.faulted = x.faulted /\ y.touched = x.touched
      /\ y.owner = x.owner
      /\ y.quarantined = x.quarantined /\ y.base = x.base /\ y.renewed = x.renewed
  BY <1>1 DEF EngineState
<1>3. KeepsPower(y, x)
  BY <1>1 DEF EngineState, KeepsPower
<1>4. r \in Fallible("write", y)
  BY DEF PrepareRcsRing
<1> HIDE DEF y
<1>5. Claiming(y, b) /\ Named(y)
  BY <1>1, <1>2, <1>3, ChangeClaims DEF Named
<1> QED BY <1>4, <1>5, FallibleClaims

LEMMA PpgttClaims ==
    ASSUME NEW b, NEW c \in RenderClient, NEW x, Claiming(x, b), Named(x),
           NEW r \in ProgramRcsPpgtt(c, x)
    PROVE  Claiming(r, b) /\ Named(r) /\ (r.ok => r.ring = {c})
<1>1. x \in EngineState /\ x.base = {} /\ {c} \in SUBSET Memory
  BY DEF Claiming, EngineState, Memory
<1>2. CASE r = [x EXCEPT !.ring = {c}]
  <2>1. /\ r \in EngineState /\ r.faulted = x.faulted /\ r.touched = x.touched
        /\ r.owner = x.owner /\ r.ring = {c}
        /\ r.quarantined = x.quarantined /\ r.base = x.base /\ r.renewed = x.renewed
    BY <1>1, <1>2 DEF EngineState
  <2>2. KeepsPower(r, x)
    BY <1>1, <1>2 DEF EngineState, KeepsPower
  <2> QED BY <1>1, <2>1, <2>2, ChangeClaims DEF Named
<1>3. CASE r \in Refused(x)
  <2>1. r \in EngineState /\ KeepsRing(r, x) /\ ~r.ok
    BY <1>1, <1>3, RefusedState DEF Refused
  <2> QED BY <1>3, <2>1, RefusedClaims DEF Named, KeepsRing
<1> QED BY <1>2, <1>3 DEF ProgramRcsPpgtt

LEMMA EnableClaims ==
    ASSUME NEW b, NEW c \in RenderClient, NEW x, Claiming(x, b), Named(x),
           NEW switch \in BOOLEAN, NEW r \in EnableRcsRing(c, switch, x)
    PROVE  Claiming(r, b) /\ Named(r) /\ r.ring = x.ring /\ (r.ok => x.ok)
<1> DEFINE live == IF switch THEN c ELSE x.live
           y == [x EXCEPT !.run = TRUE, !.settings = @ \cup {"cache"}, !.live = live]
<1>1. x \in EngineState /\ x.settings \cup {"cache"} \in SUBSET {"cache", "control"}
      /\ live \in RenderClient \cup {"none", "private"} /\ x.base = {}
  BY DEF Claiming, EngineState
<1>2. r \in Fallible("write", y)
  <2>1. y = [x EXCEPT !.run = TRUE, !.settings = @ \cup {"cache"},
                      !.live = IF switch THEN c ELSE @]
    BY <1>1 DEF EngineState
  <2> QED BY <2>1 DEF EnableRcsRing
<1> HIDE DEF live
<1>3. /\ y \in EngineState /\ y.faulted = x.faulted /\ y.touched = x.touched
      /\ y.owner = x.owner /\ y.ring = x.ring /\ y.ok = x.ok
      /\ y.quarantined = x.quarantined /\ y.base = x.base /\ y.renewed = x.renewed
  BY <1>1 DEF EngineState
<1>4. KeepsPower(y, x)
  BY <1>1 DEF EngineState, KeepsPower
<1> HIDE DEF y
<1>5. Claiming(y, b) /\ Named(y)
  BY <1>1, <1>3, <1>4, ChangeClaims DEF Named
<1> QED BY <1>2, <1>3, <1>5, FallibleClaims

LEMMA GuardedLeaves ==
    ASSUME NEW guard, NEW x, NEW r \in Guarded(guard, x)
    PROVE  (r = x /\ guard) \/ r \in Refused(x)
BY DEF Guarded

\* The attempt, stage by stage
PersistentRun(c, switch, p) ==
    Then(Then(Then(Then(Then(Then(Then({p}, ClearRcsFault),
       LAMBDA u : ClaimRing(c, u)),
       LAMBDA u : PrepareRcsRing(c, u)),
       LAMBDA u : ProgramRcsPpgtt(c, u)),
       LAMBDA u : EnableRcsRing(c, switch, u)),
       WaitForRcsCompletion),
       LAMBDA u : Guarded(u.live = c, u))

LEMMA PersistentAttempt ==
    ASSUME NEW b, NEW c \in RenderClient, NEW switch \in BOOLEAN,
           NEW p, Fresh(p, b), p.ok,
           NEW x \in PersistentRun(c, switch, p)
    PROVE  /\ Claiming(x, b)
           /\ x.ok => Named(x) /\ x.ring = {c} /\ x.live = c
<1> DEFINE S1 == Then({p}, ClearRcsFault)
           S2 == Then(S1, LAMBDA u : ClaimRing(c, u))
           S3 == Then(S2, LAMBDA u : PrepareRcsRing(c, u))
           S4 == Then(S3, LAMBDA u : ProgramRcsPpgtt(c, u))
           S5 == Then(S4, LAMBDA u : EnableRcsRing(c, switch, u))
           S6 == Then(S5, WaitForRcsCompletion)
           S7 == Then(S6, LAMBDA u : Guarded(u.live = c, u))
<1>a. x \in S7
  BY DEF PersistentRun
<1>1. \A u \in S1 : Fresh(u, b)
  <2> TAKE u \in S1
  <2>1. u \in ClearRcsFault(p)
    BY DEF Then
  <2> QED BY <2>1, FallibleClaims DEF ClearRcsFault, Fresh
<1> HIDE DEF S1
<1>2. \A u \in S2 : Claiming(u, b) /\ (u.ok => Named(u))
  <2> TAKE u \in S2
  <2>1. PICK y \in S1 : IF y.ok THEN u \in ClaimRing(c, y) ELSE u = y
    BY DEF Then
  <2> QED BY <1>1, <2>1, RingClaimed DEF Fresh
<1> HIDE DEF S2
<1>3. \A u \in S3 : Claiming(u, b) /\ (u.ok => Named(u))
  <2> TAKE u \in S3
  <2>1. PICK y \in S2 : IF y.ok THEN u \in PrepareRcsRing(c, y) ELSE u = y
    BY DEF Then
  <2> QED BY <1>2, <2>1, PrepareClaims
<1> HIDE DEF S3
<1>4. \A u \in S4 : Claiming(u, b) /\ (u.ok => Named(u) /\ u.ring = {c})
  <2> TAKE u \in S4
  <2>1. PICK y \in S3 : IF y.ok THEN u \in ProgramRcsPpgtt(c, y) ELSE u = y
    BY DEF Then
  <2> QED BY <1>3, <2>1, PpgttClaims
<1> HIDE DEF S4
<1>5. \A u \in S5 : Claiming(u, b) /\ (u.ok => Named(u) /\ u.ring = {c})
  <2> TAKE u \in S5
  <2>1. PICK y \in S4 : IF y.ok THEN u \in EnableRcsRing(c, switch, y) ELSE u = y
    BY DEF Then
  <2> QED BY <1>4, <2>1, EnableClaims
<1> HIDE DEF S5
<1>6. \A u \in S6 : Claiming(u, b) /\ (u.ok => Named(u) /\ u.ring = {c})
  <2> TAKE u \in S6
  <2>1. PICK y \in S5 : IF y.ok THEN u \in WaitForRcsCompletion(y) ELSE u = y
    BY DEF Then
  <2> QED BY <1>5, <2>1, FallibleClaims DEF WaitForRcsCompletion
<1> HIDE DEF S6
<1>7. PICK y \in S6 : IF y.ok THEN x \in Guarded(y.live = c, y) ELSE x = y
  BY <1>a DEF Then
<1>8. CASE ~y.ok
  BY <1>6, <1>7, <1>8
<1>9. CASE y.ok
  <2>1. (x = y /\ y.live = c) \/ x \in Refused(y)
    BY <1>7, <1>9, GuardedLeaves
  <2>2. Claiming(y, b)
    BY <1>6
  <2> QED BY <1>6, <1>9, <2>1, <2>2, RefusedClaims
<1> QED BY <1>8, <1>9

\* Ownership taken: the memory the registers name is the owner's
LEMMA PersistentClaims ==
    ASSUME NEW b \in EngineState, NEW c \in RenderClient, NEW x, Claiming(x, b)
    PROVE  LET r == PersistentClaimed(c, x)
           IN  /\ r \in EngineState /\ r.owner = c /\ r.held /\ r.base = {}
               /\ ~r.renewed /\ r.ring = x.ring /\ r.live = x.live
               /\ r.ok = x.ok
               /\ r.faulted = b.faulted /\ r.quarantined = b.quarantined
               /\ PowerRest(b) => PowerRest(r)
<1> DEFINE r == PersistentClaimed(c, x)
<1>0. /\ x \in EngineState /\ x.base = {} /\ ~x.renewed
      /\ x.faulted = b.faulted /\ x.quarantined = b.quarantined
      /\ x.held = b.held /\ x.flags = b.flags
      /\ Borrowed(x, b) /\ (b.held => x.taken = {})
  BY DEF Claiming
<1>1. CASE x.held
  <2>1. r = [x EXCEPT !.owner = c]
    BY <1>1 DEF PersistentClaimed
  <2> HIDE DEF r
  <2>2. /\ r \in EngineState /\ r.owner = c /\ r.held /\ r.base = x.base
        /\ r.renewed = x.renewed /\ r.ring = x.ring /\ r.live = x.live /\ r.ok = x.ok
        /\ r.faulted = x.faulted /\ r.quarantined = x.quarantined
        /\ r.acks = x.acks /\ r.flags = x.flags
    BY <1>0, <1>1, <2>1 DEF EngineState
  <2>3. PowerRest(b) => PowerRest(r)
    BY <1>0, <1>1, <2>2 DEF PowerRest, Borrowed
  <2> QED BY <1>0, <2>2, <2>3 DEF r
<1>2. CASE ~x.held
  <2>1. r = [x EXCEPT !.owner = c, !.held = TRUE, !.flags = x.taken, !.taken = {},
                      !.wakeChanged = x.changed, !.changed = FALSE]
    BY <1>2 DEF PersistentClaimed
  <2> HIDE DEF r
  <2>2. /\ r \in EngineState /\ r.owner = c /\ r.held /\ r.base = x.base
        /\ r.renewed = x.renewed /\ r.ring = x.ring /\ r.live = x.live /\ r.ok = x.ok
        /\ r.faulted = x.faulted /\ r.quarantined = x.quarantined
        /\ r.acks = x.acks /\ r.flags = x.taken
    BY <1>0, <2>1 DEF EngineState
  <2>3. PowerRest(b) => PowerRest(r)
    BY <1>0, <1>2, <2>2 DEF PowerRest, Borrowed
  <2> QED BY <1>0, <2>2, <2>3 DEF r
<1> QED BY <1>1, <1>2

\* A failed attempt: nothing happened, or the owner is gone with its image
FailedPost(r, e) ==
    /\ r \in EngineState /\ AtRest(r)
    /\ e.faulted => r.faulted
    /\ e.quarantined => r.quarantined
    /\ \/ r.owner = e.owner /\ ~r.renewed /\ r.ring = e.ring /\ r.live = e.live
       \/ /\ r.owner = "none" /\ r.renewed /\ r.live = "none"
          /\ ~RestoreFails => r.ring = {}
    /\ "release" \notin GpuFault /\ PowerRest(e) => PowerRest(r)

LEMMA PersistentFails ==
    ASSUME NEW e \in EngineState, AtRest(e), NEW x, Claiming(x, Begun(e)),
           NEW verified \in BOOLEAN,
           ~verified => x.owner = e.owner /\ x.ring = e.ring /\ x.live = e.live,
           NEW r \in {[f EXCEPT !.ok = FALSE] : f \in PersistentFailed(x, e.held, verified)}
    PROVE  FailedPost(r, e) /\ ~r.ok
<1> DEFINE b == Begun(e)
           S == IF ~x.touched /\ x.owner = "none" THEN {x}
                ELSE IF verified THEN RestorePersistentRcsBaselineLocked(x)
                ELSE {Marked(x)}
           T == {[y EXCEPT !.ok = TRUE] : y \in S}
           Fault(z) == IF z.ok THEN z ELSE Marked(z)
           P == UNION {ReleasePersistentPowerLocked(t) : t \in T}
<1>b. /\ b \in EngineState
      /\ b.acks = e.acks /\ b.held = e.held /\ b.flags = e.flags
      /\ b.faulted = e.faulted /\ b.quarantined = e.quarantined
      /\ b.owner = e.owner /\ b.base = e.base /\ b.ring = e.ring
      /\ b.live = e.live /\ b.settings = e.settings
  BY BegunState
<1>0. /\ x \in EngineState /\ x.base = {} /\ ~x.renewed
      /\ x.faulted = e.faulted /\ x.quarantined = e.quarantined
      /\ x.held = e.held /\ x.flags = e.flags
      /\ Borrowed(x, e) /\ (e.held => x.taken = {})
      /\ x.owner = "none" /\ ~x.touched =>
            /\ e.owner = "none" /\ x.ring = e.ring /\ x.live = e.live
            /\ x.settings = e.settings
  BY <1>b DEF Claiming, Borrowed
<1> HIDE DEF b
<1> DEFINE Ended(y) ==
             /\ y \in EngineState /\ y.base = {} /\ y.held = e.held
             /\ y.flags = e.flags /\ Borrowed(y, e) /\ (e.held => y.taken = {})
             /\ e.faulted => y.faulted
             /\ e.quarantined => y.quarantined
             /\ \/ y.owner = e.owner /\ ~y.renewed /\ y.ring = e.ring /\ y.live = e.live
                \/ /\ y.owner = "none" /\ y.renewed /\ y.live = "none"
                   /\ ~RestoreFails => y.ring = {}
             /\ y.owner = "none" /\ ~y.faulted => BaseRing(y)
<1>1. \A y \in S : Ended(y)
  <2> TAKE y \in S
  <2>1. CASE ~x.touched /\ x.owner = "none"
    <3>1. y = x
      BY <2>1
    <3> QED BY <1>0, <2>1, <3>1 DEF AtRest, BaseRing
  <2>2. CASE ~(~x.touched /\ x.owner = "none") /\ verified
    <3>1. /\ y \in EngineState /\ KeepsPower(y, x)
          /\ y.owner = "none" /\ y.renewed /\ y.base = {} /\ y.live = "none"
          /\ \/ y.ok /\ BaseRing(y) /\ y.faulted = x.faulted
                /\ y.quarantined = x.quarantined
             \/ ~y.ok /\ y.faulted /\ y.quarantined
          /\ ~RestoreFails => y.ring = {} /\ y.ok
      BY <1>0, <2>2, RestoreBaseline
    <3>2. y.held = e.held /\ y.flags = e.flags /\ Borrowed(y, e) /\ (e.held => y.taken = {})
      BY <1>0, <3>1 DEF KeepsPower, Borrowed
    <3> QED BY <1>0, <3>1, <3>2
  <2>3. CASE ~(~x.touched /\ x.owner = "none") /\ ~verified
    <3>1. y = Marked(x)
      BY <2>3
    <3>2. /\ y \in EngineState /\ KeepsPower(y, x) /\ y.faulted /\ y.quarantined
          /\ y.owner = x.owner /\ y.base = x.base /\ y.ring = x.ring
          /\ y.live = x.live /\ y.renewed = x.renewed
      BY <1>0, <3>1, MarkedState
    <3>3. y.held = e.held /\ y.flags = e.flags /\ Borrowed(y, e) /\ (e.held => y.taken = {})
      BY <1>0, <3>2 DEF KeepsPower, Borrowed
    <3> QED BY <1>0, <2>3, <3>2, <3>3
  <2> QED BY <2>1, <2>2, <2>3
<1> HIDE DEF S
<1>2. \A t \in T : Ended(t) /\ t.ok
  <2> TAKE t \in T
  <2>1. PICK y \in S : t = [y EXCEPT !.ok = TRUE]
    OBVIOUS
  <2>2. Ended(y) /\ y \in EngineState
    BY <1>1
  <2>3. t \in EngineState /\ KeepsRing(t, y) /\ KeepsPower(t, y) /\ t.ok
    BY <2>1, <2>2, StatusSet
  <2> QED BY <2>2, <2>3 DEF KeepsRing, KeepsPower, Borrowed, BaseRing
<1>3. T \in SUBSET EngineState
  BY <1>2
<1>4. PICK f \in PersistentFailed(x, e.held, verified) : r = [f EXCEPT !.ok = FALSE]
  OBVIOUS
<1>5. PICK z : /\ f = Fault(z)
               /\ e.held => z \in P
               /\ ~e.held => z \in ReturnPower(T)
  <2>1. CASE e.held
    <3>1. f \in {Fault(z) : z \in P}
      BY <1>4, <2>1 DEF PersistentFailed, S
    <3> HIDE DEF P, Fault
    <3> QED BY <2>1, <3>1
  <2>2. CASE ~e.held
    <3>1. f \in {Fault(z) : z \in ReturnPower(T)}
      BY <1>4, <2>2 DEF PersistentFailed, S
    <3> HIDE DEF Fault, T, P
    <3> QED BY <2>2, <3>1
  <2> QED BY <2>1, <2>2
<1> HIDE DEF T
<1>6. PICK t \in T :
          /\ z \in EngineState /\ KeepsRing(z, t)
          /\ z.ok => ~z.held
          /\ "release" \notin GpuFault /\ PowerRest(e) => PowerRest(z)
  <2>1. CASE e.held
    <3>1. PICK t \in T : z \in ReleasePersistentPowerLocked(t)
      BY <1>5, <2>1
    <3>2. Ended(t) /\ t.ok /\ t \in EngineState
      BY <1>2
    <3>3. /\ z \in EngineState /\ KeepsRing(z, t)
          /\ t.held /\ z.ok => ~z.held
          /\ "release" \notin GpuFault /\ PowerRest(t) => PowerRest(z)
      BY <3>1, <3>2, PersistentPowerKeeps
    <3>4. PowerRest(e) => PowerRest(t)
      BY <2>1, <3>2 DEF PowerRest, Borrowed
    <3> QED BY <2>1, <3>2, <3>3, <3>4
  <2>2. CASE ~e.held
    <3>1. PICK t \in T :
             /\ z \in EngineState /\ KeepsRing(z, t)
             /\ z.held = t.held /\ z.flags = t.flags
             /\ z.acks = t.acks \ t.taken \/ "release" \in GpuFault
      BY <1>3, <1>5, <2>2, ReturnPowerKeeps
    <3>2. Ended(t)
      BY <1>2
    <3>3. "release" \notin GpuFault /\ PowerRest(e) => PowerRest(z)
      BY <2>2, <3>1, <3>2 DEF Borrowed, PowerRest
    <3> QED BY <2>2, <3>1, <3>2, <3>3
  <2> QED BY <2>1, <2>2
<1>7. Ended(t)
  BY <1>2
<1>8. /\ f \in EngineState /\ f.held = z.held /\ f.acks = z.acks /\ f.flags = z.flags
      /\ f.owner = z.owner /\ f.base = z.base /\ f.ring = z.ring /\ f.live = z.live
      /\ f.settings = z.settings /\ f.renewed = z.renewed
      /\ z.faulted => f.faulted
      /\ z.quarantined => f.quarantined
      /\ ~f.faulted => ~f.held
  BY <1>5, <1>6, MarkedState DEF KeepsPower
<1>9. r \in EngineState /\ KeepsRing(r, f) /\ KeepsPower(r, f) /\ ~r.ok
  BY <1>4, <1>8, RefusedState
<1>10. /\ r.owner = t.owner /\ r.ring = t.ring /\ r.live = t.live /\ r.base = t.base
       /\ r.renewed = t.renewed /\ r.settings = t.settings
       /\ t.faulted => r.faulted
       /\ t.quarantined => r.quarantined
       /\ ~r.faulted => ~r.held
  BY <1>6, <1>8, <1>9 DEF KeepsRing, KeepsPower
<1>11. "release" \notin GpuFault /\ PowerRest(e) => PowerRest(r)
  BY <1>6, <1>8, <1>9 DEF KeepsPower, PowerRest
<1>12. AtRest(r)
  BY <1>7, <1>10 DEF AtRest, BaseRing
<1> QED BY <1>7, <1>9, <1>10, <1>11, <1>12 DEF FailedPost

\* After success the engine has the context of the client loaded, and only its
\* memory in its registers
ClaimedPost(r, e, c) ==
    /\ r \in EngineState /\ r.base = {} /\ ~r.renewed
    /\ r.owner = c /\ r.ring = {c} /\ r.live = c
    /\ r.faulted = e.faulted /\ r.quarantined = e.quarantined
    /\ PowerRest(e) => PowerRest(r)

LEMMA PersistentLeaves ==
    ASSUME NEW e \in EngineState, AtRest(e), NEW c \in RenderClient,
           NEW switch \in BOOLEAN,
           NEW r \in ExecutePersistentRcsSubmission(c, switch, e)
    PROVE  \/ FailedPost(r, e) /\ ~r.ok
           \/ ClaimedPost(r, e, c) /\ r.ok
<1> DEFINE b == Begun(e)
           power == IF e.held
                    THEN {[x EXCEPT !.touched = ~x.ok] : x \in PowerVerified(b)}
                    ELSE TakePower(b)
           rest(x) == Then(Then(Then(Then(Then(Then(Then({x}, ClearRcsFault),
                       LAMBDA u : ClaimRing(c, u)),
                       LAMBDA u : PrepareRcsRing(c, u)),
                       LAMBDA u : ProgramRcsPpgtt(c, u)),
                       LAMBDA u : EnableRcsRing(c, switch, u)),
                       WaitForRcsCompletion),
                       LAMBDA u : Guarded(u.live = c, u))
           failed(x, verified) ==
               {[f EXCEPT !.ok = FALSE] : f \in PersistentFailed(x, e.held, verified)}
<1>b. /\ b \in EngineState /\ b.taken = {} /\ b.ok /\ ~b.renewed /\ ~b.touched
      /\ b.acks = e.acks /\ b.held = e.held /\ b.flags = e.flags
      /\ b.faulted = e.faulted /\ b.quarantined = e.quarantined
      /\ b.owner = e.owner /\ b.base = e.base /\ b.ring = e.ring
      /\ b.live = e.live /\ b.settings = e.settings
  BY BegunState
<1>c. e.base = {}
  BY DEF AtRest
<1>d. Fresh(b, b)
  BY <1>b, <1>c DEF Fresh, Claiming, Borrowed
<1>1. CASE ~EngineUsable(e)
  <2>1. PICK x \in Refused(b) : r \in failed(x, FALSE)
    <3>1. r \in UNION {failed(x, FALSE) : x \in Refused(b)}
      BY <1>1 DEF ExecutePersistentRcsSubmission
    <3> HIDE DEF failed
    <3> QED BY <3>1
  <2>2. Claiming(x, b)
    BY <1>d, <2>1, RefusedClaims DEF Fresh
  <2>3. x.owner = e.owner /\ x.ring = e.ring /\ x.live = e.live
    <3>1. x = [b EXCEPT !.ok = FALSE]
      BY <2>1 DEF Refused
    <3> HIDE DEF b
    <3>2. KeepsRing(x, b)
      BY <1>b, <3>1, RefusedState
    <3> QED BY <1>b, <3>2 DEF KeepsRing
  <2> QED BY <2>1, <2>2, <2>3, PersistentFails
<1>2. CASE EngineUsable(e)
  <2>1. r \in UNION {IF p.ok
                     THEN UNION {IF x.ok THEN {PersistentClaimed(c, x)}
                                 ELSE failed(x, TRUE) : x \in rest(p)}
                     ELSE failed(p, FALSE) : p \in power}
    BY <1>2 DEF ExecutePersistentRcsSubmission
  <2>2. PICK p \in power :
            r \in IF p.ok
                  THEN UNION {IF x.ok THEN {PersistentClaimed(c, x)}
                              ELSE failed(x, TRUE) : x \in rest(p)}
                  ELSE failed(p, FALSE)
    <3> HIDE DEF power, rest, failed
    <3> QED BY <2>1
  <2>3. Fresh(p, b)
    <3> HIDE DEF b
    <3>1. CASE ~e.held
      <4>1. p \in TakePower(b)
        BY <3>1
      <4>2. /\ p \in EngineState /\ KeepsRing(p, b) /\ p.held = b.held
            /\ p.flags = b.flags /\ Borrowed(p, b)
        BY <1>b, <4>1, TakePowerKeeps DEF Borrowed
      <4> QED BY <1>b, <1>c, <3>1, <4>2 DEF KeepsRing, Fresh, Claiming
    <3>2. CASE e.held
      <4>1. PICK x \in PowerVerified(b) : p = [x EXCEPT !.touched = ~x.ok]
        BY <3>2
      <4>2. x \in EngineState /\ KeepsRing(x, b) /\ KeepsPower(x, b)
        BY <1>b, PowerVerifiedKeeps
      <4>3. PICK t \in BOOLEAN : p = [x EXCEPT !.touched = t]
        BY <4>1
      <4>4. /\ p \in EngineState /\ p.faulted = x.faulted /\ p.owner = x.owner
            /\ p.quarantined = x.quarantined /\ p.base = x.base
            /\ p.ring = x.ring /\ p.live = x.live /\ p.settings = x.settings
            /\ p.renewed = x.renewed
        BY <4>1, <4>2, <4>3 DEF EngineState
      <4>5. KeepsPower(p, x)
        BY <4>1, <4>2 DEF EngineState, KeepsPower
      <4>6. Borrowed(p, b) /\ p.held = b.held /\ p.flags = b.flags /\ p.taken = {}
        BY <1>b, <4>2, <4>5 DEF KeepsPower, Borrowed
      <4> QED BY <1>b, <1>c, <4>2, <4>4, <4>6 DEF KeepsRing, Fresh, Claiming
    <3> QED BY <3>1, <3>2
  <2> HIDE DEF power
  <2>4. CASE ~p.ok
    <3>1. r \in failed(p, FALSE)
      BY <2>2, <2>4
    <3>2. Claiming(p, b) /\ p.owner = e.owner /\ p.ring = e.ring /\ p.live = e.live
      <4> HIDE DEF b
      <4> QED BY <1>b, <2>3 DEF Fresh
    <3> QED BY <3>1, <3>2, PersistentFails
  <2>5. CASE p.ok
    <3>1. PICK x \in rest(p) :
              r \in IF x.ok THEN {PersistentClaimed(c, x)} ELSE failed(x, TRUE)
      <4> HIDE DEF rest, failed
      <4> QED BY <2>2, <2>5
    <3>2. /\ Claiming(x, b)
          /\ x.ok => x.ring = {c} /\ x.live = c
      <4> HIDE DEF b
      <4>1. x \in PersistentRun(c, switch, p)
        BY <3>1 DEF PersistentRun
      <4> HIDE DEF rest
      <4>2. /\ Claiming(x, b)
            /\ x.ok => Named(x) /\ x.ring = {c} /\ x.live = c
        BY ONLY c \in RenderClient, switch \in BOOLEAN, <2>3, <2>5, <4>1, PersistentAttempt, Zenon
      <4> QED BY <4>2
    <3> HIDE DEF rest
    <3>3. CASE ~x.ok
      <4>1. r \in failed(x, TRUE)
        BY <3>1, <3>3
      <4> QED BY <3>2, <4>1, PersistentFails
    <3>4. CASE x.ok
      <4>1. r = PersistentClaimed(c, x)
        BY <3>1, <3>4
      <4> HIDE DEF b
      <4>2. /\ r \in EngineState /\ r.owner = c /\ r.base = {}
            /\ ~r.renewed /\ r.ring = x.ring /\ r.live = x.live /\ r.ok = x.ok
            /\ r.faulted = b.faulted /\ r.quarantined = b.quarantined
            /\ PowerRest(b) => PowerRest(r)
        BY <1>b, <3>2, <4>1, PersistentClaims
      <4> QED BY <1>b, <3>2, <3>4, <4>2 DEF ClaimedPost, PowerRest
    <3> QED BY <3>3, <3>4
  <2> QED BY <2>4, <2>5
<1> QED BY <1>1, <1>2

----------------------------------------------------------------------------
(* The copy engine, the page table entries, the tools.                     *)

\* What leaves the render engine and the power alone
SideMove(r, e) ==
    /\ r \in EngineState /\ KeepsPower(r, e)
    /\ r.owner = e.owner /\ r.base = e.base /\ r.ring = e.ring /\ r.live = e.live
    /\ r.settings = e.settings /\ r.renewed = e.renewed
    /\ e.faulted => r.faulted
    /\ e.quarantined => r.quarantined

LEMMA SideChain ==
    ASSUME NEW r, NEW x, NEW e, SideMove(r, x), SideMove(x, e)
    PROVE  SideMove(r, e)
BY DEF SideMove, KeepsPower

LEMMA SideSame ==
    ASSUME NEW e \in EngineState
    PROVE  SideMove(e, e)
BY DEF SideMove, KeepsPower

LEMMA SideKept ==
    ASSUME NEW r \in EngineState, NEW e, KeepsRing(r, e), KeepsPower(r, e)
    PROVE  SideMove(r, e)
BY DEF SideMove, KeepsRing

LEMMA SideRefused ==
    ASSUME NEW e \in EngineState, NEW r \in Refused(e)
    PROVE  SideMove(r, e) /\ ~r.ok
<1>1. r = [e EXCEPT !.ok = FALSE]
  BY DEF Refused
<1> QED BY <1>1, RefusedState, SideKept

LEMMA SideFallible ==
    ASSUME NEW e \in EngineState, NEW kind, NEW r \in Fallible(kind, e)
    PROVE  SideMove(r, e)
BY FallibleKeeps, SideKept

LEMMA SideGuarded ==
    ASSUME NEW e \in EngineState, NEW guard, NEW r \in Guarded(guard, e)
    PROVE  SideMove(r, e)
BY GuardedLeaves, SideSame, SideRefused

LEMMA SideStatus ==
    ASSUME NEW e \in EngineState, NEW y, SideMove(y, [e EXCEPT !.ok = TRUE]),
           NEW r, r = [y EXCEPT !.ok = @ /\ e.ok]
    PROVE  SideMove(r, e)
<1> DEFINE t == [e EXCEPT !.ok = TRUE]
<1>1. SideMove(t, e)
  BY StatusSet, SideKept
<1> HIDE DEF t
<1>2. y \in EngineState
  BY DEF SideMove
<1>3. SideMove(r, y)
  BY <1>2, BothStatuses, SideKept
<1>4. SideMove(y, t)
  BY DEF t
<1>5. SideMove(y, e)
  BY <1>1, <1>4, SideChain
<1> QED BY <1>3, <1>5, SideChain

\* A buffer whose page table entries may still be used is never freed
Withheld(e) == [e EXCEPT !.quarantined = TRUE, !.safe = FALSE]

LEMMA SideQuarantined ==
    ASSUME NEW e \in EngineState
    PROVE  SideMove(Withheld(e), e) /\ Withheld(e).ok = e.ok
<1>1. KeepsPower(Withheld(e), e)
  BY DEF Withheld, EngineState, KeepsPower
<1> QED BY <1>1 DEF Withheld, SideMove, EngineState

LEMMA SideFaulted ==
    ASSUME NEW e \in EngineState
    PROVE  SideMove([e EXCEPT !.faulted = TRUE], e)
<1> DEFINE r == [e EXCEPT !.faulted = TRUE]
<1>1. KeepsPower(r, e)
  BY DEF EngineState, KeepsPower
<1> QED BY <1>1 DEF SideMove, EngineState

WithheldSet(e) ==
    IF "map" \notin GpuFault THEN {}
    ELSE {[x EXCEPT !.quarantined = TRUE, !.safe = FALSE] : x \in Refused(e)}

LEMMA EntryOutcomes ==
    ASSUME NEW e
    PROVE  /\ UnbindRenderBufferGgtt(e) = {e} \cup WithheldSet(e)
           /\ BindRenderBufferGgtt(e) =
                 IF ~EngineUsable(e) THEN Refused(e)
                 ELSE {e} \cup Refused(e) \cup WithheldSet(e)
<1>1. UnbindRenderBufferGgtt(e) = {e} \cup WithheldSet(e)
  BY Zenon DEF UnbindRenderBufferGgtt, WithheldSet
<1>2. BindRenderBufferGgtt(e) =
         IF ~EngineUsable(e) THEN Refused(e)
         ELSE {e} \cup Refused(e) \cup WithheldSet(e)
  BY Zenon DEF BindRenderBufferGgtt, WithheldSet
<1> QED BY <1>1, <1>2

LEMMA WithheldOutcome ==
    ASSUME NEW e \in EngineState, NEW r \in WithheldSet(e)
    PROVE  SideMove(r, e) /\ ~r.ok
<1> DEFINE W(x) == [x EXCEPT !.quarantined = TRUE, !.safe = FALSE]
<1>1. r \in {W(x) : x \in Refused(e)}
  BY Zenon DEF WithheldSet
<1>2. PICK x \in Refused(e) : r = W(x)
  <2> HIDE DEF W
  <2> QED BY <1>1
<1>3. r = Withheld(x)
  BY <1>2 DEF Withheld
<1>4. SideMove(x, e) /\ x \in EngineState /\ ~x.ok
  BY SideRefused DEF SideMove
<1>5. SideMove(r, x) /\ ~r.ok
  BY <1>3, <1>4, SideQuarantined
<1> QED BY <1>4, <1>5, SideChain

LEMMA SideUnbind ==
    ASSUME NEW e \in EngineState, NEW r \in UnbindRenderBufferGgtt(e)
    PROVE  SideMove(r, e) /\ (r.ok => r = e)
<1>1. r = e \/ r \in WithheldSet(e)
  BY EntryOutcomes
<1> QED BY <1>1, SideSame, WithheldOutcome

LEMMA SideBind ==
    ASSUME NEW e \in EngineState, NEW r \in BindRenderBufferGgtt(e)
    PROVE  SideMove(r, e)
<1>1. r = e \/ r \in Refused(e) \/ r \in WithheldSet(e)
  BY EntryOutcomes
<1> QED BY <1>1, SideSame, SideRefused, WithheldOutcome

LEMMA SideRunBcs ==
    ASSUME NEW w \in {"private", "test"}, NEW e \in EngineState, NEW r \in RunBcs(w, e)
    PROVE  SideMove(r, e)
<1> DEFINE Started(x) == [x EXCEPT !.bcsRing = {w}, !.run = TRUE]
           start(x) == Fallible("write", Started(x))
           S1 == Guarded(BcsAvailable(e), e)
           S2 == Then(S1, start)
           S3 == Then(S2, LAMBDA x : Fallible("hang", x))
<1>a. r \in S3
  BY DEF RunBcs
<1>1. \A x \in S1 : SideMove(x, e)
  BY SideGuarded
<1> HIDE DEF S1
<1>2. ASSUME NEW x \in EngineState, NEW y \in start(x)
      PROVE  SideMove(y, x)
  <2>1. Started(x) \in EngineState /\ KeepsPower(Started(x), x)
    <3>1. KeepsPower(Started(x), x)
      BY DEF EngineState, KeepsPower
    <3> QED BY <3>1 DEF EngineState
  <2>2. SideMove(Started(x), x)
    BY <2>1 DEF SideMove, EngineState
  <2> HIDE DEF Started
  <2> QED BY <2>1, <2>2, SideFallible, SideChain
<1> HIDE DEF start, S3
<1>3. \A x \in S2 : SideMove(x, e)
  <2> TAKE x \in S2
  <2>1. PICK y \in S1 : IF y.ok THEN x \in start(y) ELSE x = y
    BY DEF Then
  <2>2. SideMove(y, e) /\ y \in EngineState
    BY <1>1 DEF SideMove
  <2> QED BY <1>2, <2>1, <2>2, SideChain
<1> HIDE DEF S2
<1>4. PICK y \in S2 : IF y.ok THEN r \in Fallible("hang", y) ELSE r = y
  BY <1>a DEF Then, S3
<1>5. SideMove(y, e) /\ y \in EngineState
  BY <1>3 DEF SideMove
<1> QED BY <1>4, <1>5, SideFallible, SideChain

LEMMA SideRestoreBcs ==
    ASSUME NEW e \in EngineState, NEW r \in RestoreBcsRing(e)
    PROVE  SideMove(r, e)
<1>1. CASE r = e
  BY <1>1, SideSame
<1>2. CASE r = [e EXCEPT !.bcsRing = {}]
  <2>1. r \in EngineState
    BY <1>2 DEF EngineState
  <2>2. KeepsPower(r, e)
    BY <1>2 DEF EngineState, KeepsPower
  <2> QED BY <1>2, <2>1, <2>2 DEF SideMove, EngineState
<1>3. CASE \E x \in Refused(e) : r = [x EXCEPT !.faulted = TRUE]
  <2>1. PICK x \in Refused(e) : r = [x EXCEPT !.faulted = TRUE]
    BY <1>3
  <2>2. SideMove(x, e) /\ x \in EngineState
    BY SideRefused DEF SideMove
  <2>3. SideMove(r, x)
    BY <2>1, <2>2, SideFaulted
  <2> QED BY <2>2, <2>3, SideChain
<1> QED BY <1>1, <1>2, <1>3 DEF RestoreBcsRing

\* While a function of the copy engine or a tool runs, and after it
Used(x, e) ==
    /\ x \in EngineState
    /\ x.owner = e.owner /\ x.base = e.base /\ x.ring = e.ring /\ x.live = e.live
    /\ x.settings = e.settings /\ ~x.renewed /\ x.held = e.held /\ x.flags = e.flags
    /\ e.faulted => x.faulted
    /\ e.quarantined => x.quarantined
    /\ Borrowed(x, e)
SidePost(r, e) ==
    /\ r \in EngineState
    /\ r.owner = e.owner /\ r.base = e.base /\ r.ring = e.ring /\ r.live = e.live
    /\ r.settings = e.settings /\ ~r.renewed /\ r.held = e.held
    /\ e.faulted => r.faulted
    /\ e.quarantined => r.quarantined
    /\ "release" \notin GpuFault /\ PowerRest(e) => PowerRest(r)

LEMMA BegunUsed ==
    ASSUME NEW e \in EngineState
    PROVE  Begun(e) \in EngineState /\ Used(Begun(e), e) /\ Begun(e).taken = {}
BY BegunState DEF Used, Borrowed

LEMMA SideUsed ==
    ASSUME NEW e, NEW x, Used(x, e), NEW r, SideMove(r, x)
    PROVE  Used(r, e)
BY DEF Used, SideMove, KeepsPower, Borrowed

LEMMA TakenUsed ==
    ASSUME NEW e, NEW x, Used(x, e), x.taken = {}, x.acks = e.acks,
           NEW r \in TakePower(x)
    PROVE  Used(r, e)
<1>1. /\ r \in EngineState /\ KeepsRing(r, x) /\ r.held = x.held /\ r.flags = x.flags
      /\ Borrowed(r, e)
  BY TakePowerKeeps DEF Used, Borrowed
<1> QED BY <1>1 DEF Used, KeepsRing

LEMMA UsedReturns ==
    ASSUME NEW e \in EngineState, NEW S, \A x \in S : Used(x, e),
           NEW r \in ReturnPower(S)
    PROVE  SidePost(r, e)
<1>1. S \in SUBSET EngineState
  BY DEF Used
<1>2. PICK x \in S :
         /\ r \in EngineState /\ KeepsRing(r, x)
         /\ r.held = x.held /\ r.flags = x.flags
         /\ r.acks = x.acks \ x.taken \/ "release" \in GpuFault
  BY <1>1, ReturnPowerKeeps
<1>3. Used(x, e)
  BY <1>2
<1>4. "release" \notin GpuFault /\ PowerRest(e) => PowerRest(r)
  <2>1. CASE x.taken = {} /\ x.acks = e.acks
    BY <1>2, <1>3, <2>1 DEF Used, PowerRest
  <2>2. CASE e.acks = {} /\ x.taken = x.acks
    BY <1>2, <1>3, <2>2 DEF Used, PowerRest
  <2> QED BY <1>3, <2>1, <2>2 DEF Used, Borrowed
<1> QED BY <1>2, <1>3, <1>4 DEF Used, SidePost, KeepsRing

LEMMA UsedLent ==
    ASSUME NEW e, NEW x, Used(x, e), e.held, x.acks = e.acks
    PROVE  SidePost(x, e)
BY DEF Used, SidePost, PowerRest

\* A cleanup step of the copy engine, whatever happened before
LEMMA UsedAlways ==
    ASSUME NEW e, NEW x, Used(x, e), NEW y, SideMove(y, [x EXCEPT !.ok = TRUE]),
           NEW r, r = [y EXCEPT !.ok = @ /\ x.ok]
    PROVE  Used(r, e) /\ r.acks = x.acks
<1>1. SideMove(r, x)
  BY SideStatus DEF Used
<1> QED BY <1>1, SideUsed DEF SideMove, KeepsPower

LEMMA StatusEngine ==
    ASSUME NEW x \in EngineState
    PROVE  [x EXCEPT !.ok = TRUE] \in EngineState
BY StatusSet

LEMMA CopyLeaves ==
    ASSUME NEW e \in EngineState, NEW r \in SubmitBcsCommandsLocked(e)
    PROVE  SidePost(r, e)
<1> DEFINE b == Begun(e)
           borrowed == e.held /\ e.flags # {}
           power == IF borrowed THEN PowerVerified(b) ELSE TakePower(b)
           ran == Then(power, LAMBDA x : RunBcs("private", x))
           restored == Always(ran, RestoreBcsRing)
           done == IF borrowed THEN restored ELSE ReturnPower(restored)
<1>b. b \in EngineState /\ Used(b, e) /\ b.taken = {} /\ b.acks = e.acks
  BY BegunUsed, BegunState
<1> HIDE DEF b
<1>1. CASE e.faulted
  <2>1. r \in Refused(b)
    BY <1>1 DEF SubmitBcsCommandsLocked, b
  <2>2. Used(r, e) /\ r.acks = e.acks
    BY <1>b, <2>1, SideRefused, SideUsed DEF SideMove, KeepsPower
  <2> QED BY <2>2 DEF Used, SidePost, PowerRest
<1>2. CASE ~e.faulted
  <2>1. r \in {[x EXCEPT !.bcsReady = @ /\ x.ok] : x \in done}
    BY <1>2 DEF SubmitBcsCommandsLocked, b
  <2>2. PICK d \in done : r = [d EXCEPT !.bcsReady = @ /\ d.ok]
    <3> HIDE DEF done
    <3> QED BY <2>1
  <2>3. \A x \in power : Used(x, e) /\ (borrowed => x.acks = e.acks)
    <3> TAKE x \in power
    <3>1. CASE borrowed
      <4>1. SideMove(x, b)
        BY <1>b, <3>1, PowerVerifiedKeeps, SideKept
      <4> QED BY <1>b, <4>1, SideUsed DEF SideMove, KeepsPower
    <3>2. CASE ~borrowed
      BY <1>b, <3>2, TakenUsed
    <3> QED BY <3>1, <3>2
  <2> HIDE DEF power
  <2>4. \A x \in ran : Used(x, e) /\ (borrowed => x.acks = e.acks)
    <3> TAKE x \in ran
    <3>1. PICK y \in power : IF y.ok THEN x \in RunBcs("private", y) ELSE x = y
      BY DEF Then
    <3> HIDE DEF ran, borrowed
    <3>2. Used(y, e) /\ y \in EngineState /\ (borrowed => y.acks = e.acks)
      BY <2>3 DEF Used
    <3>3. SideMove(x, y)
      BY <3>1, <3>2, SideRunBcs, SideSame
    <3> QED BY <3>2, <3>3, SideUsed DEF SideMove, KeepsPower
  <2> HIDE DEF ran
  <2>5. \A x \in restored : Used(x, e) /\ (borrowed => x.acks = e.acks)
    <3> TAKE x \in restored
    <3>1. PICK y \in ran : \E z \in RestoreBcsRing([y EXCEPT !.ok = TRUE]) :
                              x = [z EXCEPT !.ok = @ /\ y.ok]
      BY DEF Always
    <3>2. PICK z \in RestoreBcsRing([y EXCEPT !.ok = TRUE]) : x = [z EXCEPT !.ok = @ /\ y.ok]
      BY <3>1
    <3>3. Used(y, e) /\ y \in EngineState /\ (borrowed => y.acks = e.acks)
      BY <2>4 DEF Used
    <3>4. SideMove(z, [y EXCEPT !.ok = TRUE])
      BY <3>3, SideRestoreBcs, StatusEngine
    <3> HIDE DEF restored, borrowed
    <3> DEFINE y1 == [y EXCEPT !.ok = TRUE]
    <3>a. y1 \in EngineState /\ KeepsPower(y1, y)
      BY <3>3, StatusSet
    <3>c. SideMove(z, y1) /\ z \in EngineState
      BY <3>4 DEF SideMove
    <3> HIDE DEF y1
    <3>d. KeepsPower(x, z)
      BY <3>2, <3>3, <3>c, BothStatuses
    <3>e. x.acks = y.acks
      BY <3>a, <3>c, <3>d DEF SideMove, KeepsPower
    <3>5. Used(x, e) /\ x.acks = y.acks
      BY <3>2, <3>3, <3>4, <3>e, UsedAlways
    <3> QED BY <3>3, <3>5
  <2> HIDE DEF restored
  <2>6. SidePost(d, e)
    <3>1. CASE borrowed
      BY <2>5, <3>1, UsedLent
    <3>2. CASE ~borrowed
      BY <2>5, <3>2, UsedReturns
    <3> QED BY <3>1, <3>2
  <2> HIDE DEF done
  <2>7. PICK t \in BOOLEAN : r = [d EXCEPT !.bcsReady = t]
    <3>1. d.ok \in BOOLEAN /\ d.bcsReady \in BOOLEAN
      BY <2>6 DEF SidePost, EngineState
    <3>2. (d.bcsReady /\ d.ok) \in BOOLEAN /\ r = [d EXCEPT !.bcsReady = d.bcsReady /\ d.ok]
      BY <2>2, <3>1
    <3> QED BY <3>2
  <2>8. /\ r \in EngineState /\ r.owner = d.owner /\ r.base = d.base
        /\ r.ring = d.ring /\ r.live = d.live /\ r.settings = d.settings
        /\ r.renewed = d.renewed /\ r.held = d.held /\ r.faulted = d.faulted
        /\ r.quarantined = d.quarantined /\ r.acks = d.acks /\ r.flags = d.flags
    BY <2>6, <2>7 DEF SidePost, EngineState
  <2> QED BY <2>6, <2>8 DEF SidePost, PowerRest
<1> QED BY <1>1, <1>2

LEMMA DiagnosticsLeave ==
    ASSUME NEW e \in EngineState, NEW r \in CaptureGpuDiagnostics(e)
    PROVE  SidePost(r, e)
<1> DEFINE S == TakePower(Begun(e))
<1>1. \A x \in S : Used(x, e)
  BY BegunUsed, BegunState, TakenUsed
<1>2. r \in ReturnPower(S)
  BY DEF CaptureGpuDiagnostics
<1> HIDE DEF S
<1> QED BY <1>1, <1>2, UsedReturns

LEMMA SelfTestLeaves ==
    ASSUME NEW e \in EngineState, NEW r \in RunGpuSelfTest(e)
    PROVE  SidePost(r, e)
<1> DEFINE b == Begun(e)
           installed == Fallible("map", b)
           power == Then(installed, TakePower)
           ran == Then(power, LAMBDA x : RunBcs("test", x))
           Restore(x) == RestoreBcsRing(x)
           restored == Always(ran, Restore)
           F(z) == IF z.ok THEN z ELSE [z EXCEPT !.faulted = TRUE]
           Map(x) == IF x.bcsRing # {} THEN {x} ELSE {F(z) : z \in Fallible("map", x)}
           mapped == Always(restored, Map)
<1>b. b \in EngineState /\ Used(b, e) /\ b.taken = {} /\ b.acks = e.acks
  BY BegunUsed, BegunState
<1>0. RunGpuSelfTest(e) = IF e.faulted THEN Refused(b) ELSE ReturnPower(mapped)
  BY Zenon DEF RunGpuSelfTest
<1> HIDE DEF b, mapped
<1>1. CASE e.faulted
  <2>1. r \in Refused(b)
    BY <1>0, <1>1
  <2>2. Used(r, e) /\ r.acks = e.acks
    BY <1>b, <2>1, SideRefused, SideUsed DEF SideMove, KeepsPower
  <2> QED BY <2>2 DEF Used, SidePost, PowerRest
<1>2. CASE ~e.faulted
  <2>1. r \in ReturnPower(mapped)
    BY <1>0, <1>2
  <2>2. \A x \in installed : Used(x, e) /\ x.taken = {} /\ x.acks = e.acks
    <3> TAKE x \in installed
    <3>1. SideMove(x, b)
      BY <1>b, SideFallible
    <3> QED BY <1>b, <3>1, SideUsed DEF SideMove, KeepsPower
  <2> HIDE DEF installed
  <2>3. \A x \in power : Used(x, e)
    <3> TAKE x \in power
    <3>1. PICK y \in installed : IF y.ok THEN x \in TakePower(y) ELSE x = y
      BY DEF Then
    <3> QED BY <2>2, <3>1, TakenUsed
  <2> HIDE DEF power
  <2>4. \A x \in ran : Used(x, e)
    <3> TAKE x \in ran
    <3>1. PICK y \in power : IF y.ok THEN x \in RunBcs("test", y) ELSE x = y
      BY DEF Then
    <3> HIDE DEF ran
    <3>2. Used(y, e) /\ y \in EngineState
      BY <2>3 DEF Used
    <3>3. SideMove(x, y)
      BY <3>1, <3>2, SideRunBcs, SideSame
    <3> QED BY <3>2, <3>3, SideUsed
  <2> HIDE DEF ran
  <2>5. \A x \in restored : Used(x, e)
    <3> TAKE x \in restored
    <3>1. PICK y \in ran : \E z \in RestoreBcsRing([y EXCEPT !.ok = TRUE]) :
                              x = [z EXCEPT !.ok = @ /\ y.ok]
      BY DEF Always
    <3>2. PICK z \in RestoreBcsRing([y EXCEPT !.ok = TRUE]) : x = [z EXCEPT !.ok = @ /\ y.ok]
      BY <3>1
    <3>3. Used(y, e) /\ y \in EngineState
      BY <2>4 DEF Used
    <3>4. SideMove(z, [y EXCEPT !.ok = TRUE])
      BY <3>3, SideRestoreBcs, StatusEngine
    <3> HIDE DEF restored
    <3> QED BY <3>2, <3>3, <3>4, UsedAlways
  <2> HIDE DEF restored
  <2>6. ASSUME NEW x \in EngineState, NEW y \in Map(x)
        PROVE  SideMove(y, x)
    <3>1. CASE x.bcsRing # {}
      BY <3>1, SideSame
    <3>2. CASE x.bcsRing = {}
      <4>1. y \in {F(z) : z \in Fallible("map", x)}
        BY <3>2
      <4>2. PICK z \in Fallible("map", x) : y = F(z)
        <5> HIDE DEF F
        <5> QED BY <4>1
      <4>3. SideMove(z, x) /\ z \in EngineState
        BY SideFallible DEF SideMove
      <4>4. SideMove(y, z)
        BY <4>2, <4>3, SideSame, SideFaulted
      <4> QED BY <4>3, <4>4, SideChain
    <3> QED BY <3>1, <3>2
  <2> HIDE DEF Map
  <2>7. \A x \in mapped : Used(x, e)
    <3> TAKE x \in mapped
    <3>1. PICK y \in restored : \E z \in Map([y EXCEPT !.ok = TRUE]) :
                              x = [z EXCEPT !.ok = @ /\ y.ok]
      BY DEF Always, mapped
    <3>2. PICK z \in Map([y EXCEPT !.ok = TRUE]) : x = [z EXCEPT !.ok = @ /\ y.ok]
      BY <3>1
    <3>3. Used(y, e) /\ y \in EngineState
      BY <2>5 DEF Used
    <3>4. SideMove(z, [y EXCEPT !.ok = TRUE])
      BY <2>6, <3>3, StatusEngine
    <3> QED BY <3>2, <3>3, <3>4, UsedAlways
  <2> QED BY <2>1, <2>7, UsedReturns
<1> QED BY <1>1, <1>2

----------------------------------------------------------------------------
(* The steps of the specification.                                         *)

\* What every step of the engine keeps
Moved(r, e) ==
    /\ r \in EngineState /\ AtRest(r)
    /\ "release" \notin GpuFault /\ PowerRest(e) => PowerRest(r)
Same(r, e) == r.owner = e.owner /\ r.ring = e.ring /\ r.live = e.live

LEMMA BegunMoved ==
    ASSUME NEW e, NEW r, Moved(r, e)
    PROVE  Moved(Begun(r), e) /\ ~Begun(r).renewed /\ Same(Begun(r), r)
<1>1. r \in EngineState
  BY DEF Moved
<1> QED BY <1>1, BegunState DEF Moved, AtRest, BaseRing, PowerRest, Same

LEMMA SidePostMoved ==
    ASSUME NEW e, AtRest(e), NEW r, SidePost(r, e)
    PROVE  Moved(r, e) /\ Same(r, e) /\ ~r.renewed
BY DEF SidePost, Moved, AtRest, BaseRing, Same

LEMMA SideMoveMoved ==
    ASSUME NEW e, AtRest(e), NEW x, Moved(x, e), Same(x, e), ~x.renewed,
           NEW r, SideMove(r, x)
    PROVE  Moved(r, e) /\ Same(r, e) /\ ~r.renewed
BY DEF SideMove, Moved, AtRest, BaseRing, Same, KeepsPower, PowerRest

LEMMA BegunStarts ==
    ASSUME NEW e \in EngineState, AtRest(e)
    PROVE  /\ Moved(Begun(e), e) /\ Same(Begun(e), e) /\ ~Begun(e).renewed
           /\ Begun(e) \in EngineState
BY BegunState DEF Moved, Same, AtRest, BaseRing, PowerRest

\* Names of freed memory never touch an engine without owner and fault
LEMMA FreedMoved ==
    ASSUME NEW e, NEW r, Moved(r, e), NEW memories
    PROVE  LET f == Freed(r, memories)
           IN  /\ Moved(f, e) /\ f.owner = r.owner /\ f.live = r.live
               /\ r.ring \cap memories = {} => f = r
               /\ f.renewed = r.renewed /\ f.faulted = r.faulted
               /\ f.quarantined = r.quarantined
<1> DEFINE f == [r EXCEPT !.ring = (@ \ memories) \cup {"freed"}]
<1>1. CASE r.ring \cap memories = {}
  BY <1>1 DEF Freed
<1>2. CASE r.ring \cap memories # {}
  <2>1. r \in EngineState /\ (r.ring \ memories) \cup {"freed"} \in SUBSET Memory
    BY DEF Moved, EngineState, Memory
  <2>2. /\ f \in EngineState /\ f.owner = r.owner /\ f.live = r.live
        /\ f.base = r.base /\ f.faulted = r.faulted /\ f.settings = r.settings
        /\ f.quarantined = r.quarantined /\ f.renewed = r.renewed
        /\ f.held = r.held /\ f.acks = r.acks /\ f.flags = r.flags
    BY <2>1 DEF EngineState
  <2>3. ~(r.owner = "none" /\ ~r.faulted)
    BY <1>2 DEF Moved, AtRest, BaseRing
  <2>4. Moved(f, e)
    BY <2>2, <2>3 DEF Moved, AtRest, PowerRest
  <2>5. Freed(r, memories) = f
    BY <1>2 DEF Freed
  <2> HIDE DEF f
  <2> QED BY <1>2, <2>2, <2>4, <2>5
<1> QED BY <1>1, <1>2

ContextStates == {"none", "ready", "quarantined"}
CallerStages == {"idle", "release", "destroy", "submit"}
Phases == {"open", "drain", "destroy", "closed"}

\* Who holds the device lock, and for which client
Shape ==
    /\ context \in [RenderClient -> ContextStates]
    /\ waiting \in [RenderClient -> JobKind \cup {"none"}]
    /\ phase \in [RenderClient -> Phases]
    /\ caller \in [RenderThread -> CallerStages]
    /\ worker \in [stage : {"idle", "release", "submit", "retire"},
                   client : RenderClient \cup {"none"}, kind : JobKind \cup {"none"}]
    /\ worker.stage \in {"submit", "release"} => worker.client \in RenderClient
    /\ current \in SUBSET RenderClient
    /\ submission # NoSubmission =>
          /\ submission.client \in RenderClient /\ submission.switch \in BOOLEAN
          /\ submission.persistent \in BOOLEAN
          /\ context[submission.client] = "ready"
          /\ submission.persistent =>
                /\ submission.by = "worker" /\ worker.client = submission.client
                /\ worker.stage = "submit"

EngineInv ==
    /\ engine \in EngineState /\ AtRest(engine) /\ ~engine.renewed
    /\ Shape

\* Memory bound or unbound: the engine is as it was
LEMMA CreateStep ==
    ASSUME EngineInv, NEW t \in RenderThread, CreateRenderContext(t)
    PROVE  /\ Moved(engine', engine) /\ ~engine'.renewed /\ Same(engine', engine)
           /\ current' = current
           /\ context[Client(t)] = "none"
           /\ context' = context \/ context' = [context EXCEPT ![Client(t)] = "ready"]
<1>1. engine \in EngineState /\ AtRest(engine) /\ ~engine.renewed
      /\ context \in [RenderClient -> ContextStates]
  BY DEF EngineInv, Shape
<1>2. Moved(engine, engine) /\ Same(engine, engine)
  BY <1>1 DEF Moved, Same
<1>3. CASE UNCHANGED <<engine, context, current>>
  BY <1>1, <1>2, <1>3 DEF CreateRenderContext
<1>4. CASE ~UNCHANGED <<engine, context, current>>
  <2>1. PICK r \in Then(BindRenderBufferGgtt(Begun(engine)), BindRenderBufferGgtt) :
            /\ Ran(r)
            /\ context' = [context EXCEPT ![Client(t)] = IF r.ok THEN "ready" ELSE @]
    BY <1>4 DEF CreateRenderContext
  <2>2. PICK x \in BindRenderBufferGgtt(Begun(engine)) :
            IF x.ok THEN r \in BindRenderBufferGgtt(x) ELSE r = x
    BY <2>1 DEF Then
  <2>3. SideMove(x, Begun(engine)) /\ x \in EngineState
    BY <1>1, BegunStarts, SideBind DEF SideMove
  <2>4. Moved(x, engine) /\ Same(x, engine) /\ ~x.renewed
    BY <1>1, <2>3, BegunStarts, SideMoveMoved
  <2>5. SideMove(r, x)
    BY <2>2, <2>3, SideBind, SideSame
  <2>6. Moved(r, engine) /\ Same(r, engine) /\ ~r.renewed
    BY <1>1, <2>4, <2>5, SideMoveMoved
  <2>7. engine' = Begun(r) /\ current' = current
    BY <2>1, <2>6 DEF Ran
  <2>8. Moved(engine', engine) /\ ~engine'.renewed /\ Same(engine', engine)
    BY <2>6, <2>7, BegunMoved DEF Same
  <2>9. context' = context \/ context' = [context EXCEPT ![Client(t)] = "ready"]
    <3>1. r.ok \in BOOLEAN
      BY <2>6 DEF Moved, EngineState
    <3> QED BY <1>1, <2>1, <3>1
  <2>10. context[Client(t)] = "none"
    BY DEF CreateRenderContext
  <2> QED BY <2>7, <2>8, <2>9, <2>10
<1> QED BY <1>3, <1>4

LEMMA ReleasePpgttStep ==
    ASSUME EngineInv, NEW c \in RenderClient, ReleasePpgttResources(c)
    PROVE  /\ Moved(engine', engine) /\ ~engine'.renewed
           /\ engine'.owner = engine.owner /\ engine'.live = engine.live
           /\ c \notin engine.ring => engine'.ring = engine.ring
           /\ \/ /\ context' = [context EXCEPT ![c] = "quarantined"]
                 /\ current' = current /\ engine'.ring = engine.ring
              \/ /\ context' = [context EXCEPT ![c] = "none"]
                 /\ current' = current \ {c}
<1>1. engine \in EngineState /\ AtRest(engine) /\ ~engine.renewed
  BY DEF EngineInv
<1>2. PICK d \in UnbindRenderBufferGgtt(Begun(engine)) :
        IF ~d.ok
        THEN /\ engine' = Begun(d)
             /\ context' = [context EXCEPT ![c] = "quarantined"]
             /\ UNCHANGED current
        ELSE \E w \in UnbindRenderBufferGgtt(d) :
                /\ engine' = Begun(IF w.ok THEN Freed(w, {c}) ELSE w)
                /\ context' = [context EXCEPT ![c] = "none"]
                /\ current' = current \ {c}
  BY DEF ReleasePpgttResources
<1>3. SideMove(d, Begun(engine)) /\ d \in EngineState
  BY <1>1, BegunStarts, SideUnbind DEF SideMove
<1>4. Moved(d, engine) /\ Same(d, engine) /\ ~d.renewed
  BY <1>1, <1>3, BegunStarts, SideMoveMoved
<1>5. CASE ~d.ok
  BY <1>2, <1>4, <1>5, BegunMoved DEF Same
<1>6. CASE d.ok
  <2>1. PICK w \in UnbindRenderBufferGgtt(d) :
                /\ engine' = Begun(IF w.ok THEN Freed(w, {c}) ELSE w)
                /\ context' = [context EXCEPT ![c] = "none"]
                /\ current' = current \ {c}
    BY <1>2, <1>6
  <2>2. SideMove(w, d)
    BY <1>3, <2>1, SideUnbind
  <2>3. Moved(w, engine) /\ Same(w, engine) /\ ~w.renewed
    BY <1>1, <1>4, <2>2, SideMoveMoved
  <2> DEFINE f == IF w.ok THEN Freed(w, {c}) ELSE w
  <2>4. /\ Moved(f, engine) /\ f.owner = w.owner /\ f.live = w.live
        /\ w.ring \cap {c} = {} => f = w
    BY <2>3, FreedMoved
  <2>5. engine' = Begun(f)
    BY <2>1
  <2> HIDE DEF f
  <2>6. Moved(engine', engine) /\ ~engine'.renewed /\ Same(engine', f)
    BY <2>4, <2>5, BegunMoved
  <2>7. c \notin engine.ring => engine'.ring = engine.ring
    <3> SUFFICES ASSUME c \notin engine.ring PROVE engine'.ring = engine.ring
      OBVIOUS
    <3>1. w.ring = engine.ring
      BY <2>3 DEF Same
    <3>2. f = w
      BY <2>4, <3>1
    <3> QED BY <2>6, <3>1, <3>2 DEF Same
  <2>8. engine'.owner = engine.owner /\ engine'.live = engine.live
    BY <2>3, <2>4, <2>6 DEF Same
  <2> QED BY <2>1, <2>6, <2>7, <2>8
<1> QED BY <1>5, <1>6

\* Ownership given up: the ring is as it was and its owner's memory is kept,
\* or the baseline is back
LEMMA ReleaseStep ==
    ASSUME EngineInv, NEW expected,
           NEW r \in ReleasePersistentRcsOwnership(expected, engine),
           Release(expected, r)
    PROVE  /\ Moved(engine', engine) /\ ~engine'.renewed
           /\ \/ engine'.owner = "none"
              \/ engine'.owner = engine.owner /\ engine.owner # expected
           /\ \/ /\ engine'.ring = engine.ring /\ engine'.live = engine.live
                 /\ current' = current
                 /\ \/ engine'.owner = engine.owner /\ context' = context
                    \/ /\ engine.owner # "none"
                       /\ context' = [context EXCEPT ![engine.owner] = "quarantined"]
              \/ /\ engine'.live = "none" /\ current' = {}
                 /\ ~RestoreFails => engine'.ring = {}
                 /\ \/ context' = context
                    \/ /\ engine.owner # "none"
                       /\ context' = [context EXCEPT ![engine.owner] = "quarantined"]
<1>1. engine \in EngineState /\ AtRest(engine) /\ ~engine.renewed
  BY DEF EngineInv
<1>2. /\ engine' = Begun(r)
      /\ current' = IF r.renewed THEN {} ELSE current
      /\ context' = IF r.ok \/ engine.owner = "none" THEN context
                    ELSE [context EXCEPT ![engine.owner] = "quarantined"]
  BY DEF Release, Ran
<1>3. CASE r = Begun(engine) /\ (engine.owner = "none" \/ engine.owner # expected)
  <2>1. /\ Moved(r, engine) /\ Same(r, engine) /\ ~r.renewed /\ r.ok
    BY <1>1, <1>3, BegunStarts, BegunState
  <2>2. Moved(engine', engine) /\ ~engine'.renewed /\ Same(engine', engine)
    BY <1>2, <2>1, BegunMoved DEF Same
  <2> QED BY <1>2, <1>3, <2>1, <2>2 DEF Same
<1>4. CASE ReleasedPost(r, engine)
  <2>1. Moved(r, engine)
    BY <1>4 DEF ReleasedPost, Moved
  <2>2. Moved(engine', engine) /\ ~engine'.renewed /\ Same(engine', r)
    BY <1>2, <2>1, BegunMoved
  <2>3. r.renewed \in BOOLEAN /\ r.ok \in BOOLEAN
    BY <1>4 DEF ReleasedPost, EngineState
  <2>4. CASE ~r.renewed
    BY <1>2, <1>4, <2>2, <2>4 DEF ReleasedPost, Same
  <2>5. CASE r.renewed
    BY <1>2, <1>4, <2>2, <2>5 DEF ReleasedPost, Same
  <2> QED BY <2>4, <2>5
<1> QED BY <1>1, <1>3, <1>4, ReleaseLeaves

\* What is kept of the memory of a submission, and what is freed
LEMMA KeptMoved ==
    ASSUME NEW e, NEW r, Moved(r, e), NEW unsafe \in BOOLEAN
    PROVE  LET q == IF unsafe THEN [r EXCEPT !.quarantined = TRUE] ELSE r
               left == IF unsafe THEN q ELSE Freed(q, {"private"})
           IN  /\ Moved(left, e) /\ left.owner = r.owner /\ left.live = r.live
               /\ "private" \notin r.ring => left.ring = r.ring
<1>1. CASE unsafe
  <2> DEFINE q == [r EXCEPT !.quarantined = TRUE]
  <2>1. r \in EngineState
    BY DEF Moved
  <2>2. /\ q \in EngineState /\ q.owner = r.owner /\ q.live = r.live
        /\ q.ring = r.ring /\ q.base = r.base /\ q.faulted = r.faulted
        /\ q.settings = r.settings /\ q.held = r.held /\ q.acks = r.acks
        /\ q.flags = r.flags
    BY <2>1 DEF EngineState
  <2>3. Moved(q, e)
    BY <2>2 DEF Moved, AtRest, BaseRing, PowerRest
  <2> HIDE DEF q
  <2> QED BY <1>1, <2>2, <2>3 DEF q
<1>2. CASE ~unsafe
  <2> DEFINE f == Freed(r, {"private"})
  <2>1. /\ Moved(f, e) /\ f.owner = r.owner /\ f.live = r.live
        /\ r.ring \cap {"private"} = {} => f = r
    BY FreedMoved
  <2> HIDE DEF f
  <2>2. "private" \notin r.ring => f.ring = r.ring
    BY <2>1
  <2> QED BY <1>2, <2>1, <2>2 DEF f
<1> QED BY <1>1, <1>2

\* A submission: nothing happened to the ring, or the owner is gone, or the
\* engine has the context of the client loaded
ExecutedPost(r, e, s) ==
    /\ Moved(r, e)
    /\ \/ /\ r.owner = e.owner /\ ~r.renewed
          /\ r.live = e.live \/ (e.live = "none" /\ ~s.persistent)
          /\ r.ring = e.ring \/ RestoreFails
          /\ ~r.ok \/ ~s.persistent
       \/ /\ r.owner = "none" /\ r.live = "none" /\ r.renewed /\ ~r.ok
          /\ ~RestoreFails => r.ring = {}
       \/ /\ s.persistent /\ r.ok /\ ~r.renewed
          /\ r.owner = s.client /\ r.live = s.client /\ r.ring = {s.client}

LEMMA ExecutedLeaves ==
    ASSUME NEW e \in EngineState, AtRest(e), NEW s, s.client \in RenderClient,
           s.switch \in BOOLEAN, s.persistent \in BOOLEAN,
           NEW r \in IF s.persistent
                     THEN ExecutePersistentRcsSubmission(s.client, s.switch, e)
                     ELSE ExecuteRcsSubmission("private", e)
    PROVE  ExecutedPost(r, e, s)
<1>1. CASE s.persistent
  <2>1. \/ FailedPost(r, e) /\ ~r.ok
        \/ ClaimedPost(r, e, s.client) /\ r.ok
    BY <1>1, PersistentLeaves
  <2>2. CASE FailedPost(r, e) /\ ~r.ok
    BY <2>2 DEF FailedPost, ExecutedPost, Moved
  <2>3. CASE ClaimedPost(r, e, s.client) /\ r.ok
    <3>1. s.client # "none"
      BY RenderContextAssumption
    <3> QED BY <1>1, <2>3, <3>1 DEF ClaimedPost, ExecutedPost, Moved, AtRest
  <2> QED BY <2>1, <2>2, <2>3
<1>2. CASE ~s.persistent
  <2>1. TransientPost(r, e)
    <3>1. r \in Transient("private", TRUE, e)
      BY <1>2 DEF ExecuteRcsSubmission
    <3> QED BY <3>1, TransientLeaves
  <2> QED BY <1>2, <2>1 DEF TransientPost, ExecutedPost, Moved, AtRest
<1> QED BY <1>1, <1>2

LEMMA ExecuteStep ==
    ASSUME EngineInv, SubmitExecutes
    PROVE  /\ Moved(engine', engine) /\ ~engine'.renewed
           /\ submission # NoSubmission /\ submission' = NoSubmission
           /\ SubmissionEnds(submission.by, submission.client)
           /\ UNCHANGED <<phase, waiting>>
           /\ \/ context' = context
              \/ context' = [context EXCEPT ![submission.client] = "quarantined"]
           /\ saved \subseteq saved'
           /\ \/ /\ engine'.owner = engine.owner
                 /\ engine'.live = engine.live \/ engine.live = "none"
                 /\ "private" \notin engine.ring =>
                       engine'.ring = engine.ring \/ RestoreFails
                 /\ current' \subseteq current
              \/ /\ engine'.owner = "none" /\ engine'.live = "none"
                 /\ ~RestoreFails => engine'.ring = {}
                 /\ current' = {}
              \/ /\ submission.persistent
                 /\ engine'.owner = submission.client
                 /\ engine'.live = submission.client
                 /\ engine'.ring = {submission.client}
                 /\ current' = current \cup {submission.client}
                 /\ engine.live \in saved' \cup {"none", submission.client}
<1> DEFINE s == submission
           c == submission.client
           outcomes == IF s.persistent
                       THEN ExecutePersistentRcsSubmission(c, s.switch, engine)
                       ELSE ExecuteRcsSubmission("private", engine)
           Unsafe(r) == r.faulted \/ r.quarantined
           Q(r) == IF Unsafe(r) THEN [r EXCEPT !.quarantined = TRUE] ELSE r
           Left(r) == IF Unsafe(r) THEN Q(r) ELSE Freed(Q(r), {"private"})
           Gen(r) == IF r.renewed THEN {} ELSE current
<1>1. /\ engine \in EngineState /\ AtRest(engine) /\ ~engine.renewed
      /\ context \in [RenderClient -> ContextStates]
      /\ s # NoSubmission
  BY DEF EngineInv, Shape, SubmitExecutes
<1>2. c \in RenderClient /\ s.switch \in BOOLEAN /\ s.persistent \in BOOLEAN
  BY <1>1 DEF EngineInv, Shape
<1>3. PICK r \in outcomes :
         /\ engine' = Begun(Left(r))
         /\ context' = [context EXCEPT ![c] = IF Unsafe(r) THEN "quarantined" ELSE @]
         /\ current' = IF ~s.persistent THEN Gen(r)
                       ELSE IF r.ok THEN Gen(r) \cup {c} ELSE Gen(r) \ {c}
         /\ saved' = SavedAfter(r, c)
  <2> HIDE DEF outcomes
  <2> QED BY DEF SubmitExecutes, outcomes
<1>4. ExecutedPost(r, engine, s)
  <2> HIDE DEF s
  <2>1. s.client \in RenderClient
    BY <1>2 DEF s
  <2>2. r \in IF s.persistent
              THEN ExecutePersistentRcsSubmission(s.client, s.switch, engine)
              ELSE ExecuteRcsSubmission("private", engine)
    BY DEF s
  <2> QED BY <1>1, <1>2, <2>1, <2>2, ExecutedLeaves
<1> HIDE DEF outcomes
<1>5. Moved(r, engine) /\ r \in EngineState
  BY <1>4 DEF ExecutedPost, Moved
<1>6. Unsafe(r) \in BOOLEAN /\ r.ok \in BOOLEAN /\ r.renewed \in BOOLEAN
  BY <1>5 DEF EngineState
<1>7. /\ Moved(Left(r), engine) /\ Left(r).owner = r.owner /\ Left(r).live = r.live
      /\ "private" \notin r.ring => Left(r).ring = r.ring
  <2>1. PICK u \in BOOLEAN : u = Unsafe(r)
    BY <1>6
  <2> HIDE DEF Unsafe
  <2> QED BY <1>5, <2>1, KeptMoved
<1> HIDE DEF Left, Unsafe
<1>8. Moved(engine', engine) /\ ~engine'.renewed /\ Same(engine', Left(r))
  BY <1>3, <1>7, BegunMoved
<1>9. /\ engine'.owner = r.owner /\ engine'.live = r.live
      /\ "private" \notin r.ring => engine'.ring = r.ring
  BY <1>7, <1>8 DEF Same
<1>10. context' = context \/ context' = [context EXCEPT ![c] = "quarantined"]
  BY <1>1, <1>3
<1>11. saved \subseteq saved'
  BY <1>3 DEF SavedAfter
<1>12. /\ SubmissionEnds(s.by, c) /\ s' = NoSubmission /\ UNCHANGED <<phase, waiting>>
  BY DEF SubmitExecutes
<1>13. CASE /\ r.owner = engine.owner /\ ~r.renewed
            /\ r.live = engine.live \/ (engine.live = "none" /\ ~s.persistent)
            /\ r.ring = engine.ring \/ RestoreFails
            /\ ~r.ok \/ ~s.persistent
  <2>1. current' \subseteq current
    BY <1>3, <1>13
  <2>2. "private" \notin engine.ring => engine'.ring = engine.ring \/ RestoreFails
    BY <1>9, <1>13
  <2> QED BY <1>1, <1>8, <1>9, <1>10, <1>11, <1>12, <1>13, <2>1, <2>2
<1>14. CASE /\ r.owner = "none" /\ r.live = "none" /\ r.renewed /\ ~r.ok
            /\ ~RestoreFails => r.ring = {}
  <2>1. current' = {}
    BY <1>3, <1>14
  <2>2. ~RestoreFails => engine'.ring = {}
    BY <1>9, <1>14
  <2> QED BY <1>1, <1>8, <1>9, <1>10, <1>11, <1>12, <1>14, <2>1, <2>2
<1>15. CASE /\ s.persistent /\ r.ok /\ ~r.renewed
            /\ r.owner = s.client /\ r.live = s.client /\ r.ring = {s.client}
  <2>1. current' = current \cup {c}
    BY <1>3, <1>15
  <2>2. engine'.ring = {c}
    <3>1. c # "private"
      BY <1>2, RenderContextAssumption
    <3> QED BY <1>9, <1>15, <3>1
  <2>3. engine.live \in saved' \cup {"none", c}
    BY <1>3, <1>15 DEF SavedAfter
  <2> QED BY <1>1, <1>8, <1>9, <1>10, <1>11, <1>12, <1>15, <2>1, <2>2, <2>3
<1> QED BY <1>4, <1>13, <1>14, <1>15 DEF ExecutedPost

\* Diagnostics, self-tests and copies, and an engine that loses its registers
LEMMA OtherStep ==
    ASSUME EngineInv, OtherUse
    PROVE  /\ Moved(engine', engine) /\ ~engine'.renewed
           /\ engine'.owner = engine.owner
           /\ current' = current
           /\ UNCHANGED <<context, saved, phase, waiting, worker, caller, submission>>
           /\ ~EngineLoss => engine'.live = engine.live \/ engine.live = "none"
           /\ "private" \notin engine.ring =>
                 engine'.ring = engine.ring \/ RestoreFails \/ engine'.ring = {}
<1>1. engine \in EngineState /\ AtRest(engine) /\ ~engine.renewed
  BY DEF EngineInv
<1>2. CASE RunRcsDiagnostic
  <2>1. PICK r \in ExecuteRcsDiagnostic("private", engine) :
           Ran(IF r.quarantined THEN r ELSE Freed(r, {"private"}))
    BY <1>2 DEF RunRcsDiagnostic
  <2>2. TransientPost(r, engine)
    <3>1. r \in Transient("private", FALSE, engine)
      BY DEF ExecuteRcsDiagnostic
    <3> QED BY <1>1, <3>1, TransientLeaves
  <2>3. Moved(r, engine) /\ r.owner = engine.owner /\ ~r.renewed
    BY <1>1, <2>2 DEF TransientPost, Moved, AtRest
  <2> DEFINE f == IF r.quarantined THEN r ELSE Freed(r, {"private"})
  <2>4. /\ Moved(f, engine) /\ f.owner = r.owner /\ f.live = r.live /\ ~f.renewed
        /\ "private" \notin r.ring => f.ring = r.ring
    <3>1. CASE r.quarantined
      BY <2>3, <3>1
    <3>2. CASE ~r.quarantined
      <4> DEFINE g == Freed(r, {"private"})
      <4>1. /\ Moved(g, engine) /\ g.owner = r.owner /\ g.live = r.live
            /\ r.ring \cap {"private"} = {} => g = r
            /\ g.renewed = r.renewed
        BY <2>3, FreedMoved
      <4> HIDE DEF g
      <4>2. "private" \notin r.ring => g.ring = r.ring
        BY <4>1
      <4>3. f = g
        BY <3>2 DEF g
      <4> HIDE DEF f
      <4> QED BY <2>3, <4>1, <4>2, <4>3
    <3> QED BY <3>1, <3>2
  <2>5. engine' = Begun(f) /\ current' = IF f.renewed THEN {} ELSE current
    BY <2>1 DEF Ran
  <2> HIDE DEF f
  <2>6. Moved(engine', engine) /\ ~engine'.renewed /\ Same(engine', f)
    BY <2>4, <2>5, BegunMoved
  <2>7. UNCHANGED <<context, saved, phase, waiting, worker, caller, submission>>
    BY <1>2 DEF RunRcsDiagnostic
  <2> QED BY <2>2, <2>3, <2>4, <2>5, <2>6, <2>7 DEF TransientPost, Same
<1>3. ASSUME NEW r, SidePost(r, engine), Ran(r)
      PROVE  /\ Moved(engine', engine) /\ ~engine'.renewed
             /\ Same(engine', engine) /\ current' = current
  <2>1. Moved(r, engine) /\ Same(r, engine) /\ ~r.renewed
    BY <1>1, <1>3, SidePostMoved
  <2>2. engine' = Begun(r) /\ current' = current
    BY <1>3, <2>1 DEF Ran
  <2> QED BY <2>1, <2>2, BegunMoved DEF Same
<1>4. CASE (SubmitBcs \/ GpuTools \/ EngineLoses)
           /\ UNCHANGED <<context, saved, phase, waiting, worker, caller, submission>>
  <2>1. CASE SubmitBcs
    <3>1. PICK r \in SubmitBcsCommandsLocked(engine) : Ran(r)
      BY <2>1 DEF SubmitBcs
    <3>2. SidePost(r, engine)
      BY <1>1, CopyLeaves
    <3> QED BY <1>3, <1>4, <3>1, <3>2 DEF Same
  <2>2. CASE GpuTools
    <3>1. \/ \E r \in CaptureGpuDiagnostics(engine) : Ran(r)
          \/ \E r \in RunGpuSelfTest(engine) : Ran(r)
      BY <2>2 DEF GpuTools
    <3>2. \E r : SidePost(r, engine) /\ Ran(r)
      BY <1>1, <3>1, DiagnosticsLeave, SelfTestLeaves
    <3> QED BY <1>3, <1>4, <3>2 DEF Same
  <2>3. CASE EngineLoses
    <3>1. /\ EngineLoss /\ engine.owner # "none"
          /\ engine' = [engine EXCEPT !.ring = {}, !.live = "none"]
          /\ UNCHANGED current
      BY <2>3 DEF EngineLoses
    <3>2. /\ engine' \in EngineState /\ engine'.owner = engine.owner
          /\ engine'.ring = {} /\ engine'.base = engine.base
          /\ engine'.renewed = engine.renewed /\ engine'.held = engine.held
          /\ engine'.acks = engine.acks /\ engine'.flags = engine.flags
      BY <1>1, <3>1 DEF EngineState
    <3>3. Moved(engine', engine)
      BY <1>1, <3>1, <3>2 DEF Moved, AtRest, PowerRest
    <3> QED BY <1>1, <1>4, <3>1, <3>2, <3>3
  <2> QED BY <1>4, <2>1, <2>2, <2>3
<1> QED BY <1>2, <1>4 DEF OtherUse

\* Ownership given up for a caller, the worker or a client that closes
Releases(expected) ==
    \E r \in ReleasePersistentRcsOwnership(expected, engine) : Release(expected, r)

LEMMA ReleaseContexts ==
    ASSUME EngineInv, NEW expected, Releases(expected)
    PROVE  /\ Moved(engine', engine) /\ ~engine'.renewed
           /\ context' \in [RenderClient -> ContextStates]
           /\ current' \in SUBSET RenderClient
           /\ UNCHANGED saved
<1>1. PICK r \in ReleasePersistentRcsOwnership(expected, engine) : Release(expected, r)
  BY DEF Releases
<1>2. /\ Moved(engine', engine) /\ ~engine'.renewed
      /\ \/ context' = context
         \/ context' = [context EXCEPT ![engine.owner] = "quarantined"]
      /\ current' = current \/ current' = {}
  BY <1>1, ReleaseStep
<1>3. UNCHANGED saved
  BY <1>1 DEF Release
<1> QED BY <1>2, <1>3 DEF EngineInv, Shape, ContextStates

\* A context destroyed by a call, or by the end of its client
Destroys(c) ==
    /\ IF context[c] = "ready" THEN ReleasePpgttResources(c)
       ELSE UNCHANGED <<engine, context, current>>
    /\ saved' = saved \ {c}

LEMMA DestroyContexts ==
    ASSUME EngineInv, NEW c \in RenderClient, Destroys(c)
    PROVE  /\ Moved(engine', engine) /\ ~engine'.renewed
           /\ engine'.owner = engine.owner /\ engine'.live = engine.live
           /\ context' \in [RenderClient -> ContextStates]
           /\ current' \in SUBSET RenderClient
<1>1. CASE context[c] = "ready"
  <2>1. ReleasePpgttResources(c)
    BY <1>1 DEF Destroys
  <2> QED BY <2>1, ReleasePpgttStep DEF EngineInv, Shape, ContextStates
<1>2. CASE context[c] # "ready"
  <2>1. UNCHANGED <<engine, context, current>>
    BY <1>2 DEF Destroys
  <2> QED BY <2>1 DEF EngineInv, Shape, Moved
<1> QED BY <1>1, <1>2

\* The steps of one client's release
CloseOpen(c) ==
    /\ phase[c] = "open"
    /\ \A t \in RenderThread : Client(t) = c => caller[t] = "idle"
    /\ waiting' = [waiting EXCEPT ![c] = "none"]
    /\ phase' = [phase EXCEPT ![c] = "drain"]
    /\ UNCHANGED <<engine, rcsReady, context, current, saved, wiped>>
    /\ UNCHANGED <<worker, caller, submission>>
CloseDrain(c) ==
    /\ phase[c] = "drain" /\ worker.client # c /\ DeviceLockFree
    /\ Releases(c)
    /\ phase' = [phase EXCEPT ![c] = "destroy"]
    /\ UNCHANGED <<waiting, worker, caller, submission>>
CloseDestroy(c) ==
    /\ phase[c] = "destroy" /\ DeviceLockFree
    /\ Destroys(c)
    /\ phase' = [phase EXCEPT ![c] = "closed"]
    /\ UNCHANGED <<waiting, worker, caller, submission>>

LEMMA CloseCases ==
    ASSUME NEW c \in RenderClient, ReleaseClient(c)
    PROVE  CloseOpen(c) \/ CloseDrain(c) \/ CloseDestroy(c)
BY DEF ReleaseClient, CloseStep, CloseOpen, CloseDrain, CloseDestroy, Releases, Destroys

\* A submission that starts, or that is refused
Prepares(by, c, persistent) ==
    /\ DeviceLockFree
    /\ UNCHANGED <<engine, context, phase, waiting>>
    /\ current' \subseteq current
    /\ \A d \in current' : d \in saved => d \in saved'
    /\ \/ SubmissionEnds(by, c) /\ UNCHANGED submission
       \/ /\ context[c] = "ready"
          /\ \E switch, restores :
                submission' = [by |-> by, client |-> c, persistent |-> persistent,
                               switch |-> switch, restores |-> restores]
          /\ submission'.switch \in BOOLEAN
          /\ UNCHANGED <<worker, caller>>

LEMMA PrepareCases ==
    ASSUME NEW by, NEW c \in RenderClient, NEW persistent \in BOOLEAN,
           SubmitPrepares(by, c, persistent)
    PROVE  Prepares(by, c, persistent)
<1> DEFINE usable == EngineUsable(engine) /\ rcsReady /\ context[c] = "ready"
           kept == persistent /\ c \in current
           switch == ~persistent \/ engine.owner # c
           Cleared ==
               /\ saved' = IF persistent /\ ~kept THEN saved \ {c} ELSE saved
               /\ wiped' = (persistent /\ ~kept /\ engine.live = c)
           Refuse ==
               /\ current' = IF persistent THEN current \ {c} ELSE current
               /\ SubmissionEnds(by, c)
               /\ UNCHANGED submission
           s == [by |-> by, client |-> c, persistent |-> persistent,
                 switch |-> switch, restores |-> kept]
<1>1. /\ DeviceLockFree
      /\ \/ Refuse /\ UNCHANGED <<saved, wiped>>
         \/ usable /\ Cleared /\ Refuse
         \/ /\ usable /\ Cleared
            /\ submission' = s
            /\ UNCHANGED <<current, worker, caller>>
      /\ UNCHANGED <<engine, rcsReady, context, phase, waiting>>
  BY DEF SubmitPrepares
<1>2. CASE Refuse
  <2>1. current' \subseteq current
    BY <1>2
  <2>2. saved' = saved \/ (Cleared /\ usable)
    BY <1>1
  <2>3. \A d \in current' : d \in saved => d \in saved'
    BY <1>2, <2>2
  <2> QED BY <1>1, <1>2, <2>1, <2>3 DEF Prepares
<1>3. CASE usable /\ Cleared /\ submission' = s /\ UNCHANGED <<current, worker, caller>>
  <2>1. \A d \in current' : d \in saved => d \in saved'
    BY <1>3
  <2>2. switch \in BOOLEAN /\ s.switch = switch
    OBVIOUS
  <2>3. submission'.switch \in BOOLEAN
    BY <1>3, <2>2
  <2>4. \E sw, re : submission' = [by |-> by, client |-> c, persistent |-> persistent,
                                   switch |-> sw, restores |-> re]
    BY <1>3
  <2> QED BY <1>1, <1>3, <2>1, <2>3, <2>4 DEF Prepares
<1> QED BY <1>1, <1>2, <1>3

\* Every step, by what it does to the engine
LEMMA StepCases ==
    ASSUME EngineInv, RenderContextNext
    PROVE  \/ \E t \in RenderThread :
                 \/ CreateRenderContext(t) \/ DestroyBegins(t) \/ DestroyReleases(t)
                 \/ DestroyEnds(t) \/ Enqueue(t) \/ SyncBegins(t)
                 \/ caller[t] = "submit" /\ Prepares(t, Client(t), FALSE)
           \/ \E c \in RenderClient :
                 \/ WorkerTakes(c) \/ CloseOpen(c) \/ CloseDrain(c) \/ CloseDestroy(c)
                 \/ RegisterClient(c)
           \/ WorkerReleases \/ WorkerRetires
           \/ /\ worker.stage = "submit"
              /\ Prepares("worker", worker.client, worker.kind = "persistent")
           \/ SubmitExecutes
           \/ OtherUse
<1>1. CASE SubmitRenderCommands
  <2>1. CASE /\ worker.stage = "submit"
             /\ SubmitPrepares("worker", worker.client, worker.kind = "persistent")
    <3>1. worker.client \in RenderClient /\ (worker.kind = "persistent") \in BOOLEAN
      BY <2>1 DEF EngineInv, Shape
    <3> QED BY <2>1, <3>1, PrepareCases
  <2>2. CASE \E t \in RenderThread :
                caller[t] = "submit" /\ SubmitPrepares(t, Client(t), FALSE)
    <3>1. \A t \in RenderThread : Client(t) \in RenderClient
      BY DEF RenderThread, Client
    <3> QED BY <2>2, <3>1, PrepareCases
  <2> QED BY <1>1, <2>1, <2>2 DEF SubmitRenderCommands
<1>2. CASE \E c \in RenderClient : ReleaseClient(c)
  BY <1>2, CloseCases
<1> QED BY <1>1, <1>2 DEF RenderContextNext, DestroyRenderContext

LEMMA ClientOf ==
    \A t \in RenderThread : Client(t) \in RenderClient
BY DEF RenderThread, Client

\* While nobody holds the device lock a context may change its state
LEMMA ShapeFree ==
    ASSUME EngineInv, DeviceLockFree, UNCHANGED submission,
           context' \in [RenderClient -> ContextStates],
           current' \in SUBSET RenderClient,
           waiting' \in [RenderClient -> JobKind \cup {"none"}],
           phase' \in [RenderClient -> Phases],
           caller' \in [RenderThread -> CallerStages],
           worker' \in [stage : {"idle", "release", "submit", "retire"},
                        client : RenderClient \cup {"none"},
                        kind : JobKind \cup {"none"}],
           worker'.stage \in {"submit", "release"} => worker'.client \in RenderClient
    PROVE  Shape'
BY DEF Shape, DeviceLockFree

\* The contexts stay as they are, and so does a submission that runs
LEMMA ShapeHeld ==
    ASSUME EngineInv, UNCHANGED <<context, submission>>,
           current' \in SUBSET RenderClient,
           waiting' \in [RenderClient -> JobKind \cup {"none"}],
           phase' \in [RenderClient -> Phases],
           caller' \in [RenderThread -> CallerStages],
           worker' \in [stage : {"idle", "release", "submit", "retire"},
                        client : RenderClient \cup {"none"},
                        kind : JobKind \cup {"none"}],
           worker'.stage \in {"submit", "release"} => worker'.client \in RenderClient,
           worker.stage = "submit" => UNCHANGED worker
    PROVE  Shape'
BY DEF EngineInv, Shape

LEMMA EngineStep ==
    ASSUME EngineInv, [RenderContextNext]_contextVars
    PROVE  EngineInv' /\ Moved(engine', engine)
<1>1. /\ engine \in EngineState /\ AtRest(engine) /\ ~engine.renewed /\ Shape
      /\ Moved(engine, engine)
  BY DEF EngineInv, Moved
<1> DEFINE WorkerStates == [stage : {"idle", "release", "submit", "retire"},
                            client : RenderClient \cup {"none"},
                            kind : JobKind \cup {"none"}]
<1>t. /\ context \in [RenderClient -> ContextStates]
      /\ waiting \in [RenderClient -> JobKind \cup {"none"}]
      /\ phase \in [RenderClient -> Phases]
      /\ caller \in [RenderThread -> CallerStages]
      /\ worker \in WorkerStates
      /\ worker.stage \in {"submit", "release"} => worker.client \in RenderClient
      /\ current \in SUBSET RenderClient
  BY <1>1 DEF Shape
<1>a. ASSUME Moved(engine', engine), ~engine'.renewed, Shape'
      PROVE  EngineInv' /\ Moved(engine', engine)
  BY <1>a DEF EngineInv, Moved
<1>b. ASSUME UNCHANGED engine, Shape'
      PROVE  EngineInv' /\ Moved(engine', engine)
  <2>1. Moved(engine', engine) /\ ~engine'.renewed
    BY <1>1, <1>b
  <2> QED BY <1>a, <1>b, <2>1
<1>c. ASSUME NEW stage \in {"idle", "release", "submit", "retire"}
      PROVE  [worker EXCEPT !.stage = stage] \in WorkerStates
             /\ [worker EXCEPT !.stage = stage].client = worker.client
             /\ [worker EXCEPT !.stage = stage].stage = stage
  BY <1>t
<1>d. ASSUME NEW t \in RenderThread, NEW stage \in CallerStages
      PROVE  [caller EXCEPT ![t] = stage] \in [RenderThread -> CallerStages]
  BY <1>t
<1>e. ASSUME NEW c \in RenderClient, NEW p \in Phases
      PROVE  [phase EXCEPT ![c] = p] \in [RenderClient -> Phases]
  BY <1>t
<1>f. ASSUME NEW c, NEW kind \in JobKind \cup {"none"}
      PROVE  [waiting EXCEPT ![c] = kind] \in [RenderClient -> JobKind \cup {"none"}]
  BY <1>t
<1> HIDE DEF WorkerStates
<1>k. {"idle", "release", "destroy", "submit"} \subseteq CallerStages
      /\ {"open", "drain", "destroy", "closed"} \subseteq Phases
  BY DEF CallerStages, Phases
<1>2. CASE UNCHANGED contextVars
  <2>1. Shape'
    BY <1>1, <1>2 DEF contextVars, Shape, ContextStates, CallerStages, Phases,
                      RenderThread, JobKind, NoSubmission
  <2> QED BY <1>2, <1>b, <2>1 DEF contextVars
<1>3. CASE RenderContextNext
  <2>1. ASSUME NEW t \in RenderThread, CreateRenderContext(t)
        PROVE  EngineInv' /\ Moved(engine', engine)
    <3>1. /\ Moved(engine', engine) /\ ~engine'.renewed /\ current' = current
          /\ context' = context \/ context' = [context EXCEPT ![Client(t)] = "ready"]
      BY <2>1, CreateStep
    <3>2. context' \in [RenderClient -> ContextStates]
      BY <1>t, <3>1 DEF ContextStates
    <3>3. DeviceLockFree /\ UNCHANGED <<phase, waiting, worker, caller, submission>>
      BY <2>1 DEF CreateRenderContext
    <3>4. Shape'
      BY <1>t, <3>1, <3>2, <3>3, ShapeFree DEF WorkerStates
    <3> QED BY <1>a, <3>1, <3>4
  <2>2. ASSUME NEW t \in RenderThread, DestroyBegins(t)
        PROVE  EngineInv' /\ Moved(engine', engine)
    <3>1. /\ caller' = [caller EXCEPT ![t] = "release"]
          /\ UNCHANGED <<engine, context, current, phase, waiting, worker, submission>>
      BY <2>2 DEF DestroyBegins
    <3>2. caller' \in [RenderThread -> CallerStages]
      BY <1>d, <1>k, <3>1
    <3>3. Shape'
      BY <1>t, <3>1, <3>2, ShapeHeld DEF WorkerStates
    <3> QED BY <1>b, <3>1, <3>3
  <2>3. ASSUME NEW t \in RenderThread, DestroyReleases(t)
        PROVE  EngineInv' /\ Moved(engine', engine)
    <3>1. /\ Releases(Client(t)) /\ DeviceLockFree
          /\ UNCHANGED <<phase, waiting, worker, submission>>
          /\ \E s \in {"destroy", "idle"} : caller' = [caller EXCEPT ![t] = s]
      BY <2>3 DEF DestroyReleases, Releases
    <3>2. caller' \in [RenderThread -> CallerStages]
      BY <1>d, <1>k, <3>1
    <3>3. /\ Moved(engine', engine) /\ ~engine'.renewed
          /\ context' \in [RenderClient -> ContextStates]
          /\ current' \in SUBSET RenderClient
      BY <3>1, ReleaseContexts
    <3>4. Shape'
      BY <1>t, <3>1, <3>2, <3>3, ShapeFree DEF WorkerStates
    <3> QED BY <1>a, <3>3, <3>4
  <2>4. ASSUME NEW t \in RenderThread, DestroyEnds(t)
        PROVE  EngineInv' /\ Moved(engine', engine)
    <3>1. /\ UNCHANGED <<engine, context, current>> \/ Destroys(Client(t))
          /\ DeviceLockFree
          /\ UNCHANGED <<phase, waiting, worker, submission>>
          /\ caller' = [caller EXCEPT ![t] = "idle"]
      BY <2>4 DEF DestroyEnds, DestroyPpgttContextLocked, Destroys
    <3>2. caller' \in [RenderThread -> CallerStages]
      BY <1>d, <1>k, <3>1
    <3>3. /\ Moved(engine', engine) /\ ~engine'.renewed
          /\ context' \in [RenderClient -> ContextStates]
          /\ current' \in SUBSET RenderClient
      <4>1. Client(t) \in RenderClient
        BY ClientOf
      <4>2. CASE UNCHANGED <<engine, context, current>>
        BY <1>1, <1>t, <4>2
      <4>3. CASE Destroys(Client(t))
        BY <4>1, <4>3, DestroyContexts
      <4> QED BY <3>1, <4>2, <4>3
    <3>4. Shape'
      BY <1>t, <3>1, <3>2, <3>3, ShapeFree DEF WorkerStates
    <3> QED BY <1>a, <3>3, <3>4
  <2>5. ASSUME NEW t \in RenderThread, Enqueue(t)
        PROVE  EngineInv' /\ Moved(engine', engine)
    <3>1. /\ \E kind \in JobKind : waiting' = [waiting EXCEPT ![Client(t)] = kind]
          /\ UNCHANGED <<engine, context, current, phase, caller, worker, submission>>
      BY <2>5 DEF Enqueue
    <3>2. waiting' \in [RenderClient -> JobKind \cup {"none"}]
      BY <1>f, <3>1
    <3>3. Shape'
      BY <1>t, <3>1, <3>2, ShapeHeld DEF WorkerStates
    <3> QED BY <1>b, <3>1, <3>3
  <2>6. ASSUME NEW t \in RenderThread, SyncBegins(t)
        PROVE  EngineInv' /\ Moved(engine', engine)
    <3>1. /\ Releases("any") /\ DeviceLockFree
          /\ UNCHANGED <<phase, waiting, worker, submission>>
          /\ caller' = caller \/ caller' = [caller EXCEPT ![t] = "submit"]
      <4>1. PICK r \in ReleasePersistentRcsOwnership("any", engine) :
                /\ Release("any", r)
                /\ caller' = [caller EXCEPT ![t] = IF r.ok THEN "submit" ELSE @]
        BY <2>6 DEF SyncBegins
      <4>2. caller' = caller \/ caller' = [caller EXCEPT ![t] = "submit"]
        BY <1>t, <4>1
      <4>3. DeviceLockFree /\ UNCHANGED <<phase, waiting, worker, submission>>
        BY <2>6 DEF SyncBegins
      <4> QED BY <4>1, <4>2, <4>3 DEF Releases
    <3>2. caller' \in [RenderThread -> CallerStages]
      BY <1>d, <1>k, <1>t, <3>1
    <3>3. /\ Moved(engine', engine) /\ ~engine'.renewed
          /\ context' \in [RenderClient -> ContextStates]
          /\ current' \in SUBSET RenderClient
      BY <3>1, ReleaseContexts
    <3>4. Shape'
      BY <1>t, <3>1, <3>2, <3>3, ShapeFree DEF WorkerStates
    <3> QED BY <1>a, <3>3, <3>4
  <2>7. ASSUME NEW by, NEW c \in RenderClient, NEW persistent \in BOOLEAN,
               Prepares(by, c, persistent),
               persistent => by = "worker" /\ worker.client = c /\ worker.stage = "submit"
        PROVE  EngineInv' /\ Moved(engine', engine)
    <3>1. /\ UNCHANGED <<engine, context, phase, waiting>> /\ DeviceLockFree
          /\ current' \in SUBSET RenderClient
      BY <1>t, <2>7 DEF Prepares
    <3>2. CASE SubmissionEnds(by, c) /\ UNCHANGED submission
      <4>1. /\ worker' \in WorkerStates
            /\ worker'.stage \in {"submit", "release"} => worker'.client \in RenderClient
            /\ caller' \in [RenderThread -> CallerStages]
        BY <1>c, <1>t, <3>2 DEF SubmissionEnds, CallerStages
      <4>2. Shape'
        BY <1>t, <3>1, <3>2, <4>1, ShapeFree DEF WorkerStates
      <4> QED BY <1>b, <3>1, <4>2
    <3>3. CASE /\ context[c] = "ready"
               /\ \E switch, restores :
                    submission' = [by |-> by, client |-> c, persistent |-> persistent,
                                   switch |-> switch, restores |-> restores]
               /\ submission'.switch \in BOOLEAN
               /\ UNCHANGED <<worker, caller>>
      <4>1. submission'.client = c /\ submission'.persistent = persistent
            /\ submission'.by = by
        BY <3>3
      <4>2. Shape'
        BY <1>t, <2>7, <3>1, <3>3, <4>1 DEF Shape, WorkerStates
      <4> QED BY <1>b, <3>1, <4>2
    <3> QED BY <2>7, <3>2, <3>3 DEF Prepares
  <2>8. ASSUME NEW c \in RenderClient, WorkerTakes(c)
        PROVE  EngineInv' /\ Moved(engine', engine)
    <3> DEFINE st == IF waiting[c] = "persistent" THEN "submit" ELSE "release"
    <3>1. /\ worker = WorkerIdle
          /\ worker' = [client |-> c, kind |-> waiting[c], stage |-> st]
          /\ waiting' = [waiting EXCEPT ![c] = "none"]
          /\ UNCHANGED <<engine, context, current, phase, caller, submission>>
      BY <2>8 DEF WorkerTakes
    <3>2. waiting' \in [RenderClient -> JobKind \cup {"none"}]
      BY <1>f, <3>1
    <3>3. waiting[c] \in JobKind \cup {"none"} /\ worker.stage = "idle"
      BY <1>t, <3>1 DEF WorkerIdle
    <3>4. worker' \in WorkerStates /\ worker'.client = c
      BY <3>1, <3>3 DEF WorkerStates
    <3>5. Shape'
      BY <1>t, <3>1, <3>2, <3>3, <3>4, ShapeHeld DEF WorkerStates
    <3> QED BY <1>b, <3>1, <3>5
  <2>9. ASSUME NEW c \in RenderClient, CloseOpen(c)
        PROVE  EngineInv' /\ Moved(engine', engine)
    <3>1. /\ waiting' = [waiting EXCEPT ![c] = "none"]
          /\ phase' = [phase EXCEPT ![c] = "drain"]
          /\ UNCHANGED <<engine, context, current, worker, caller, submission>>
      BY <2>9 DEF CloseOpen
    <3>2. waiting' \in [RenderClient -> JobKind \cup {"none"}]
          /\ phase' \in [RenderClient -> Phases]
      BY <1>e, <1>f, <1>k, <3>1
    <3>3. Shape'
      BY <1>t, <3>1, <3>2, ShapeHeld DEF WorkerStates
    <3> QED BY <1>b, <3>1, <3>3
  <2>10. ASSUME NEW c \in RenderClient, CloseDrain(c) \/ CloseDestroy(c)
         PROVE  EngineInv' /\ Moved(engine', engine)
    <3>1. /\ Releases(c) \/ Destroys(c)
          /\ DeviceLockFree
          /\ UNCHANGED <<waiting, worker, caller, submission>>
          /\ phase' = [phase EXCEPT ![c] = "destroy"] \/ phase' = [phase EXCEPT ![c] = "closed"]
      BY <2>10 DEF CloseDrain, CloseDestroy
    <3>2. phase' \in [RenderClient -> Phases]
      BY <1>e, <1>k, <3>1
    <3>3. /\ Moved(engine', engine) /\ ~engine'.renewed
          /\ context' \in [RenderClient -> ContextStates]
          /\ current' \in SUBSET RenderClient
      BY <3>1, ReleaseContexts, DestroyContexts
    <3>4. Shape'
      BY <1>t, <3>1, <3>2, <3>3, ShapeFree DEF WorkerStates
    <3> QED BY <1>a, <3>3, <3>4
  <2>11. ASSUME NEW c \in RenderClient, RegisterClient(c)
         PROVE  EngineInv' /\ Moved(engine', engine)
    <3>1. /\ phase' = [phase EXCEPT ![c] = "open"]
          /\ current' = current \ {c}
          /\ UNCHANGED <<engine, context, waiting, worker, caller, submission>>
      BY <2>11 DEF RegisterClient
    <3>2. phase' \in [RenderClient -> Phases] /\ current' \in SUBSET RenderClient
      BY <1>e, <1>k, <1>t, <3>1
    <3>3. Shape'
      BY <1>t, <3>1, <3>2, ShapeHeld DEF WorkerStates
    <3> QED BY <1>b, <3>1, <3>3
  <2>12. CASE WorkerReleases
    <3>1. /\ Releases("any") /\ DeviceLockFree
          /\ UNCHANGED <<phase, waiting, caller, submission>>
          /\ worker.stage = "release"
          /\ \E s \in {"submit", "retire"} : worker' = [worker EXCEPT !.stage = s]
      BY <2>12 DEF WorkerReleases, Releases
    <3>2. worker' \in WorkerStates /\ worker'.client \in RenderClient
      BY <1>c, <1>t, <3>1
    <3>3. /\ Moved(engine', engine) /\ ~engine'.renewed
          /\ context' \in [RenderClient -> ContextStates]
          /\ current' \in SUBSET RenderClient
      BY <3>1, ReleaseContexts
    <3>4. Shape'
      BY <1>t, <3>1, <3>2, <3>3, ShapeFree DEF WorkerStates
    <3> QED BY <1>a, <3>3, <3>4
  <2>13. CASE WorkerRetires
    <3>1. /\ worker.stage = "retire" /\ worker' = WorkerIdle
          /\ waiting' \in {waiting, [waiting EXCEPT ![worker.client] = "none"]}
          /\ UNCHANGED <<engine, context, current, phase, caller, submission>>
      BY <2>13 DEF WorkerRetires
    <3>2. waiting' \in [RenderClient -> JobKind \cup {"none"}]
      BY <1>f, <1>t, <3>1
    <3>3. worker' \in WorkerStates /\ worker'.stage = "idle"
      BY <3>1 DEF WorkerIdle, WorkerStates
    <3>4. Shape'
      BY <1>t, <3>1, <3>2, <3>3, ShapeHeld DEF WorkerStates
    <3> QED BY <1>b, <3>1, <3>4
  <2>14. CASE SubmitExecutes
    <3> DEFINE c == submission.client
    <3>1. /\ Moved(engine', engine) /\ ~engine'.renewed
          /\ submission # NoSubmission /\ submission' = NoSubmission
          /\ SubmissionEnds(submission.by, c)
          /\ UNCHANGED <<phase, waiting>>
          /\ \/ context' = context
             \/ context' = [context EXCEPT ![c] = "quarantined"]
          /\ current' \subseteq current \cup {c}
      <4>1. (current' \subseteq current) \/ (current' = {}) \/ (current' = current \cup {c})
        BY <2>14, ExecuteStep
      <4>2. current' \subseteq current \cup {c}
        BY <4>1
      <4> QED BY <2>14, <4>2, ExecuteStep
    <3>2. c \in RenderClient
      BY <1>1, <3>1 DEF Shape
    <3>3. /\ worker' \in WorkerStates
          /\ worker'.stage \in {"submit", "release"} => worker'.client \in RenderClient
          /\ caller' \in [RenderThread -> CallerStages]
      BY <1>c, <1>t, <3>1 DEF SubmissionEnds, CallerStages
    <3>4. /\ context' \in [RenderClient -> ContextStates]
          /\ current' \in SUBSET RenderClient
      BY <1>t, <3>1, <3>2 DEF ContextStates
    <3>5. Shape'
      BY <1>t, <3>1, <3>3, <3>4 DEF Shape, WorkerStates
    <3> QED BY <1>a, <3>1, <3>5
  <2>15. CASE OtherUse
    <3>1. /\ Moved(engine', engine) /\ ~engine'.renewed /\ current' = current
          /\ UNCHANGED <<context, saved, phase, waiting, worker, caller, submission>>
      BY <2>15, OtherStep
    <3>2. Shape'
      BY <1>t, <3>1, ShapeHeld DEF WorkerStates
    <3> QED BY <1>a, <3>1, <3>2
  <2>16. ASSUME NEW t \in RenderThread, caller[t] = "submit",
                Prepares(t, Client(t), FALSE)
         PROVE  EngineInv' /\ Moved(engine', engine)
    BY <2>7, <2>16, ClientOf
  <2>17. CASE /\ worker.stage = "submit"
              /\ Prepares("worker", worker.client, worker.kind = "persistent")
    <3>1. worker.client \in RenderClient /\ (worker.kind = "persistent") \in BOOLEAN
      BY <1>t, <2>17
    <3> QED BY <2>7, <2>17, <3>1
  <2> QED BY <1>3, <2>1, <2>2, <2>3, <2>4, <2>5, <2>6, <2>8, <2>9, <2>10, <2>11,
             <2>12, <2>13, <2>14, <2>15, <2>16, <2>17, StepCases
<1> QED BY <1>2, <1>3

LEMMA EngineInit ==
    RenderContextInit => EngineInv /\ PowerRest(engine)
<1> SUFFICES ASSUME RenderContextInit PROVE EngineInv /\ PowerRest(engine)
  OBVIOUS
<1>1. PICK allow \in BOOLEAN : engine = EngineAtBoot(allow)
  BY DEF RenderContextInit
<1>2. /\ engine \in EngineState /\ engine.base = {} /\ BaseRing(engine)
      /\ ~engine.held /\ ~engine.renewed /\ PowerRest(engine)
  BY <1>1 DEF EngineAtBoot, EngineState, BaseRing, PowerRest
<1>3. worker \in [stage : {"idle", "release", "submit", "retire"},
                  client : RenderClient \cup {"none"}, kind : JobKind \cup {"none"}]
      /\ worker.stage = "idle"
  BY DEF RenderContextInit, WorkerIdle
<1>4. Shape
  BY <1>3 DEF RenderContextInit, Shape, ContextStates, Phases, CallerStages
<1> QED BY <1>2, <1>4 DEF EngineInv, AtRest

\* With no owner and no fault the engine is as the firmware left it, for every
\* number of clients and threads and every failure of a wait, a write or a
\* reset, an engine that loses its registers included, but for a forcewake
\* that is not released: nobody asks for it again.
THEOREM RestTheorem ==
    ASSUME "release" \notin GpuFault
    PROVE  RenderContextSpec => []RestIsBaseline
<1> DEFINE Inv == EngineInv /\ PowerRest(engine)
<1>1. RenderContextInit => Inv
  BY EngineInit
<1>2. Inv /\ [RenderContextNext]_contextVars => Inv'
  <2> SUFFICES ASSUME Inv, [RenderContextNext]_contextVars PROVE Inv'
    OBVIOUS
  <2>1. EngineInv' /\ Moved(engine', engine)
    BY EngineStep
  <2> QED BY <2>1 DEF Moved, PowerRest
<1>3. Inv => RestIsBaseline
  BY DEF EngineInv, AtRest, BaseRing, PowerRest, RestIsBaseline
<1> QED BY <1>1, <1>2, <1>3, PTL DEF RenderContextSpec

----------------------------------------------------------------------------
(* The images the driver counts on.                                        *)

\* A client whose context is gone counts on none
ImageInv ==
    /\ EngineInv
    /\ \A c \in current : context[c] # "none"
    /\ CurrentHasImage

\* An image saved stays saved, one loaded stays loaded or is saved
ImagesKept ==
    \A c \in current' :
        /\ c \in current /\ context[c] # "none"
        /\ context'[c] # "none"
        /\ context'[c] = "ready" => context[c] = "ready"
        /\ c \in saved \/ engine.live = c => c \in saved' \/ engine'.live = c

LEMMA ImagesStep ==
    ASSUME ImageInv, EngineInv', ImagesKept
    PROVE  ImageInv'
BY DEF ImageInv, ImagesKept, CurrentHasImage

LEMMA ImageStep ==
    ASSUME EngineLoss = FALSE, ImageInv, [RenderContextNext]_contextVars
    PROVE  ImageInv'
<1>1. EngineInv /\ EngineInv'
  BY EngineStep DEF ImageInv
<1>2. /\ context \in [RenderClient -> ContextStates]
      /\ current \in SUBSET RenderClient
      /\ \A c \in current : context[c] # "none"
      /\ \A c \in current : c # "none"
  BY <1>1, RenderContextAssumption DEF ImageInv, EngineInv, Shape
<1>a. ASSUME ImagesKept PROVE ImageInv'
  BY <1>1, <1>a, ImagesStep
<1>b. ASSUME UNCHANGED <<engine, context>>, current' \subseteq current,
             \A c \in current' : c \in saved => c \in saved'
      PROVE  ImageInv'
  BY <1>2, <1>a, <1>b DEF ImagesKept
<1>c. ASSUME NEW expected, Releases(expected)
      PROVE  ImageInv'
  <2>1. PICK r \in ReleasePersistentRcsOwnership(expected, engine) : Release(expected, r)
    BY <1>c DEF Releases
  <2>2. /\ \/ engine'.live = engine.live /\ current' = current
           \/ current' = {}
        /\ \/ context' = context
           \/ context' = [context EXCEPT ![engine.owner] = "quarantined"]
    BY <1>1, <2>1, ReleaseStep
  <2>3. UNCHANGED saved
    BY <2>1 DEF Release
  <2>4. ImagesKept
    BY <1>2, <2>2, <2>3 DEF ImagesKept
  <2> QED BY <1>a, <2>4
<1>d. ASSUME NEW c \in RenderClient, Destroys(c)
      PROVE  ImageInv'
  <2>1. saved' = saved \ {c}
    BY <1>d DEF Destroys
  <2>2. CASE context[c] = "ready"
    <3>1. ReleasePpgttResources(c)
      BY <1>d, <2>2 DEF Destroys
    <3>2. /\ engine'.live = engine.live
          /\ \/ context' = [context EXCEPT ![c] = "quarantined"] /\ current' = current
             \/ context' = [context EXCEPT ![c] = "none"] /\ current' = current \ {c}
      BY <1>1, <3>1, ReleasePpgttStep
    <3>3. CASE context' = [context EXCEPT ![c] = "quarantined"] /\ current' = current
      <4>1. \A d \in current' : context'[d] # "none"
        BY <1>2, <3>3
      <4>2. \A d \in current' : context'[d] = "ready" => d # c /\ context[d] = "ready"
        BY <1>2, <3>3
      <4> QED BY <1>1, <2>1, <3>2, <3>3, <4>1, <4>2 DEF ImageInv, CurrentHasImage
    <3>4. CASE context' = [context EXCEPT ![c] = "none"] /\ current' = current \ {c}
      <4>1. \A d \in current' : d # c /\ d \in current /\ context'[d] = context[d]
        BY <1>2, <3>4
      <4> QED BY <1>1, <1>2, <2>1, <3>2, <4>1 DEF ImageInv, CurrentHasImage
    <3> QED BY <3>2, <3>3, <3>4
  <2>3. CASE context[c] # "ready"
    <3>1. UNCHANGED <<engine, context, current>>
      BY <1>d, <2>3 DEF Destroys
    <3> QED BY <1>1, <1>2, <2>1, <2>3, <3>1 DEF ImageInv, CurrentHasImage
  <2> QED BY <2>2, <2>3
<1>u. CASE UNCHANGED contextVars
  BY <1>b, <1>u DEF contextVars
<1>3. CASE RenderContextNext
  <2>1. ASSUME NEW t \in RenderThread, CreateRenderContext(t)
        PROVE  ImageInv'
    <3>1. /\ Same(engine', engine) /\ current' = current
          /\ context[Client(t)] = "none"
          /\ context' = context \/ context' = [context EXCEPT ![Client(t)] = "ready"]
      BY <1>1, <2>1, CreateStep
    <3>2. \A c \in current : c # Client(t) /\ context'[c] = context[c]
      BY <1>2, <3>1
    <3>3. UNCHANGED saved
      BY <2>1 DEF CreateRenderContext
    <3>4. ImagesKept
      BY <1>2, <3>1, <3>2, <3>3 DEF ImagesKept, Same
    <3> QED BY <1>a, <3>4
  <2>2. ASSUME NEW t \in RenderThread, DestroyBegins(t) \/ Enqueue(t)
        PROVE  ImageInv'
    BY <1>b, <2>2 DEF DestroyBegins, Enqueue
  <2>3. ASSUME NEW t \in RenderThread, DestroyReleases(t) \/ SyncBegins(t)
        PROVE  ImageInv'
    <3>1. Releases(Client(t)) \/ Releases("any")
      BY <2>3 DEF DestroyReleases, SyncBegins, Releases
    <3> QED BY <1>c, <3>1
  <2>4. ASSUME NEW t \in RenderThread, DestroyEnds(t)
        PROVE  ImageInv'
    <3>1. UNCHANGED <<engine, context, current, saved>> \/ Destroys(Client(t))
      BY <2>4 DEF DestroyEnds, DestroyPpgttContextLocked, Destroys
    <3> QED BY <1>b, <1>d, <3>1, ClientOf
  <2>5. ASSUME NEW by, NEW c, NEW persistent, Prepares(by, c, persistent)
        PROVE  ImageInv'
    BY <1>b, <2>5 DEF Prepares
  <2>6. ASSUME NEW c \in RenderClient, WorkerTakes(c) \/ CloseOpen(c) \/ RegisterClient(c)
        PROVE  ImageInv'
    BY <1>b, <2>6 DEF WorkerTakes, CloseOpen, RegisterClient
  <2>7. ASSUME NEW c \in RenderClient, CloseDrain(c)
        PROVE  ImageInv'
    BY <1>c, <2>7 DEF CloseDrain
  <2>8. ASSUME NEW c \in RenderClient, CloseDestroy(c)
        PROVE  ImageInv'
    BY <1>d, <2>8 DEF CloseDestroy
  <2>9. CASE WorkerReleases
    <3>1. Releases("any")
      BY <2>9 DEF WorkerReleases, Releases
    <3> QED BY <1>c, <3>1
  <2>10. CASE WorkerRetires
    BY <1>b, <2>10 DEF WorkerRetires
  <2>11. CASE SubmitExecutes
    <3> DEFINE s == submission.client
    <3>1. /\ context' = context \/ context' = [context EXCEPT ![s] = "quarantined"]
          /\ saved \subseteq saved'
          /\ \/ /\ engine'.live = engine.live \/ engine.live = "none"
                /\ current' \subseteq current
             \/ current' = {}
             \/ /\ engine'.live = s
                /\ current' = current \cup {s}
                /\ engine.live \in saved' \cup {"none", s}
      BY <1>1, <2>11, ExecuteStep
    <3>2. s \in RenderClient /\ context[s] = "ready"
      <4>1. submission # NoSubmission
        BY <2>11 DEF SubmitExecutes
      <4> QED BY <1>1, <4>1 DEF EngineInv, Shape
    <3>3. \A c \in RenderClient : context[c] # "none" => context'[c] # "none"
      BY <1>2, <3>1
    <3>4. \A c \in RenderClient : context'[c] = "ready" => context[c] = "ready"
      BY <1>2, <3>1
    <3>5. current' \subseteq current \cup {s}
      BY <3>1
    <3>6. \A c \in current' : context'[c] # "none"
      BY <1>2, <3>2, <3>3, <3>5
    <3>7. CurrentHasImage'
      <4> SUFFICES ASSUME NEW c \in current', context'[c] = "ready"
                   PROVE  c \in saved' \/ engine'.live = c
        BY DEF CurrentHasImage
      <4>1. c \in RenderClient /\ context[c] = "ready"
        BY <1>2, <3>2, <3>4, <3>5
      <4>2. CASE c \in current
        <5>1. c \in saved \/ engine.live = c
          BY <4>1, <4>2 DEF ImageInv, CurrentHasImage
        <5>2. c # "none"
          BY <1>2, <4>2
        <5> QED BY <3>1, <5>1, <5>2
      <4>3. CASE c \notin current
        BY <3>1, <4>3
      <4> QED BY <4>2, <4>3
    <3> QED BY <1>1, <3>6, <3>7 DEF ImageInv
  <2>12. CASE OtherUse
    <3>1. /\ current' = current /\ UNCHANGED <<context, saved>>
          /\ engine'.live = engine.live \/ engine.live = "none"
      BY <1>1, <2>12, OtherStep
    <3>2. ImagesKept
      BY <1>2, <3>1 DEF ImagesKept
    <3> QED BY <1>a, <3>2
  <2> QED BY <1>1, <1>3, <2>1, <2>2, <2>3, <2>4, <2>5, <2>6, <2>7, <2>8, <2>9, <2>10,
             <2>11, <2>12, StepCases
<1> QED BY <1>u, <1>3

\* A client the driver thinks it can switch back to has an image to load, for
\* every number of clients and threads and every failure, as long as the engine
\* keeps its registers while it rests.
THEOREM ImageTheorem ==
    ASSUME EngineLoss = FALSE
    PROVE  RenderContextSpec => []CurrentHasImage
<1>0. EngineLoss = FALSE
  OBVIOUS
<1>1. RenderContextInit => ImageInv
  BY EngineInit DEF RenderContextInit, ImageInv, CurrentHasImage
<1>2. ImageInv /\ [RenderContextNext]_contextVars => ImageInv'
  <2> SUFFICES ASSUME ImageInv, [RenderContextNext]_contextVars PROVE ImageInv'
    OBVIOUS
  <2> QED BY <1>0, ImageStep, Zenon
<1>3. ImageInv => CurrentHasImage
  BY DEF ImageInv
<1> QED BY <1>1, <1>2, <1>3, PTL DEF RenderContextSpec

----------------------------------------------------------------------------
(* What the registers name.                                                *)

\* The registers name only the memory of the owner, whose context is there, and
\* memory in quarantine
RingKept ==
    /\ engine.owner # "none" => context[engine.owner] # "none"
    /\ \A m \in engine.ring :
          /\ m \in RenderClient /\ context[m] # "none"
          /\ m = engine.owner \/ context[m] = "quarantined"

\* A thread that destroys a context leaves its client without work, and a client
\* that ends, or whose thread has released the engine, does not own it
Stages ==
    /\ \A t \in RenderThread :
          /\ caller[t] \in {"release", "destroy"} =>
                waiting[Client(t)] = "none" /\ worker.client # Client(t)
          /\ caller[t] # "idle" => phase[Client(t)] = "open"
          /\ caller[t] = "destroy" => engine.owner # Client(t)
    /\ \A c \in RenderClient :
          /\ phase[c] # "open" => waiting[c] = "none"
          /\ phase[c] \in {"destroy", "closed"} =>
                worker.client # c /\ engine.owner # c

RingInv == EngineInv /\ RingKept /\ Stages

\* The owner gives the engine up or stays, what is named is kept, and a context
\* that changes goes to quarantine
Retained ==
    /\ engine'.owner \in {"none", engine.owner}
    /\ \/ engine'.ring = {}
       \/ /\ engine'.ring = engine.ring
          /\ \/ engine'.owner = engine.owner
             \/ engine.owner # "none" => context'[engine.owner] = "quarantined"
    /\ \/ context' = context
       \/ \E d : context' = [context EXCEPT ![d] = "quarantined"]

LEMMA RetainedKeeps ==
    ASSUME EngineInv, RingKept, Retained
    PROVE  RingKept'
<1>1. /\ context \in [RenderClient -> ContextStates]
      /\ engine.owner \in RenderClient \cup {"none"}
      /\ "none" \notin RenderClient
  BY RenderContextAssumption DEF EngineInv, Shape, EngineState
<1>2. \A m \in RenderClient :
         /\ context[m] # "none" => context'[m] # "none"
         /\ context[m] = "quarantined" => context'[m] = "quarantined"
  BY <1>1 DEF Retained
<1>3. engine'.owner # "none" => context'[engine'.owner] # "none"
  BY <1>1, <1>2 DEF Retained, RingKept
<1>4. ASSUME NEW m \in engine'.ring
      PROVE  /\ m \in RenderClient /\ context'[m] # "none"
             /\ m = engine'.owner \/ context'[m] = "quarantined"
  <2>1. m \in engine.ring /\ m \in RenderClient /\ context[m] # "none"
        /\ (m = engine.owner \/ context[m] = "quarantined")
    BY <1>4 DEF Retained, RingKept
  <2>2. m = engine.owner => m = engine'.owner \/ context'[m] = "quarantined"
    BY <1>1, <1>4, <2>1 DEF Retained
  <2> QED BY <1>2, <2>1, <2>2
<1> QED BY <1>3, <1>4 DEF RingKept

LEMMA RingNames ==
    ASSUME EngineInv, RingKept
    PROVE  /\ "private" \notin engine.ring /\ "freed" \notin engine.ring
           /\ \A c \in RenderClient :
                 context[c] = "ready" /\ c # engine.owner => c \notin engine.ring
BY RenderContextAssumption DEF RingKept

\* A release of ownership
LEMMA ReleaseRetains ==
    ASSUME EngineInv, ~RestoreFails, NEW expected, Releases(expected)
    PROVE  /\ Retained
           /\ engine'.owner = "none" \/ engine'.owner # expected
<1>1. PICK r \in ReleasePersistentRcsOwnership(expected, engine) : Release(expected, r)
  BY DEF Releases
<1>2. /\ \/ engine'.owner = "none"
         \/ engine'.owner = engine.owner /\ engine.owner # expected
      /\ \/ /\ engine'.ring = engine.ring
            /\ \/ engine'.owner = engine.owner /\ context' = context
               \/ /\ engine.owner # "none"
                  /\ context' = [context EXCEPT ![engine.owner] = "quarantined"]
         \/ /\ engine'.ring = {}
            /\ \/ context' = context
               \/ /\ engine.owner # "none"
                  /\ context' = [context EXCEPT ![engine.owner] = "quarantined"]
  BY <1>1, ReleaseStep
<1>3. /\ context \in [RenderClient -> ContextStates]
      /\ engine.owner \in RenderClient \cup {"none"}
  BY DEF EngineInv, Shape, EngineState
<1>4. engine.owner # "none" /\ context' = [context EXCEPT ![engine.owner] = "quarantined"]
        => context'[engine.owner] = "quarantined"
  BY <1>3
<1> QED BY <1>2, <1>4 DEF Retained

\* A context that is destroyed is not the owner's
LEMMA DestroyKeeps ==
    ASSUME EngineInv, RingKept, NEW c \in RenderClient, c # engine.owner, Destroys(c)
    PROVE  RingKept' /\ engine'.owner = engine.owner
<1>1. /\ context \in [RenderClient -> ContextStates]
      /\ engine.owner \in RenderClient \cup {"none"}
  BY DEF EngineInv, Shape, EngineState
<1>2. CASE context[c] = "ready"
  <2>1. ReleasePpgttResources(c)
    BY <1>2 DEF Destroys
  <2>2. c \notin engine.ring
    BY <1>2, RingNames
  <2>3. /\ engine'.owner = engine.owner /\ engine'.ring = engine.ring
        /\ \/ context' = [context EXCEPT ![c] = "quarantined"]
           \/ context' = [context EXCEPT ![c] = "none"]
    BY <2>1, <2>2, ReleasePpgttStep
  <2>4. \A m \in RenderClient : m # c => context'[m] = context[m]
    BY <1>1, <2>3
  <2> QED BY <1>1, <2>2, <2>3, <2>4 DEF RingKept
<1>3. CASE context[c] # "ready"
  BY <1>3 DEF Destroys, RingKept
<1> QED BY <1>2, <1>3

\* What a step may do to the stages while it moves no thread and no client
LEMMA StagesStay ==
    ASSUME Stages, UNCHANGED <<phase, waiting, worker, caller>>,
           engine'.owner \in {"none", engine.owner}
    PROVE  Stages'
BY RenderContextAssumption, ClientOf DEF Stages

LEMMA OneThread ==
    ASSUME ThreadCount = 1, NEW t \in RenderThread, NEW u \in RenderThread,
           Client(t) = Client(u)
    PROVE  t = u
BY DEF RenderThread, Client

LEMMA RingStep ==
    ASSUME ~RestoreFails, ThreadCount = 1, RingInv, [RenderContextNext]_contextVars
    PROVE  RingInv'
<1>1. EngineInv /\ EngineInv' /\ RingKept /\ Stages
  BY EngineStep DEF RingInv
<1>t. /\ context \in [RenderClient -> ContextStates]
      /\ waiting \in [RenderClient -> JobKind \cup {"none"}]
      /\ phase \in [RenderClient -> Phases]
      /\ caller \in [RenderThread -> CallerStages]
      /\ worker \in [stage : {"idle", "release", "submit", "retire"},
                     client : RenderClient \cup {"none"}, kind : JobKind \cup {"none"}]
      /\ worker.stage \in {"submit", "release"} => worker.client \in RenderClient
      /\ engine.owner \in RenderClient \cup {"none"}
      /\ "none" \notin RenderClient
  BY <1>1, RenderContextAssumption DEF EngineInv, Shape, EngineState
<1>o. \A t, u \in RenderThread : Client(t) = Client(u) => t = u
  <2>1. ThreadCount = 1
    OBVIOUS
  <2> QED BY <2>1, OneThread
<1>c. \A t \in RenderThread : Client(t) \in RenderClient
  BY ClientOf
<1>a. ASSUME RingKept', Stages' PROVE RingInv'
  BY <1>1, <1>a DEF RingInv
<1>b. ASSUME UNCHANGED <<engine, context>>, Stages' PROVE RingInv'
  BY <1>1, <1>a, <1>b DEF RingKept
<1>f. ~RestoreFails
  OBVIOUS
<1>w. ASSUME NEW s PROVE [worker EXCEPT !.stage = s].client = worker.client
  BY <1>t
<1>u. CASE UNCHANGED contextVars
  <2>1. UNCHANGED <<engine, context, phase, waiting, worker, caller>>
    BY <1>u DEF contextVars
  <2>2. Stages'
    BY <1>1, <2>1, StagesStay
  <2> QED BY <1>b, <2>1, <2>2
<1>3. CASE RenderContextNext
  <2>1. ASSUME NEW t \in RenderThread, CreateRenderContext(t)
        PROVE  RingInv'
    <3>1. /\ Same(engine', engine) /\ context[Client(t)] = "none"
          /\ context' = context \/ context' = [context EXCEPT ![Client(t)] = "ready"]
      BY <1>1, <2>1, CreateStep
    <3>2. \A c \in RenderClient : context[c] # "none" => context'[c] = context[c]
      BY <1>t, <3>1
    <3>3. RingKept'
      BY <1>1, <1>t, <3>1, <3>2 DEF RingKept, Same
    <3>4. Stages'
      BY <1>1, <2>1, <3>1, StagesStay DEF CreateRenderContext, Same
    <3> QED BY <1>a, <3>3, <3>4
  <2>2. ASSUME NEW t \in RenderThread, DestroyBegins(t)
        PROVE  RingInv'
    <3>1. /\ caller' = [caller EXCEPT ![t] = "release"] /\ phase[Client(t)] = "open"
          /\ waiting[Client(t)] = "none" /\ worker.client # Client(t)
          /\ UNCHANGED <<engine, context, phase, waiting, worker>>
      BY <2>2 DEF DestroyBegins, QueueBusy
    <3>2. Stages'
      BY <1>1, <1>t, <3>1 DEF Stages
    <3> QED BY <1>b, <3>1, <3>2
  <2>3. ASSUME NEW t \in RenderThread, DestroyReleases(t)
        PROVE  RingInv'
    <3>1. /\ Releases(Client(t)) /\ caller[t] = "release"
          /\ UNCHANGED <<phase, waiting, worker>>
          /\ \/ caller' = [caller EXCEPT ![t] = "destroy"]
             \/ caller' = [caller EXCEPT ![t] = "idle"]
      BY <2>3 DEF DestroyReleases, Releases
    <3>2. Retained /\ (engine'.owner = "none" \/ engine'.owner # Client(t))
      BY <1>1, <1>f, <3>1, ReleaseRetains
    <3>3. RingKept'
      BY <1>1, <3>2, RetainedKeeps
    <3>4. engine'.owner \in {"none", engine.owner} /\ engine'.owner # Client(t)
      BY <1>c, <1>t, <3>2 DEF Retained
    <3>5. Stages'
      BY <1>1, <1>c, <1>t, <3>1, <3>4 DEF Stages
    <3> QED BY <1>a, <3>3, <3>5
  <2>4. ASSUME NEW t \in RenderThread, DestroyEnds(t)
        PROVE  RingInv'
    <3>1. /\ UNCHANGED <<engine, context>> \/ Destroys(Client(t))
          /\ caller[t] = "destroy" /\ caller' = [caller EXCEPT ![t] = "idle"]
          /\ UNCHANGED <<phase, waiting, worker>>
      BY <2>4 DEF DestroyEnds, DestroyPpgttContextLocked, Destroys
    <3>2. RingKept' /\ engine'.owner = engine.owner
      <4>1. Client(t) # engine.owner
        BY <1>1, <3>1 DEF Stages
      <4>2. CASE UNCHANGED <<engine, context>>
        BY <1>1, <4>2 DEF RingKept
      <4> QED BY <1>1, <1>c, <3>1, <4>1, <4>2, DestroyKeeps
    <3>3. Stages'
      BY <1>1, <1>t, <3>1, <3>2 DEF Stages
    <3> QED BY <1>a, <3>2, <3>3
  <2>5. ASSUME NEW t \in RenderThread, Enqueue(t)
        PROVE  RingInv'
    <3>1. /\ caller[t] = "idle" /\ phase[Client(t)] = "open"
          /\ \E kind : waiting' = [waiting EXCEPT ![Client(t)] = kind]
          /\ UNCHANGED <<engine, context, phase, caller, worker>>
      BY <2>5 DEF Enqueue
    <3>2. \A u \in RenderThread : caller[u] # "idle" => Client(u) # Client(t)
      BY <1>o, <3>1
    <3>3. \A c \in RenderClient : c # Client(t) => waiting'[c] = waiting[c]
      BY <1>t, <3>1
    <3>4. Stages'
      BY <1>1, <1>c, <1>t, <3>1, <3>2, <3>3 DEF Stages
    <3> QED BY <1>b, <3>1, <3>4
  <2>6. ASSUME NEW t \in RenderThread, SyncBegins(t)
        PROVE  RingInv'
    <3>1. /\ Releases("any") /\ caller[t] = "idle" /\ phase[Client(t)] = "open"
          /\ UNCHANGED <<phase, waiting, worker>>
          /\ \E s \in {"submit", caller[t]} : caller' = [caller EXCEPT ![t] = s]
      BY <2>6 DEF SyncBegins, Releases
    <3>2. Retained /\ RingKept'
      BY <1>1, <1>f, <3>1, ReleaseRetains, RetainedKeeps
    <3>3. engine'.owner \in {"none", engine.owner}
      BY <3>2 DEF Retained
    <3>4. Stages'
      BY <1>1, <1>c, <1>t, <3>1, <3>3 DEF Stages
    <3> QED BY <1>a, <3>2, <3>4
  <2>7. ASSUME NEW by \in RenderThread \cup {"worker"}, NEW c, NEW persistent,
               Prepares(by, c, persistent)
        PROVE  RingInv'
    <3>1. /\ UNCHANGED <<engine, context, phase, waiting>>
          /\ SubmissionEnds(by, c) \/ UNCHANGED <<worker, caller>>
      BY <2>7 DEF Prepares
    <3>2. /\ worker'.client = worker.client
          /\ caller' = caller \/ caller' = [caller EXCEPT ![by] = "idle"]
      BY <1>w, <3>1 DEF SubmissionEnds
    <3>3. \A u \in RenderThread : caller'[u] \in {caller[u], "idle"}
      BY <1>t, <3>2
    <3>4. Stages'
      BY <1>1, <3>1, <3>2, <3>3 DEF Stages
    <3> QED BY <1>b, <3>1, <3>4
  <2>8. ASSUME NEW c \in RenderClient, WorkerTakes(c)
        PROVE  RingInv'
    <3>1. /\ worker'.client = c /\ waiting[c] # "none"
          /\ waiting' = [waiting EXCEPT ![c] = "none"]
          /\ UNCHANGED <<engine, context, phase, caller>>
      BY <2>8 DEF WorkerTakes
    <3>2. Stages'
      BY <1>1, <1>c, <1>t, <3>1 DEF Stages, Phases
    <3> QED BY <1>b, <3>1, <3>2
  <2>9. ASSUME NEW c \in RenderClient, CloseOpen(c)
        PROVE  RingInv'
    <3>1. /\ \A t \in RenderThread : Client(t) = c => caller[t] = "idle"
          /\ waiting' = [waiting EXCEPT ![c] = "none"]
          /\ phase' = [phase EXCEPT ![c] = "drain"]
          /\ UNCHANGED <<engine, context, worker, caller>>
      BY <2>9 DEF CloseOpen
    <3>2. Stages'
      BY <1>1, <1>c, <1>t, <3>1 DEF Stages
    <3> QED BY <1>b, <3>1, <3>2
  <2>10. ASSUME NEW c \in RenderClient, CloseDrain(c)
         PROVE  RingInv'
    <3>1. /\ Releases(c) /\ phase[c] = "drain" /\ worker.client # c
          /\ phase' = [phase EXCEPT ![c] = "destroy"]
          /\ UNCHANGED <<waiting, worker, caller>>
      BY <2>10 DEF CloseDrain
    <3>2. Retained /\ RingKept' /\ (engine'.owner = "none" \/ engine'.owner # c)
      BY <1>1, <1>f, <3>1, ReleaseRetains, RetainedKeeps
    <3>3. engine'.owner \in {"none", engine.owner} /\ engine'.owner # c
      BY <1>t, <3>2 DEF Retained
    <3>4. Stages'
      BY <1>1, <1>c, <1>t, <3>1, <3>3 DEF Stages
    <3> QED BY <1>a, <3>2, <3>4
  <2>11. ASSUME NEW c \in RenderClient, CloseDestroy(c)
         PROVE  RingInv'
    <3>1. /\ Destroys(c) /\ phase[c] = "destroy"
          /\ phase' = [phase EXCEPT ![c] = "closed"]
          /\ UNCHANGED <<waiting, worker, caller>>
      BY <2>11 DEF CloseDestroy
    <3>2. RingKept' /\ engine'.owner = engine.owner
      <4>1. c # engine.owner
        BY <1>1, <3>1 DEF Stages
      <4> QED BY <1>1, <3>1, <4>1, DestroyKeeps
    <3>3. Stages'
      BY <1>1, <1>c, <1>t, <3>1, <3>2 DEF Stages
    <3> QED BY <1>a, <3>2, <3>3
  <2>12. ASSUME NEW c \in RenderClient, RegisterClient(c)
         PROVE  RingInv'
    <3>1. /\ phase' = [phase EXCEPT ![c] = "open"]
          /\ UNCHANGED <<engine, context, waiting, worker, caller>>
      BY <2>12 DEF RegisterClient
    <3>2. Stages'
      BY <1>1, <1>c, <1>t, <3>1 DEF Stages
    <3> QED BY <1>b, <3>1, <3>2
  <2>13. CASE WorkerReleases
    <3>1. /\ Releases("any") /\ UNCHANGED <<phase, waiting, caller>>
          /\ \E s : worker' = [worker EXCEPT !.stage = s]
      BY <2>13 DEF WorkerReleases, Releases
    <3>2. Retained /\ RingKept' /\ worker'.client = worker.client
      BY <1>1, <1>f, <1>w, <3>1, ReleaseRetains, RetainedKeeps
    <3>3. engine'.owner \in {"none", engine.owner}
      BY <3>2 DEF Retained
    <3>4. Stages'
      BY <1>1, <1>c, <1>t, <3>1, <3>2, <3>3 DEF Stages
    <3> QED BY <1>a, <3>2, <3>4
  <2>14. CASE WorkerRetires
    <3>1. /\ worker'.client = "none"
          /\ waiting' \in {waiting, [waiting EXCEPT ![worker.client] = "none"]}
          /\ UNCHANGED <<engine, context, phase, caller>>
      BY <2>14 DEF WorkerRetires, WorkerIdle
    <3>2. \A c \in RenderClient : waiting'[c] \in {waiting[c], "none"}
      BY <1>t, <3>1
    <3>3. Stages'
      BY <1>1, <1>c, <1>t, <3>1, <3>2 DEF Stages
    <3> QED BY <1>b, <3>1, <3>3
  <2>15. CASE SubmitExecutes
    <3> DEFINE c == submission.client
    <3>1. /\ submission # NoSubmission /\ SubmissionEnds(submission.by, c)
          /\ UNCHANGED <<phase, waiting>>
          /\ context' = context \/ context' = [context EXCEPT ![c] = "quarantined"]
          /\ \/ engine'.owner = engine.owner /\ engine'.ring = engine.ring
             \/ engine'.owner = "none" /\ engine'.ring = {}
             \/ submission.persistent /\ engine'.owner = c /\ engine'.ring = {c}
      BY <1>1, <1>f, <2>15, RingNames, ExecuteStep
    <3>2. /\ c \in RenderClient /\ context[c] = "ready"
          /\ submission.persistent => worker.client = c
      BY <1>1, <3>1 DEF EngineInv, Shape
    <3>3. /\ worker'.client = worker.client
          /\ caller' = caller \/ \E by : caller' = [caller EXCEPT ![by] = "idle"]
      BY <1>w, <3>1 DEF SubmissionEnds
    <3>4. \A u \in RenderThread : caller'[u] \in {caller[u], "idle"}
      BY <1>t, <3>3
    <3>5. CASE submission.persistent /\ engine'.owner = c /\ engine'.ring = {c}
      <4>1. context'[c] # "none"
        BY <1>t, <3>1, <3>2
      <4>2. RingKept'
        BY <3>2, <3>5, <4>1 DEF RingKept
      <4>3. worker.client = engine'.owner
        BY <3>2, <3>5
      <4>4. Stages'
        BY <1>1, <1>c, <3>1, <3>3, <3>4, <4>3 DEF Stages
      <4> QED BY <1>a, <4>2, <4>4
    <3>6. CASE \/ engine'.owner = engine.owner /\ engine'.ring = engine.ring
               \/ engine'.owner = "none" /\ engine'.ring = {}
      <4>1. Retained
        BY <3>1, <3>6 DEF Retained
      <4>2. RingKept'
        BY <1>1, <4>1, RetainedKeeps
      <4>3. Stages'
        BY <1>1, <1>c, <1>t, <3>1, <3>3, <3>4, <3>6 DEF Stages
      <4> QED BY <1>a, <4>2, <4>3
    <3> QED BY <3>1, <3>5, <3>6
  <2>16. CASE OtherUse
    <3>1. /\ engine'.owner = engine.owner
          /\ UNCHANGED <<context, phase, waiting, worker, caller>>
          /\ engine'.ring = engine.ring \/ engine'.ring = {}
      BY <1>1, <1>f, <2>16, RingNames, OtherStep
    <3>2. Retained
      BY <3>1 DEF Retained
    <3>3. RingKept'
      BY <1>1, <3>2, RetainedKeeps
    <3>4. Stages'
      BY <1>1, <3>1, StagesStay
    <3> QED BY <1>a, <3>3, <3>4
  <2>17. ASSUME NEW t \in RenderThread, Prepares(t, Client(t), FALSE)
         PROVE  RingInv'
    BY <2>7, <2>17
  <2>18. ASSUME Prepares("worker", worker.client, worker.kind = "persistent")
         PROVE  RingInv'
    BY <2>7, <2>18
  <2> QED BY <1>1, <1>3, <2>1, <2>2, <2>3, <2>4, <2>5, <2>6, <2>8, <2>9, <2>10, <2>11,
             <2>12, <2>13, <2>14, <2>15, <2>16, <2>17, <2>18, StepCases
<1> QED BY <1>u, <1>3

\* The engine never refers to memory that was freed, for every number of
\* clients, each with one thread, whatever fails but a reset or a write that
\* restores the ring (README, Remarks).
THEOREM RingTheorem ==
    ASSUME GpuFault \cap {"reset", "restore"} = {}, ThreadCount = 1
    PROVE  RenderContextSpec => []ReferencedIsKept
<1>0. ~RestoreFails /\ ThreadCount = 1
  BY DEF RestoreFails
<1>1. RenderContextInit => RingInv
  <2> SUFFICES ASSUME RenderContextInit PROVE RingInv
    OBVIOUS
  <2>1. EngineInv
    BY EngineInit
  <2>2. engine.owner = "none" /\ engine.ring = {}
    BY DEF RenderContextInit, EngineAtBoot
  <2>3. worker.client = "none" /\ "none" \notin RenderClient
    BY RenderContextAssumption DEF RenderContextInit, WorkerIdle
  <2>4. RingKept /\ Stages
    BY <2>2, <2>3, ClientOf DEF RenderContextInit, RingKept, Stages
  <2> QED BY <2>1, <2>4 DEF RingInv
<1>2. RingInv /\ [RenderContextNext]_contextVars => RingInv'
  <2> SUFFICES ASSUME RingInv, [RenderContextNext]_contextVars PROVE RingInv'
    OBVIOUS
  <2> QED BY <1>0, RingStep, Zenon
<1>3. RingInv => ReferencedIsKept
  BY RingNames DEF RingInv, ReferencedIsKept
<1> QED BY <1>1, <1>2, <1>3, PTL DEF RenderContextSpec
===============================================================================
