------------------------ MODULE RenderResidency_proofs ------------------------
(***************************************************************************)
(* Proofs about the memory of a client of the render device, for any        *)
(* buffers, sizes, budget and queue and whatever calls of the kernel and     *)
(* table writes fail.                                                        *)
(***************************************************************************)
EXTENDS RenderResidency, FiniteSetTheorems, WellFoundedInduction, TLAPS

----------------------------------------------------------------------------
(* Folds along a sequence.                                                 *)

\* A set of natural numbers has a least element
LEMMA LeastNatural ==
    ASSUME NEW T, T \subseteq Nat, T # {}
    PROVE  \E n \in T : \A m \in T : n <= m
<1> DEFINE R == OpToRel(<, Nat)
<1>1. IsWellFoundedOn(R, Nat)
  BY NatLessThanWellFounded, Zenon
<1>2. \A m, n \in Nat : <<m, n>> \in R <=> m < n
  BY DEF OpToRel
<1> HIDE DEF R
<1>3. PICK n \in T : \A m \in T : ~(<<m, n>> \in R)
  BY <1>1, WFMin
<1>4. \A m \in T : m \in Nat /\ n \in Nat /\ ~(m < n)
  BY <1>2, <1>3
<1> QED  BY <1>4

\* What holds of 0 and of every successor up to len holds of len
LEMMA CountingUp ==
    ASSUME NEW len \in Nat, NEW T, 0 \in T, \A n \in 1 .. len : n - 1 \in T => n \in T
    PROVE  len \in T
<1> SUFFICES ASSUME len \notin T PROVE FALSE
  OBVIOUS
<1> DEFINE S == {n \in 0 .. len : n \notin T}
<1>1. S # {} /\ S \subseteq Nat
  OBVIOUS
<1> HIDE DEF S
<1>2. PICK n \in S : \A m \in S : n <= m
  BY <1>1, LeastNatural
<1> USE DEF S
<1>3. n \in 1 .. len /\ n - 1 \in 0 .. len
  BY <1>2
<1>4. n - 1 \in T
  BY <1>2, <1>3
<1> QED  BY <1>2, <1>3, <1>4

LEMMA LastOfRange ==
    ASSUME NEW s, NEW n \in Nat, s \subseteq 1 .. n, n \in s
    PROVE  Max(s) = n
<1>1. \A x \in s : (\A y \in s : x >= y) => x = n
  OBVIOUS
<1>2. n \in s /\ \A y \in s : n >= y
  OBVIOUS
<1> QED  BY <1>1, <1>2 DEF Max

LEMMA LastInside ==
    ASSUME NEW n \in Nat, NEW s \in SUBSET (1 .. n), s # {}
    PROVE  Max(s) \in s
<1> DEFINE T == {k \in 0 .. n : \A u \in SUBSET (1 .. k) : u = {} \/ Max(u) \in u}
<1>1. 0 \in T
  OBVIOUS
<1>2. ASSUME NEW k \in 1 .. n, k - 1 \in T PROVE k \in T
  <2>1. ASSUME NEW u \in SUBSET (1 .. k), u # {} PROVE Max(u) \in u
    <3>1. CASE k \in u
      <4>1. k \in Nat /\ u \subseteq 1 .. k
        BY <2>1
      <4>2. Max(u) = k
        BY <3>1, <4>1, LastOfRange
      <4> QED  BY <3>1, <4>2
    <3>2. CASE k \notin u
      <4>1. u \in SUBSET (1 .. (k - 1))
        BY <3>2
      <4> QED  BY <1>2, <2>1, <4>1
    <3> QED  BY <3>1, <3>2
  <2> QED  BY <2>1
<1> HIDE DEF T
<1>3. n \in T
  BY <1>1, <1>2, CountingUp
<1> QED  BY <1>3 DEF T

\* The recursive function of a fold exists when its step stays in a set
FoldEquation(g, F, base, seq, n) ==
    g = [s \in SUBSET (1 .. n) |->
            IF s = {} THEN base ELSE F[<<g[s \ {Max(s)}], seq[Max(s)]>>]]

LEMMA FoldExists ==
    ASSUME NEW V, NEW X, NEW base \in V, NEW seq \in Seq(X), NEW F \in [V \X X -> V]
    PROVE  \E g \in [SUBSET (1 .. Len(seq)) -> V] : FoldEquation(g, F, base, seq, Len(seq))
<1> DEFINE T == {n \in 0 .. Len(seq) :
                    \E g \in [SUBSET (1 .. n) -> V] : FoldEquation(g, F, base, seq, n)}
<1>1. 0 \in T
  <2> DEFINE g == [s \in SUBSET (1 .. 0) |-> base]
  <2>1. g \in [SUBSET (1 .. 0) -> V]
    OBVIOUS
  <2>2. \A s \in SUBSET (1 .. 0) : s = {}
    OBVIOUS
  <2>3. FoldEquation(g, F, base, seq, 0)
    BY <2>2 DEF FoldEquation
  <2> QED  BY <2>1, <2>3
<1>2. ASSUME NEW n \in 1 .. Len(seq), n - 1 \in T PROVE n \in T
  <2>1. PICK f \in [SUBSET (1 .. (n - 1)) -> V] : FoldEquation(f, F, base, seq, n - 1)
    BY <1>2
  <2> DEFINE g == [s \in SUBSET (1 .. n) |->
                      IF n \in s THEN F[<<f[s \ {n}], seq[n]>>] ELSE f[s]]
  <2>2. \A s \in SUBSET (1 .. n) : s \ {n} \in SUBSET (1 .. (n - 1))
    OBVIOUS
  <2>3. \A s \in SUBSET (1 .. n) : n \notin s => s \in SUBSET (1 .. (n - 1))
    OBVIOUS
  <2>4. seq[n] \in X
    OBVIOUS
  <2>5. g \in [SUBSET (1 .. n) -> V]
    BY <2>2, <2>3, <2>4
  <2>6. ASSUME NEW s \in SUBSET (1 .. n)
        PROVE  g[s] = IF s = {} THEN base ELSE F[<<g[s \ {Max(s)}], seq[Max(s)]>>]
    <3>1. CASE n \in s
      <4>0. n \in Nat /\ s \subseteq 1 .. n
        OBVIOUS
      <4>1. Max(s) = n
        BY <3>1, <4>0, LastOfRange
      <4>2. g[s \ {n}] = f[s \ {n}]
        BY <2>2
      <4> QED  BY <3>1, <4>1, <4>2
    <3>2. CASE n \notin s /\ s # {}
      <4>0. s \in SUBSET (1 .. (n - 1)) /\ n - 1 \in Nat
        BY <2>3, <3>2
      <4>1. Max(s) \in s
        BY <3>2, <4>0, LastInside
      <4>2. f[s] = F[<<f[s \ {Max(s)}], seq[Max(s)]>>]
        <5>1. \A u \in SUBSET (1 .. (n - 1)) :
                 f[u] = IF u = {} THEN base ELSE F[<<f[u \ {Max(u)}], seq[Max(u)]>>]
          BY <2>1, Zenon DEF FoldEquation
        <5> QED  BY <3>2, <4>0, <5>1, Zenon
      <4>3. g[s] = f[s] /\ g[s \ {Max(s)}] = f[s \ {Max(s)}]
        BY <3>2, <4>1
      <4> QED  BY <3>2, <4>2, <4>3
    <3>3. CASE s = {}
      <4>1. f[{}] = base
        BY <2>1 DEF FoldEquation
      <4> QED  BY <3>3, <4>1
    <3> QED  BY <3>1, <3>2, <3>3
  <2>7. g = [s \in SUBSET (1 .. n) |->
                IF s = {} THEN base ELSE F[<<g[s \ {Max(s)}], seq[Max(s)]>>]]
    <3>1. g = [s \in SUBSET (1 .. n) |-> g[s]]
      OBVIOUS
    <3> HIDE DEF g
    <3> QED  BY <2>6, <3>1
  <2>8. FoldEquation(g, F, base, seq, n)
    BY <2>7 DEF FoldEquation
  <2> HIDE DEF g
  <2> QED  BY <2>5, <2>8
<1>3. Len(seq) \in T
  <2> HIDE DEF T
  <2> QED  BY <1>1, <1>2, CountingUp
<1> QED  BY <1>3

LEMMA LastRemoved ==
    ASSUME NEW n \in Nat, n # 0
    PROVE  1 .. n # {} /\ Max(1 .. n) = n /\ (1 .. n) \ {n} = 1 .. (n - 1)
<1>1. n \in 1 .. n
  OBVIOUS
<1>2. Max(1 .. n) = n
  BY <1>1, LastOfRange
<1> QED  BY <1>1, <1>2

\* What a fold computes after each element: h[n] after the first n
Runs(h, F, base, seq) ==
    /\ h[0] = base
    /\ \A n \in 1 .. Len(seq) : h[n] = F[<<h[n - 1], seq[n]>>]

\* A property that each element leads from W[n - 1] to W[n] holds at the end
LEMMA RunsInvariant ==
    ASSUME NEW h, NEW W, NEW len \in Nat, h[0] \in W[0],
           \A n \in 1 .. len : h[n - 1] \in W[n - 1] => h[n] \in W[n]
    PROVE  h[len] \in W[len]
<1> DEFINE T == {n \in 0 .. len : h[n] \in W[n]}
<1>1. 0 \in T
  OBVIOUS
<1>2. \A n \in 1 .. len : n - 1 \in T => n \in T
  OBVIOUS
<1> HIDE DEF T
<1>3. len \in T
  BY <1>1, <1>2, CountingUp
<1> QED  BY <1>3 DEF T
----------------------------------------------------------------------------
(* What a fold over sets of records leaves.                                *)

LEMMA LastElement ==
    ASSUME NEW X, NEW seq \in Seq(X), NEW s \in SUBSET (1 .. Len(seq)), s # {}
    PROVE  s \ {Max(s)} \in SUBSET (1 .. Len(seq)) /\ seq[Max(s)] \in X
<1>1. Len(seq) \in Nat
  OBVIOUS
<1>2. Max(s) \in s
  BY <1>1, LastInside
<1>3. \A k \in s : seq[k] \in X
  OBVIOUS
<1> QED  BY <1>2, <1>3, Zenon

\* The values after each element of the function c that a fold chooses
Along(c, seq) == [n \in 0 .. Len(seq) |-> c[1 .. n]]

\* c solves the equation of the fold of F, as long as its values are in V
Chosen(c, F, base, seq, V) ==
    /\ c[{}] = base
    /\ \A s \in SUBSET (1 .. Len(seq)) :
           s # {} /\ c[s \ {Max(s)}] \in V =>
               c[s] = F[<<c[s \ {Max(s)}], seq[Max(s)]>>]

\* A function chosen by the equation of a fold runs as the fold does
LEMMA ChosenRuns ==
    ASSUME NEW V, NEW X, NEW base \in V, NEW seq \in Seq(X), NEW F \in [V \X X -> V],
           NEW c, Chosen(c, F, base, seq, V)
    PROVE  /\ Runs(Along(c, seq), F, base, seq)
           /\ \A n \in 0 .. Len(seq) : Along(c, seq)[n] \in V
           /\ c[1 .. Len(seq)] = Along(c, seq)[Len(seq)]
           /\ c[1 .. Len(seq)] \in V
<1> DEFINE h == [n \in 0 .. Len(seq) |-> c[1 .. n]]
<1>0. Len(seq) \in Nat /\ \A n \in 1 .. Len(seq) : seq[n] \in X
  OBVIOUS
<1>1. h[0] = base
  <2>1. 1 .. 0 = {}
    OBVIOUS
  <2> QED  BY <1>0, <2>1 DEF Chosen
<1>2. ASSUME NEW n \in 1 .. Len(seq), h[n - 1] \in V
      PROVE  h[n] = F[<<h[n - 1], seq[n]>>] /\ h[n] \in V
  <2>1. n \in Nat /\ n # 0 /\ n \in 0 .. Len(seq) /\ n - 1 \in 0 .. Len(seq)
    BY <1>0
  <2>2. 1 .. n # {} /\ Max(1 .. n) = n /\ (1 .. n) \ {n} = 1 .. (n - 1)
    BY <2>1, LastRemoved
  <2>3. 1 .. n \in SUBSET (1 .. Len(seq))
    BY <1>0
  <2>4. h[n] = c[1 .. n] /\ h[n - 1] = c[1 .. (n - 1)]
    BY <2>1
  <2> HIDE DEF h
  <2>5. h[n] = F[<<h[n - 1], seq[n]>>]
    BY <1>2, <2>2, <2>3, <2>4 DEF Chosen
  <2>6. <<h[n - 1], seq[n]>> \in V \X X
    BY <1>0, <1>2
  <2> QED  BY <2>5, <2>6
<1> HIDE DEF h
<1>3. \A n \in 0 .. Len(seq) : h[n] \in V
  <2> DEFINE T == {n \in 0 .. Len(seq) : h[n] \in V}
  <2>1. 0 \in T
    BY <1>0, <1>1
  <2>2. ASSUME NEW k \in 0 .. Len(seq) PROVE k \in T
    <3>1. ASSUME NEW n \in 1 .. k, n - 1 \in T PROVE n \in T
      <4>1. n \in 1 .. Len(seq) /\ n \in 0 .. Len(seq) /\ h[n - 1] \in V
        BY <1>0, <3>1
      <4>2. h[n] \in V
        BY <1>2, <4>1
      <4> QED  BY <4>1, <4>2
    <3>2. k \in Nat
      OBVIOUS
    <3> HIDE DEF T
    <3> QED  BY <2>1, <3>1, <3>2, CountingUp
  <2> QED  BY <2>2
<1>4. \A n \in 1 .. Len(seq) : n - 1 \in 0 .. Len(seq)
  BY <1>0
<1>5. Runs(h, F, base, seq)
  BY <1>1, <1>2, <1>3, <1>4 DEF Runs
<1>6. h = Along(c, seq)
  BY DEF h, Along
<1>7. c[1 .. Len(seq)] = h[Len(seq)] /\ h[Len(seq)] \in V
  BY <1>0, <1>3 DEF h
<1> QED  BY <1>3, <1>5, <1>6, <1>7

----------------------------------------------------------------------------
(* The memory of a client.                                                 *)

MemoryState ==
    [open : SUBSET Buffer, resident : SUBSET Buffer, quarantined : SUBSET Buffer,
     closing : SUBSET Buffer, mapped : SUBSET Buffer, bound : SUBSET Buffer,
     domain : [Buffer -> {"cpu", "bcs", "rcs"}], refs : [Buffer -> Int],
     lru : Seq(Buffer), bytes : Int, ready : BOOLEAN, kept : BOOLEAN,
     unsafe : BOOLEAN, faulted : BOOLEAN, wired : SUBSET Buffer,
     named : SUBSET Buffer, global : SUBSET Buffer, ok : BOOLEAN, own : BOOLEAN]

\* What a table names is wired, and it is known why it is named: by the mapping
\* of a buffer, or because the buffer is quarantined
Accounted(m) ==
    /\ m.named \cup m.global \cup m.resident \subseteq m.wired
    /\ m.named \subseteq m.mapped \cup m.quarantined
    /\ m.global \subseteq m.bound \cup m.quarantined
    /\ m.bound \subseteq m.resident \cap m.global

\* While the device is usable nothing is quarantined and every resident mapping
\* is in the page tables
Trusted(m) ==
    Usable(m) => /\ m.quarantined = {} /\ ~m.kept
                 /\ m.mapped \cap m.resident \subseteq m.named

Sound == {m \in MemoryState : Accounted(m) /\ Trusted(m) /\ IsFiniteSet(m.open)}

\* Buffers that must not be evicted
Needed(m) == {b \in Buffer : m.refs[b] # 0 \/ m.domain[b] # "cpu"}

\* What evicting some buffers and bringing one back leaves as it is
EvictKeeps(m, x) ==
    /\ x.open = m.open /\ x.closing = m.closing /\ x.mapped = m.mapped
    /\ x.bound = m.bound /\ x.domain = m.domain /\ x.refs = m.refs
    /\ x.global = m.global
    /\ Usable(x) => Usable(m) /\ Needed(m) \cap m.resident \subseteq x.resident
    /\ m.quarantined \subseteq x.quarantined

LEMMA LeastOf ==
    ASSUME NEW T, T \subseteq Nat, T # {}
    PROVE  Min(T) \in T
BY LeastNatural DEF Min

LEMMA RemoveTypes ==
    ASSUME NEW X, NEW s \in Seq(X), NEW e
    PROVE  RemoveFirst(s, e) \in Seq(X)
<1> DEFINE I == {i \in 1 .. Len(s) : s[i] = e}
           k == SelectInSeq(s, LAMBDA v : v = e)
<1> SUFFICES ASSUME I # {} PROVE RemoveAt(s, k) \in Seq(X)
  BY DEF RemoveFirst
<1>1. k = Min(I)
  BY DEF SelectInSeq
<1>2. I \subseteq Nat
  OBVIOUS
<1>3. k \in I
  BY <1>1, <1>2, LeastOf
<1>4. k \in 1 .. Len(s)
  BY <1>3
<1> HIDE DEF k
<1>5. SubSeq(s, 1, k - 1) \in Seq(X) /\ SubSeq(s, k + 1, Len(s)) \in Seq(X)
  BY <1>4
<1> QED  BY <1>5 DEF RemoveAt

LEMMA TouchTypes ==
    ASSUME NEW m \in MemoryState, NEW b \in Buffer
    PROVE  /\ RemoveFirst(m.lru, b) \in Seq(Buffer)
           /\ Append(RemoveFirst(m.lru, b), b) \in Seq(Buffer)
<1>1. m.lru \in Seq(Buffer)
  BY DEF MemoryState
<1>2. RemoveFirst(m.lru, b) \in Seq(Buffer)
  BY <1>1, RemoveTypes
<1> QED  BY <1>2
----------------------------------------------------------------------------
(* One buffer leaves the resident set.                                     *)

\* A record of which only a few fields are told
LEMMA StuckRecord ==
    ASSUME NEW m \in MemoryState, NEW b \in Buffer, NEW x \in Stuck(b, m)
    PROVE  /\ x = [m EXCEPT !.ready = FALSE, !.kept = TRUE, !.unsafe = TRUE,
                            !.quarantined = @ \cup {b}, !.ok = FALSE]
           /\ x \in MemoryState
<1>1. x = [m EXCEPT !.ready = FALSE, !.kept = TRUE, !.unsafe = TRUE,
                    !.quarantined = @ \cup {b}, !.ok = FALSE]
  BY DEF Stuck, Refused, QuarantinePpgtt, MemoryState
<1> QED  BY <1>1 DEF MemoryState

LEMMA StuckSound ==
    ASSUME NEW m \in Sound, NEW b \in Buffer, NEW x \in Stuck(b, m)
    PROVE  x \in Sound /\ EvictKeeps(m, x) /\ ~x.ok /\ ~Usable(x)
           /\ x.resident = m.resident
<1>1. m \in MemoryState
  BY DEF Sound
<1>2. /\ x = [m EXCEPT !.ready = FALSE, !.kept = TRUE, !.unsafe = TRUE,
                       !.quarantined = @ \cup {b}, !.ok = FALSE]
      /\ x \in MemoryState
  BY <1>1, StuckRecord
<1>3. ~x.ok /\ ~Usable(x) /\ x.resident = m.resident
  BY <1>1, <1>2 DEF Usable, MemoryState
<1>4. Accounted(x) /\ IsFiniteSet(x.open)
  BY <1>1, <1>2 DEF Sound, Accounted, MemoryState
<1>5. EvictKeeps(m, x)
  BY <1>1, <1>2, <1>3 DEF EvictKeeps, MemoryState
<1> QED  BY <1>2, <1>3, <1>4, <1>5 DEF Sound, Trusted

LEMMA RefusedSound ==
    ASSUME NEW m \in Sound, NEW x \in Refused(m)
    PROVE  x \in Sound /\ EvictKeeps(m, x) /\ ~x.ok /\ x.resident = m.resident
           /\ (Usable(x) <=> Usable(m)) /\ x.named = m.named
           /\ x.quarantined = m.quarantined
<1>1. m \in MemoryState /\ x = [m EXCEPT !.ok = FALSE]
  BY DEF Sound, Refused
<1>2. x \in MemoryState /\ ~x.ok /\ (Usable(x) <=> Usable(m))
      /\ x.resident = m.resident /\ x.named = m.named /\ x.quarantined = m.quarantined
  BY <1>1 DEF Usable, MemoryState
<1>3. Accounted(x) /\ IsFiniteSet(x.open) /\ Trusted(x)
  BY <1>1, <1>2 DEF Sound, Accounted, Trusted, MemoryState, Usable
<1>5. EvictKeeps(m, x)
  BY <1>1, <1>2 DEF EvictKeeps, MemoryState, Needed
<1> QED  BY <1>2, <1>3, <1>5 DEF Sound

\* The record after an eviction that went well
Evicted(b, m) ==
    [m EXCEPT !.named = @ \ {b}, !.wired = @ \ {b}, !.resident = @ \ {b},
              !.bytes = @ - BufferSize[b], !.lru = RemoveFirst(@, b)]

LEMMA EvictedSound ==
    ASSUME NEW m \in Sound, NEW b \in Buffer, CanEvictRenderBuffer(b, m)
    PROVE  Evicted(b, m) \in Sound /\ EvictKeeps(m, Evicted(b, m))
           /\ Evicted(b, m).resident = m.resident \ {b}
<1>1. m \in MemoryState
  BY DEF Sound
<1> DEFINE x == Evicted(b, m)
<1>2. x \in MemoryState
  <2>1. RemoveFirst(m.lru, b) \in Seq(Buffer)
    BY <1>1, TouchTypes
  <2>2. m.bytes - BufferSize[b] \in Int
    BY <1>1, RenderResidencyAssumption DEF MemoryState
  <2> QED  BY <1>1, <2>1, <2>2 DEF Evicted, MemoryState
<1>3. /\ x.named = m.named \ {b} /\ x.wired = m.wired \ {b}
      /\ x.resident = m.resident \ {b}
      /\ x.open = m.open /\ x.closing = m.closing /\ x.mapped = m.mapped
      /\ x.bound = m.bound /\ x.domain = m.domain /\ x.refs = m.refs
      /\ x.global = m.global /\ x.quarantined = m.quarantined
      /\ x.kept = m.kept /\ x.unsafe = m.unsafe /\ x.faulted = m.faulted
  BY <1>1 DEF Evicted, MemoryState
<1> HIDE DEF x
<1>4. Accounted(x)
  BY <1>3 DEF Sound, Accounted, CanEvictRenderBuffer
<1>5. Trusted(x) /\ IsFiniteSet(x.open)
  BY <1>3 DEF Sound, Trusted, Usable
<1>6. EvictKeeps(m, x)
  BY <1>3 DEF EvictKeeps, Usable, Needed, CanEvictRenderBuffer
<1>7. x \in Sound /\ EvictKeeps(m, x) /\ x.resident = m.resident \ {b}
  BY <1>2, <1>3, <1>4, <1>5, <1>6 DEF Sound
<1> QED  BY <1>7 DEF x

LEMMA EvictStepSound ==
    ASSUME NEW m \in Sound, m.ok, NEW b \in Buffer,
           NEW x \in EvictRenderBufferBacking(b, m)
    PROVE  x \in Sound /\ EvictKeeps(m, x) /\ x.resident \subseteq m.resident
<1>0. m \in MemoryState
  BY DEF Sound
<1>1. CASE x \in Refused(m)
  BY <1>1, RefusedSound
<1>2. CASE CanEvictRenderBuffer(b, m) /\ x \notin Refused(m)
  <2> DEFINE unwire(y) ==
            {[y EXCEPT !.wired = @ \ {b}, !.resident = @ \ {b},
                       !.bytes = @ - BufferSize[b],
                       !.lru = RemoveFirst(y.lru, b)]}
            \cup IfFails("unlock", Stuck(b, y))
  <2>1. x \in Then(ReplaceRenderBufferPpgttWithScratch(b, m), unwire)
    BY <1>2 DEF EvictRenderBufferBacking
  <2>2. PICK y \in ReplaceRenderBufferPpgttWithScratch(b, m) :
            x \in IF y.ok THEN unwire(y) ELSE {y}
    BY <2>1 DEF Then
  <2>3. CASE y \in Stuck(b, m)
    <3>1. ~y.ok
      BY <2>3, StuckSound
    <3> QED  BY <2>2, <2>3, <3>1, StuckSound
  <2>4. CASE y = [m EXCEPT !.named = @ \ {b}]
    <3>1. y \in MemoryState /\ y.lru = m.lru
      BY <1>0, <2>4 DEF MemoryState
    <3>2. CASE x = Evicted(b, m)
      BY <1>2, <3>2, EvictedSound
    <3>3. CASE x \in Stuck(b, y)
      <4> DEFINE z == [m EXCEPT !.ready = FALSE, !.kept = TRUE, !.unsafe = TRUE,
                                !.quarantined = @ \cup {b}, !.ok = FALSE]
      <4>1. z \in Stuck(b, m)
        BY DEF Stuck, Refused, QuarantinePpgtt
      <4>2. z \in Sound /\ EvictKeeps(m, z) /\ ~Usable(z) /\ z.resident = m.resident
        BY <4>1, StuckSound
      <4>3. z \in MemoryState
        BY <4>2 DEF Sound
      <4>4. x = [z EXCEPT !.named = @ \ {b}] /\ x \in MemoryState
        <5>1. x = [y EXCEPT !.ready = FALSE, !.kept = TRUE, !.unsafe = TRUE,
                            !.quarantined = @ \cup {b}, !.ok = FALSE]
              /\ x \in MemoryState
          BY <3>1, <3>3, StuckRecord
        <5> QED  BY <1>0, <2>4, <5>1 DEF MemoryState
      <4> HIDE DEF z
      <4>5. /\ x.named = z.named \ {b} /\ x.wired = z.wired
            /\ x.resident = z.resident
            /\ x.open = z.open /\ x.closing = z.closing /\ x.mapped = z.mapped
            /\ x.bound = z.bound /\ x.domain = z.domain /\ x.refs = z.refs
            /\ x.global = z.global /\ x.quarantined = z.quarantined
            /\ x.kept = z.kept /\ x.unsafe = z.unsafe /\ x.faulted = z.faulted
        BY <4>3, <4>4 DEF MemoryState
      <4>6. Accounted(x) /\ IsFiniteSet(x.open) /\ ~Usable(x)
        BY <4>2, <4>5 DEF Sound, Accounted, Usable
      <4>7. EvictKeeps(m, x)
        BY <4>2, <4>5, <4>6 DEF EvictKeeps
      <4> QED  BY <4>2, <4>4, <4>5, <4>6, <4>7 DEF Sound, Trusted
    <3>4. x = Evicted(b, m) \/ x \in Stuck(b, y)
      <4>1. y.ok
        BY <1>0, <2>4 DEF MemoryState
      <4>2. x \in unwire(y)
        BY <2>2, <4>1
      <4>3. [y EXCEPT !.wired = @ \ {b}, !.resident = @ \ {b},
                      !.bytes = @ - BufferSize[b],
                      !.lru = RemoveFirst(y.lru, b)] = Evicted(b, m)
        BY <1>0, <2>4, <3>1 DEF Evicted, MemoryState
      <4> QED  BY <4>2, <4>3 DEF IfFails
    <3> QED  BY <3>2, <3>3, <3>4
  <2>5. y \in Stuck(b, m) \/ y = [m EXCEPT !.named = @ \ {b}]
    BY <2>2 DEF ReplaceRenderBufferPpgttWithScratch, IfFails
  <2> QED  BY <2>3, <2>4, <2>5
<1> QED  BY <1>1, <1>2 DEF EvictRenderBufferBacking
----------------------------------------------------------------------------
(* Making room.                                                            *)

LEMMA KeepsNothing ==
    ASSUME NEW m
    PROVE  EvictKeeps(m, m)
BY DEF EvictKeeps

LEMMA KeepsTwice ==
    ASSUME NEW m, NEW y, NEW x, EvictKeeps(m, y), EvictKeeps(y, x)
    PROVE  EvictKeeps(m, x)
BY DEF EvictKeeps, Needed

\* One candidate of EnsureClientResidentBudget
EvictStep(m, size, S, b) ==
    Then(S, LAMBDA x : IF x.bytes <= Budget - size
                              \/ ~(b \in m.open /\ CanEvictRenderBuffer(b, m))
                       THEN {x} ELSE EvictRenderBufferBacking(b, x))
EvictAll(m, size) == FoldLeft(LAMBDA S, b : EvictStep(m, size, S, b), {m}, m.lru)

LEMMA EvictAllSound ==
    ASSUME NEW m \in Sound, NEW size, NEW x \in EvictAll(m, size)
    PROVE  x \in Sound /\ EvictKeeps(m, x) /\ x.resident \subseteq m.resident
<1> DEFINE V == SUBSET {y \in Sound : EvictKeeps(m, y) /\ y.resident \subseteq m.resident}
           F == [p \in V \X Buffer |-> EvictStep(m, size, p[1], p[2])]
           Solves(g) == g = [s \in SUBSET (1 .. Len(m.lru)) |->
                                IF s = {} THEN {m}
                                ELSE EvictStep(m, size, g[s \ {Max(s)}], m.lru[Max(s)])]
<1>1. m.lru \in Seq(Buffer) /\ DOMAIN m.lru = 1 .. Len(m.lru) /\ {m} \in V
  <2>1. m.lru \in Seq(Buffer)
    BY DEF Sound, MemoryState
  <2> QED  BY <2>1, KeepsNothing
<1>2. F \in [V \X Buffer -> V]
  <2>1. ASSUME NEW S \in V, NEW b \in Buffer PROVE EvictStep(m, size, S, b) \in V
    <3>1. ASSUME NEW y \in EvictStep(m, size, S, b)
          PROVE  y \in Sound /\ EvictKeeps(m, y) /\ y.resident \subseteq m.resident
      <4>1. PICK z \in S : \/ y = z
                           \/ z.ok /\ y \in EvictRenderBufferBacking(b, z)
        BY <3>1 DEF EvictStep, Then
      <4>2. z \in Sound /\ EvictKeeps(m, z) /\ z.resident \subseteq m.resident
        BY <4>1
      <4>3. ASSUME z.ok, y \in EvictRenderBufferBacking(b, z)
            PROVE  y \in Sound /\ EvictKeeps(z, y) /\ y.resident \subseteq z.resident
        BY <4>2, <4>3, EvictStepSound
      <4> QED  BY <4>1, <4>2, <4>3, KeepsTwice
    <3> QED  BY <3>1
  <2> HIDE DEF V
  <2> QED  BY <2>1
<1> HIDE DEF V
<1>3. \A S \in V, b \in Buffer : F[<<S, b>>] = EvictStep(m, size, S, b)
  OBVIOUS
<1> HIDE DEF F
<1>4. PICK f \in [SUBSET (1 .. Len(m.lru)) -> V] : FoldEquation(f, F, {m}, m.lru, Len(m.lru))
  BY <1>1, <1>2, FoldExists
<1>5. Solves(f)
  <2>1. ASSUME NEW s \in SUBSET (1 .. Len(m.lru)), s # {}
        PROVE  F[<<f[s \ {Max(s)}], m.lru[Max(s)]>>]
                   = EvictStep(m, size, f[s \ {Max(s)}], m.lru[Max(s)])
    BY <1>1, <1>3, <2>1, LastElement
  <2> QED  BY <1>4, <2>1, Zenon DEF FoldEquation
<1> DEFINE c == CHOOSE g : Solves(g)
<1>6. EvictAll(m, size) = c[1 .. Len(m.lru)]
  <2>1. EvictAll(m, size) =
            (CHOOSE g : g = [s \in SUBSET DOMAIN m.lru |->
                IF s = {} THEN {m}
                ELSE EvictStep(m, size, g[s \ {Max(s)}], m.lru[Max(s)])])[DOMAIN m.lru]
    BY Zenon DEF EvictAll, FoldLeft, MapThenFoldSet
  <2> QED  BY <1>1, <2>1, Zenon
<1>7. Solves(c)
  BY <1>5, Zenon
<1> HIDE DEF c
<1>8. c[{}] = {m} /\ \A s \in SUBSET (1 .. Len(m.lru)) :
          s # {} => c[s] = EvictStep(m, size, c[s \ {Max(s)}], m.lru[Max(s)])
  <2>1. \A s \in SUBSET (1 .. Len(m.lru)) :
            c[s] = IF s = {} THEN {m}
                   ELSE EvictStep(m, size, c[s \ {Max(s)}], m.lru[Max(s)])
    BY <1>7, Zenon
  <2>2. {} \in SUBSET (1 .. Len(m.lru))
    OBVIOUS
  <2> QED  BY <2>1, <2>2, Zenon
<1>9. Chosen(c, F, {m}, m.lru, V)
  BY <1>1, <1>3, <1>8, LastElement DEF Chosen
<1>10. c[1 .. Len(m.lru)] \in V
  BY <1>1, <1>2, <1>9, ChosenRuns
<1>11. EvictAll(m, size) \in V
  BY <1>6, <1>10
<1> QED  BY <1>11 DEF V
LEMMA EnsureSound ==
    ASSUME NEW m \in Sound, NEW size, NEW x \in EnsureClientResidentBudget(size, m)
    PROVE  x \in Sound /\ EvictKeeps(m, x) /\ x.resident \subseteq m.resident
<1>1. EnsureClientResidentBudget(size, m)
          = Then(EvictAll(m, size), LAMBDA y : Guarded(y.bytes <= Budget - size, y))
  BY Zenon DEF EnsureClientResidentBudget, EvictAll, EvictStep
<1>2. PICK y \in EvictAll(m, size) : x = y \/ x \in Refused(y)
  BY <1>1 DEF Then, Guarded
<1>3. y \in Sound /\ EvictKeeps(m, y) /\ y.resident \subseteq m.resident
  BY EvictAllSound
<1>4. ASSUME x \in Refused(y) PROVE x \in Sound /\ EvictKeeps(y, x) /\ x.resident = y.resident
  BY <1>3, <1>4, RefusedSound
<1> QED  BY <1>2, <1>3, <1>4, KeepsTwice

----------------------------------------------------------------------------
(* A buffer comes back.                                                    *)

\* MakeRenderBufferResident once the pages are wired
Counted(b, r) == [r EXCEPT !.resident = @ \cup {b}, !.bytes = @ + BufferSize[b]]
Restored(b, z) ==
    {IF r.ok THEN Touch(b, Counted(b, r))
     ELSE IF b \in r.quarantined THEN Counted(b, r)
     ELSE [r EXCEPT !.wired = @ \ {b}] : r \in RestoreRenderBufferPpgtt(b, z)}

LEMMA CountedRecord ==
    ASSUME NEW r \in MemoryState, NEW b \in Buffer
    PROVE  /\ Counted(b, r) \in MemoryState
           /\ Touch(b, Counted(b, r)) \in MemoryState
           /\ \A x \in {Counted(b, r), Touch(b, Counted(b, r))} :
                 /\ x.resident = r.resident \cup {b} /\ x.open = r.open
                 /\ x.closing = r.closing /\ x.mapped = r.mapped /\ x.bound = r.bound
                 /\ x.domain = r.domain /\ x.refs = r.refs /\ x.global = r.global
                 /\ x.quarantined = r.quarantined
                 /\ x.kept = r.kept /\ x.unsafe = r.unsafe /\ x.faulted = r.faulted
                 /\ x.named = r.named /\ x.wired = r.wired /\ x.ok = r.ok
<1> DEFINE c == Counted(b, r)
<1>1. r.bytes + BufferSize[b] \in Int
  BY RenderResidencyAssumption DEF MemoryState
<1>2. /\ c \in MemoryState
      /\ c.resident = r.resident \cup {b} /\ c.open = r.open
      /\ c.closing = r.closing /\ c.mapped = r.mapped /\ c.bound = r.bound
      /\ c.domain = r.domain /\ c.refs = r.refs /\ c.global = r.global
      /\ c.quarantined = r.quarantined
      /\ c.kept = r.kept /\ c.unsafe = r.unsafe /\ c.faulted = r.faulted
      /\ c.named = r.named /\ c.wired = r.wired /\ c.ok = r.ok
  BY <1>1 DEF Counted, MemoryState
<1> HIDE DEF c
<1> DEFINE t == Touch(b, c)
<1>3. Append(RemoveFirst(c.lru, b), b) \in Seq(Buffer)
  BY <1>2, TouchTypes
<1>4. /\ t \in MemoryState
      /\ t.resident = c.resident /\ t.open = c.open
      /\ t.closing = c.closing /\ t.mapped = c.mapped /\ t.bound = c.bound
      /\ t.domain = c.domain /\ t.refs = c.refs /\ t.global = c.global
      /\ t.quarantined = c.quarantined
      /\ t.kept = c.kept /\ t.unsafe = c.unsafe /\ t.faulted = c.faulted
      /\ t.named = c.named /\ t.wired = c.wired /\ t.ok = c.ok
  BY <1>2, <1>3 DEF Touch, MemoryState
<1> HIDE DEF t
<1>5. \A x \in {c, t} :
         /\ x.resident = r.resident \cup {b} /\ x.open = r.open
         /\ x.closing = r.closing /\ x.mapped = r.mapped /\ x.bound = r.bound
         /\ x.domain = r.domain /\ x.refs = r.refs /\ x.global = r.global
         /\ x.quarantined = r.quarantined
         /\ x.kept = r.kept /\ x.unsafe = r.unsafe /\ x.faulted = r.faulted
         /\ x.named = r.named /\ x.wired = r.wired /\ x.ok = r.ok
  BY <1>2, <1>4
<1> QED  BY <1>2, <1>4, <1>5 DEF c, t

\* A record that differs from y in named, wired, resident and quarantined only
LEMMA RestoredStep ==
    ASSUME NEW y \in Sound, NEW b \in Buffer, b \in y.mapped, b \notin y.resident,
           NEW x \in MemoryState,
           x.open = y.open, x.closing = y.closing, x.mapped = y.mapped,
           x.bound = y.bound, x.domain = y.domain, x.refs = y.refs,
           x.global = y.global, x.faulted = y.faulted,
           y.quarantined \subseteq x.quarantined,
           \/ /\ x.resident = y.resident \cup {b} /\ x.wired = y.wired \cup {b}
              /\ \/ /\ x.named = y.named \cup {b} /\ x.quarantined = y.quarantined
                    /\ x.kept = y.kept /\ x.unsafe = y.unsafe
                 \/ x.named \subseteq y.named \cup {b} /\ ~Usable(x)
           \/ /\ x.resident = y.resident /\ x.wired = y.wired \ {b}
              /\ x.named = y.named /\ b \notin x.named \cup x.quarantined
              /\ x.quarantined = y.quarantined /\ x.kept = y.kept
              /\ x.unsafe = y.unsafe
    PROVE  x \in Sound /\ EvictKeeps(y, x)
<1>1. Accounted(x) /\ IsFiniteSet(x.open)
  BY DEF Sound, Accounted
<1>2. Trusted(x)
  BY DEF Sound, Trusted, Usable
<1>3. EvictKeeps(y, x)
  BY DEF EvictKeeps, Usable, Needed
<1> QED  BY <1>1, <1>2, <1>3 DEF Sound

LEMMA RestoredSound ==
    ASSUME NEW y \in Sound, y.ok, NEW b \in Buffer, b \in y.mapped, b \notin y.resident,
           NEW x \in Restored(b, [y EXCEPT !.wired = @ \cup {b}])
    PROVE  x \in Sound /\ EvictKeeps(y, x) /\ (x.ok => b \in x.resident)
<1> DEFINE z == [y EXCEPT !.wired = @ \cup {b}]
           Same(r) ==
                 /\ r.resident = y.resident /\ r.open = y.open
                 /\ r.closing = y.closing /\ r.mapped = y.mapped /\ r.bound = y.bound
                 /\ r.domain = y.domain /\ r.refs = y.refs /\ r.global = y.global
                 /\ r.faulted = y.faulted
                 /\ r.wired = y.wired \cup {b}
<1>0. y \in MemoryState
  BY DEF Sound
<1>1. /\ z \in MemoryState /\ Same(z) /\ z.named = y.named /\ z.ok
      /\ z.quarantined = y.quarantined /\ z.kept = y.kept /\ z.unsafe = y.unsafe
  BY <1>0 DEF MemoryState
<1>2. PICK r \in RestoreRenderBufferPpgtt(b, z) :
          x = IF r.ok THEN Touch(b, Counted(b, r))
              ELSE IF b \in r.quarantined THEN Counted(b, r)
              ELSE [r EXCEPT !.wired = @ \ {b}]
  BY DEF Restored
<1> HIDE DEF z
<1>3. \/ r \in Stuck(b, z)
      \/ b \notin z.named /\ r = [z EXCEPT !.named = @ \cup {b}]
      \/ b \notin z.named /\ r \in Refused(z)
      \/ r \in Unknown(b, z)
  BY DEF RestoreRenderBufferPpgtt, IfFails
<1>4. /\ r \in MemoryState /\ Same(r) /\ y.quarantined \subseteq r.quarantined
      /\ \/ /\ r.ok /\ r.named = y.named \cup {b} /\ r.quarantined = y.quarantined
            /\ r.kept = y.kept /\ r.unsafe = y.unsafe
         \/ /\ ~r.ok /\ r.named = y.named /\ b \notin y.named
            /\ r.quarantined = y.quarantined
            /\ r.kept = y.kept /\ r.unsafe = y.unsafe
         \/ /\ ~r.ok /\ r.named \subseteq y.named \cup {b} /\ b \in r.quarantined
            /\ r.unsafe
  <2>1. CASE r \in Stuck(b, z)
    <3>1. /\ r = [z EXCEPT !.ready = FALSE, !.kept = TRUE, !.unsafe = TRUE,
                           !.quarantined = @ \cup {b}, !.ok = FALSE]
          /\ r \in MemoryState
      BY <1>1, <2>1, StuckRecord
    <3>2. /\ Same(r) /\ r.quarantined = z.quarantined \cup {b}
          /\ ~r.ok /\ r.named = z.named /\ r.unsafe
      BY <1>1, <3>1 DEF MemoryState
    <3> QED  BY <1>1, <3>1, <3>2
  <2>2. CASE b \notin z.named /\ r = [z EXCEPT !.named = @ \cup {b}]
    BY <1>1, <2>2 DEF MemoryState
  <2>3. CASE b \notin z.named /\ r \in Refused(z)
    <3>1. r = [z EXCEPT !.ok = FALSE]
      BY <2>3 DEF Refused
    <3>2. /\ r \in MemoryState /\ Same(r) /\ r.quarantined = z.quarantined
          /\ ~r.ok /\ r.named = z.named /\ r.unsafe = z.unsafe /\ r.kept = z.kept
      BY <1>1, <3>1 DEF MemoryState
    <3> QED  BY <1>1, <2>3, <3>2
  <2>4. CASE r \in Unknown(b, z)
    <3> DEFINE u == [z EXCEPT !.named = @ \cup {b}]
    <3>1. r \in Stuck(b, u)
      BY <2>4 DEF Unknown
    <3>2. u \in MemoryState /\ Same(u) /\ u.named = y.named \cup {b}
          /\ u.quarantined = y.quarantined
      BY <1>1 DEF MemoryState
    <3> HIDE DEF u
    <3>3. /\ r = [u EXCEPT !.ready = FALSE, !.kept = TRUE, !.unsafe = TRUE,
                           !.quarantined = @ \cup {b}, !.ok = FALSE]
          /\ r \in MemoryState
      BY <3>1, <3>2, StuckRecord
    <3>4. /\ Same(r) /\ r.quarantined = u.quarantined \cup {b}
          /\ ~r.ok /\ r.named = u.named /\ r.unsafe
      BY <3>2, <3>3 DEF MemoryState
    <3> QED  BY <3>2, <3>3, <3>4
  <2> QED  BY <1>3, <2>1, <2>2, <2>3, <2>4
<1>5. CASE r.ok \/ b \in r.quarantined
  <2>1. x \in {Counted(b, r), Touch(b, Counted(b, r))}
    BY <1>2, <1>5
  <2>2. x \in MemoryState
    BY <1>4, <2>1, CountedRecord
  <2>3. /\ x.resident = r.resident \cup {b} /\ x.open = r.open
        /\ x.closing = r.closing /\ x.mapped = r.mapped /\ x.bound = r.bound
        /\ x.domain = r.domain /\ x.refs = r.refs /\ x.global = r.global
        /\ x.quarantined = r.quarantined
        /\ x.kept = r.kept /\ x.unsafe = r.unsafe /\ x.faulted = r.faulted
        /\ x.named = r.named /\ x.wired = r.wired /\ x.ok = r.ok
    BY <1>4, <2>1, CountedRecord
  <2>4. /\ x.resident = y.resident \cup {b} /\ x.wired = y.wired \cup {b}
        /\ \/ /\ x.named = y.named \cup {b} /\ x.quarantined = y.quarantined
              /\ x.kept = y.kept /\ x.unsafe = y.unsafe
           \/ x.named \subseteq y.named \cup {b} /\ ~Usable(x)
    <3>1. CASE r.ok
      BY <1>4, <2>3, <3>1
    <3>2. CASE ~r.ok /\ r.unsafe
      BY <1>4, <2>3, <3>2 DEF Usable
    <3>3. CASE ~r.ok /\ r.quarantined = y.quarantined /\ r.named = y.named
               /\ r.unsafe = y.unsafe
      <4>1. ~Usable(y)
        BY <1>5, <3>3 DEF Sound, Trusted
      <4> QED  BY <1>4, <2>3, <3>3, <4>1 DEF Usable
    <3> QED  BY <1>4, <3>1, <3>2, <3>3
  <2>5. x \in Sound /\ EvictKeeps(y, x)
    BY <1>4, <2>2, <2>3, <2>4, RestoredStep
  <2> QED  BY <2>3, <2>5
<1>6. CASE ~r.ok /\ b \notin r.quarantined
  <2>1. x = [r EXCEPT !.wired = @ \ {b}]
    BY <1>2, <1>6
  <2>2. /\ r.named = y.named /\ b \notin y.named /\ r.quarantined = y.quarantined
        /\ r.kept = y.kept /\ r.unsafe = y.unsafe
    BY <1>4, <1>6
  <2>3. /\ x \in MemoryState /\ ~x.ok
        /\ x.resident = r.resident /\ x.open = r.open
        /\ x.closing = r.closing /\ x.mapped = r.mapped /\ x.bound = r.bound
        /\ x.domain = r.domain /\ x.refs = r.refs /\ x.global = r.global
        /\ x.quarantined = r.quarantined
        /\ x.kept = r.kept /\ x.unsafe = r.unsafe /\ x.faulted = r.faulted
        /\ x.named = r.named /\ x.wired = r.wired \ {b}
    BY <1>4, <1>6, <2>1 DEF MemoryState
  <2>4. x \in Sound /\ EvictKeeps(y, x)
    BY <1>4, <1>6, <2>2, <2>3, RestoredStep
  <2> QED  BY <2>3, <2>4
<1> QED  BY <1>5, <1>6

LEMMA ResidentSound ==
    ASSUME NEW m \in Sound, m.ok, NEW b \in Buffer, NEW x \in MakeRenderBufferResident(b, m)
    PROVE  x \in Sound /\ EvictKeeps(m, x) /\ (x.ok => b \in x.resident)
<1>0. m \in MemoryState
  BY DEF Sound
<1>1. CASE b \in m.resident /\ x = Touch(b, m)
  <2>1. Append(RemoveFirst(m.lru, b), b) \in Seq(Buffer)
    BY <1>0, TouchTypes
  <2>2. /\ x \in MemoryState
        /\ x.resident = m.resident /\ x.open = m.open
        /\ x.closing = m.closing /\ x.mapped = m.mapped /\ x.bound = m.bound
        /\ x.domain = m.domain /\ x.refs = m.refs /\ x.global = m.global
        /\ x.quarantined = m.quarantined
        /\ x.kept = m.kept /\ x.unsafe = m.unsafe /\ x.faulted = m.faulted
        /\ x.named = m.named /\ x.wired = m.wired /\ x.ok = m.ok
    BY <1>0, <1>1, <2>1 DEF Touch, MemoryState
  <2>3. Accounted(x) /\ Trusted(x) /\ IsFiniteSet(x.open)
    BY <2>2 DEF Sound, Accounted, Trusted, Usable
  <2>4. EvictKeeps(m, x)
    BY <2>2 DEF EvictKeeps, Usable, Needed
  <2> QED  BY <1>1, <2>2, <2>3, <2>4 DEF Sound
<1>2. CASE x \in Refused(m)
  BY <1>2, RefusedSound
<1>3. CASE b \notin m.resident /\ b \in m.mapped /\ x \notin Refused(m)
  <2> DEFINE wire(y) == {[y EXCEPT !.wired = @ \cup {b}]} \cup IfFails("lock", Refused(y))
             room == EnsureClientResidentBudget(BufferSize[b], m)
  <2>1. x \in Then(Then(room, wire), LAMBDA z : Restored(b, z))
    <3>1. MakeRenderBufferResident(b, m)
              = IF b \in m.resident THEN {Touch(b, m)}
                ELSE IF b \in m.quarantined \/ b \notin m.mapped THEN Refused(m)
                ELSE Then(Then(room, wire), LAMBDA z : Restored(b, z))
      BY Zenon DEF MakeRenderBufferResident, Restored, Counted
    <3> HIDE DEF room, wire
    <3> QED  BY <1>3, <3>1
  <2>2. PICK z \in Then(room, wire) : x \in IF z.ok THEN Restored(b, z) ELSE {z}
    BY <2>1 DEF Then
  <2>3. PICK y \in room : z \in IF y.ok THEN wire(y) ELSE {y}
    BY <2>2 DEF Then
  <2>4. y \in Sound /\ EvictKeeps(m, y) /\ y.resident \subseteq m.resident
    BY <2>3, EnsureSound
  <2>5. b \in y.mapped /\ b \notin y.resident
    BY <1>3, <2>4 DEF EvictKeeps
  <2>6. CASE ~y.ok
    BY <2>2, <2>3, <2>4, <2>6
  <2>7. CASE y.ok /\ z \in Refused(y)
    <3>1. z \in Sound /\ EvictKeeps(y, z) /\ ~z.ok
      BY <2>4, <2>7, RefusedSound
    <3> QED  BY <2>2, <2>4, <3>1, KeepsTwice
  <2>8. CASE y.ok /\ z = [y EXCEPT !.wired = @ \cup {b}]
    <3>1. z.ok
      BY <2>4, <2>8 DEF Sound, MemoryState
    <3>2. x \in Restored(b, [y EXCEPT !.wired = @ \cup {b}])
      BY <2>2, <2>8, <3>1
    <3>3. x \in Sound /\ EvictKeeps(y, x) /\ (x.ok => b \in x.resident)
      BY <2>4, <2>5, <2>8, <3>2, RestoredSound
    <3> QED  BY <2>4, <3>3, KeepsTwice
  <2> QED  BY <2>3, <2>6, <2>7, <2>8 DEF IfFails
<1> QED  BY <1>1, <1>2, <1>3 DEF MakeRenderBufferResident
----------------------------------------------------------------------------
(* Tables.                                                                 *)

\* Records that agree in all that the invariants speak of, the status aside
Alike(m, x) ==
    /\ x.resident = m.resident /\ x.open = m.open
    /\ x.closing = m.closing /\ x.mapped = m.mapped /\ x.bound = m.bound
    /\ x.domain = m.domain /\ x.refs = m.refs /\ x.global = m.global
    /\ x.quarantined = m.quarantined
    /\ x.kept = m.kept /\ x.unsafe = m.unsafe /\ x.faulted = m.faulted
    /\ x.named = m.named /\ x.wired = m.wired

LEMMA OkSound ==
    ASSUME NEW m \in Sound, NEW v \in BOOLEAN
    PROVE  LET x == [m EXCEPT !.ok = v]
           IN  x \in Sound /\ Alike(m, x) /\ x.ok = v
<1> DEFINE x == [m EXCEPT !.ok = v]
<1>1. m \in MemoryState
  BY DEF Sound
<1>2. x \in MemoryState /\ x.ok = v /\ Alike(m, x)
  BY <1>1 DEF MemoryState, Alike
<1> HIDE DEF x
<1>3. Accounted(x) /\ Trusted(x) /\ IsFiniteSet(x.open)
  BY <1>2 DEF Sound, Accounted, Trusted, Usable, Alike
<1>4. x \in Sound /\ Alike(m, x) /\ x.ok = v
  BY <1>2, <1>3 DEF Sound
<1> QED  BY <1>4 DEF x

\* What giving up buffer b leaves as it is
LeavesOthers(b, m, x) ==
    /\ x.open = m.open /\ x.closing = m.closing
    /\ x.domain = m.domain /\ x.refs = m.refs
    /\ x.mapped \subseteq m.mapped /\ m.mapped \ {b} \subseteq x.mapped
    /\ x.bound \subseteq m.bound /\ m.bound \ {b} \subseteq x.bound
    /\ x.resident \subseteq m.resident /\ m.resident \ {b} \subseteq x.resident
    /\ x.faulted = m.faulted /\ (Usable(x) => Usable(m))
    /\ m.quarantined \subseteq x.quarantined

LEMMA LeavesTwice ==
    ASSUME NEW b, NEW m, NEW y, NEW x, LeavesOthers(b, m, y), LeavesOthers(b, y, x)
    PROVE  LeavesOthers(b, m, x)
BY DEF LeavesOthers

LEMMA SameLeaves ==
    ASSUME NEW b, NEW m, NEW x, Alike(m, x)
    PROVE  LeavesOthers(b, m, x)
BY DEF LeavesOthers, Alike, Usable

LEMMA RefusedSame ==
    ASSUME NEW m \in Sound, NEW x \in Refused(m)
    PROVE  x \in Sound /\ Alike(m, x) /\ ~x.ok
BY OkSound DEF Refused

LEMMA StuckLeaves ==
    ASSUME NEW m \in Sound, NEW b \in Buffer, NEW x \in Stuck(b, m)
    PROVE  x \in Sound /\ LeavesOthers(b, m, x) /\ ~x.ok /\ ~Usable(x)
           /\ b \in x.quarantined /\ x.resident = m.resident
<1>1. m \in MemoryState
  BY DEF Sound
<1>2. x \in Sound /\ ~x.ok /\ ~Usable(x)
  BY StuckSound
<1>3. x = [m EXCEPT !.ready = FALSE, !.kept = TRUE, !.unsafe = TRUE,
                    !.quarantined = @ \cup {b}, !.ok = FALSE]
  BY <1>1, StuckRecord, Zenon
<1>4. LeavesOthers(b, m, x) /\ b \in x.quarantined /\ x.resident = m.resident
  BY <1>1, <1>2, <1>3 DEF LeavesOthers, MemoryState
<1> QED  BY <1>2, <1>4

LEMMA ClearSound ==
    ASSUME NEW m \in Sound, NEW b \in Buffer, NEW x \in ClearRenderBufferPpgtt(b, m)
    PROVE  x \in Sound /\ LeavesOthers(b, m, x)
           /\ (b \in x.mapped => ~x.ok /\ b \in x.quarantined)
<1>0. m \in MemoryState
  BY DEF Sound
<1>1. CASE b \notin m.mapped /\ x = m
  BY <1>1 DEF LeavesOthers
<1>2. CASE b \in m.mapped /\ x \in Stuck(b, m)
  BY <1>2, StuckLeaves
<1>3. CASE b \in m.mapped /\ x = [m EXCEPT !.named = @ \ {b}, !.mapped = @ \ {b}]
  <2>1. /\ x \in MemoryState
        /\ x.resident = m.resident /\ x.open = m.open
        /\ x.closing = m.closing /\ x.mapped = m.mapped \ {b} /\ x.bound = m.bound
        /\ x.domain = m.domain /\ x.refs = m.refs /\ x.global = m.global
        /\ x.quarantined = m.quarantined
        /\ x.kept = m.kept /\ x.unsafe = m.unsafe /\ x.faulted = m.faulted
        /\ x.named = m.named \ {b} /\ x.wired = m.wired /\ x.ok = m.ok
    BY <1>0, <1>3 DEF MemoryState
  <2>2. Accounted(x) /\ Trusted(x) /\ IsFiniteSet(x.open)
    BY <2>1 DEF Sound, Accounted, Trusted, Usable
  <2>3. LeavesOthers(b, m, x)
    BY <2>1 DEF LeavesOthers, Usable
  <2> QED  BY <2>1, <2>2, <2>3 DEF Sound
<1> QED  BY <1>1, <1>2, <1>3 DEF ClearRenderBufferPpgtt, IfFails

LEMMA UnbindSound ==
    ASSUME NEW m \in Sound, NEW b \in Buffer, NEW x \in UnbindGgtt(b, m)
    PROVE  x \in Sound /\ LeavesOthers(b, m, x) /\ x.resident = m.resident
           /\ x.named = m.named /\ x.mapped = m.mapped
           /\ (x.ok => b \notin x.bound \cup x.global)
<1>0. m \in MemoryState
  BY DEF Sound
<1>1. CASE b \notin m.bound /\ b \notin m.quarantined /\ x = m
  BY <1>1 DEF LeavesOthers, Sound, Accounted
<1>2. CASE x \in Refused(m)
  BY <1>2, RefusedSame, SameLeaves DEF Alike
<1>3. CASE x = [m EXCEPT !.bound = @ \ {b}, !.global = @ \ {b}]
  <2>1. /\ x \in MemoryState
        /\ x.resident = m.resident /\ x.open = m.open
        /\ x.closing = m.closing /\ x.mapped = m.mapped /\ x.bound = m.bound \ {b}
        /\ x.domain = m.domain /\ x.refs = m.refs /\ x.global = m.global \ {b}
        /\ x.quarantined = m.quarantined
        /\ x.kept = m.kept /\ x.unsafe = m.unsafe /\ x.faulted = m.faulted
        /\ x.named = m.named /\ x.wired = m.wired /\ x.ok = m.ok
    BY <1>0, <1>3 DEF MemoryState
  <2>2. Accounted(x) /\ Trusted(x) /\ IsFiniteSet(x.open)
    BY <2>1 DEF Sound, Accounted, Trusted, Usable
  <2>3. LeavesOthers(b, m, x)
    BY <2>1 DEF LeavesOthers, Usable
  <2> QED  BY <2>1, <2>2, <2>3 DEF Sound
<1>4. CASE x \in Refused([m EXCEPT !.unsafe = TRUE, !.quarantined = @ \cup {b}])
  <2>0. x = [m EXCEPT !.unsafe = TRUE, !.quarantined = @ \cup {b}, !.ok = FALSE]
    BY <1>0, <1>4 DEF Refused, MemoryState
  <2>1. /\ x \in MemoryState
        /\ x.resident = m.resident /\ x.open = m.open
        /\ x.closing = m.closing /\ x.mapped = m.mapped /\ x.bound = m.bound
        /\ x.domain = m.domain /\ x.refs = m.refs /\ x.global = m.global
        /\ x.quarantined = m.quarantined \cup {b}
        /\ x.unsafe = TRUE /\ x.faulted = m.faulted
        /\ x.named = m.named /\ x.wired = m.wired /\ x.ok = FALSE
    BY <1>0, <2>0 DEF MemoryState
  <2>2. Accounted(x) /\ Trusted(x) /\ IsFiniteSet(x.open)
    BY <2>1 DEF Sound, Accounted, Trusted, Usable
  <2>3. LeavesOthers(b, m, x)
    BY <2>1 DEF LeavesOthers, Usable
  <2> QED  BY <2>1, <2>2, <2>3 DEF Sound
<1>5. CASE b \notin m.bound
  BY <1>1, <1>2, <1>5 DEF UnbindGgtt, Guarded
<1>6. CASE b \in m.bound
  BY <1>3, <1>4, <1>6 DEF UnbindGgtt, IfFails
<1> QED  BY <1>5, <1>6

LEMMA BindSound ==
    ASSUME NEW m \in Sound, m.ok, NEW b \in Buffer, NEW x \in BindGgtt(b, m)
    PROVE  /\ x \in Sound /\ x.open = m.open /\ x.closing = m.closing
           /\ x.domain = m.domain /\ x.refs = m.refs /\ x.mapped = m.mapped
           /\ x.resident = m.resident /\ x.faulted = m.faulted
           /\ m.bound \subseteq x.bound /\ x.bound \subseteq m.bound \cup {b}
           /\ (Usable(x) => Usable(m))
           /\ (x.ok => b \in x.bound) /\ (~x.ok => x.bound = m.bound)
           /\ (b \in x.bound => b \in x.resident)
<1>0. m \in MemoryState
  BY DEF Sound
<1>1. CASE x \in Refused(m)
  <2>1. x \in Sound /\ Alike(m, x) /\ ~x.ok
    BY <1>1, RefusedSame
  <2> QED  BY <2>1 DEF Alike, Usable, Sound, Accounted
<1>2. CASE b \in m.resident
           /\ x = [m EXCEPT !.bound = @ \cup {b}, !.global = @ \cup {b}, !.own = TRUE]
  <2>1. /\ x \in MemoryState
        /\ x.resident = m.resident /\ x.open = m.open
        /\ x.closing = m.closing /\ x.mapped = m.mapped
        /\ x.bound = m.bound \cup {b}
        /\ x.domain = m.domain /\ x.refs = m.refs /\ x.global = m.global \cup {b}
        /\ x.quarantined = m.quarantined
        /\ x.kept = m.kept /\ x.unsafe = m.unsafe /\ x.faulted = m.faulted
        /\ x.named = m.named /\ x.wired = m.wired /\ x.ok = m.ok
    BY <1>0, <1>2 DEF MemoryState
  <2>2. Accounted(x) /\ Trusted(x) /\ IsFiniteSet(x.open)
    BY <1>2, <2>1 DEF Sound, Accounted, Trusted, Usable
  <2> QED  BY <1>2, <2>1, <2>2 DEF Sound, Usable
<1>3. CASE b \in m.resident
           /\ x \in Refused([m EXCEPT !.global = @ \cup {b}, !.unsafe = TRUE,
                                      !.quarantined = @ \cup {b}])
  <2>0. x = [m EXCEPT !.global = @ \cup {b}, !.unsafe = TRUE,
                      !.quarantined = @ \cup {b}, !.ok = FALSE]
    BY <1>0, <1>3 DEF Refused, MemoryState
  <2>1. /\ x \in MemoryState
        /\ x.resident = m.resident /\ x.open = m.open
        /\ x.closing = m.closing /\ x.mapped = m.mapped /\ x.bound = m.bound
        /\ x.domain = m.domain /\ x.refs = m.refs /\ x.global = m.global \cup {b}
        /\ x.quarantined = m.quarantined \cup {b}
        /\ x.unsafe = TRUE /\ x.faulted = m.faulted
        /\ x.named = m.named /\ x.wired = m.wired /\ x.ok = FALSE
    BY <1>0, <2>0 DEF MemoryState
  <2>2. Accounted(x) /\ Trusted(x) /\ IsFiniteSet(x.open)
    BY <1>3, <2>1 DEF Sound, Accounted, Trusted, Usable
  <2> QED  BY <1>3, <2>1, <2>2 DEF Sound, Usable
<1> QED  BY <1>1, <1>2, <1>3 DEF BindGgtt, IfFails
----------------------------------------------------------------------------
(* A buffer is given up.                                                   *)

LEMMA BytesSound ==
    ASSUME NEW m \in Sound, NEW b \in Buffer
    PROVE  LET x == [m EXCEPT !.bytes = @ - BufferSize[b]]
           IN  x \in Sound /\ Alike(m, x) /\ x.ok = m.ok
<1> DEFINE x == [m EXCEPT !.bytes = @ - BufferSize[b]]
<1>1. m \in MemoryState
  BY DEF Sound
<1>2. m.bytes - BufferSize[b] \in Int
  BY <1>1, RenderResidencyAssumption DEF MemoryState
<1>3. x \in MemoryState /\ x.ok = m.ok /\ Alike(m, x)
  BY <1>1, <1>2 DEF MemoryState, Alike
<1> HIDE DEF x
<1>4. Accounted(x) /\ Trusted(x) /\ IsFiniteSet(x.open)
  BY <1>3 DEF Sound, Accounted, Trusted, Usable, Alike
<1>5. x \in Sound /\ Alike(m, x) /\ x.ok = m.ok
  BY <1>3, <1>4 DEF Sound
<1> QED  BY <1>5 DEF x

\* No table names b unless b is quarantined
Gone(b, m) == b \in m.named \cup m.global => b \in m.quarantined

\* Buffer b is quarantined, and the device unsafe
KeptBuffer(b, m) == [m EXCEPT !.quarantined = @ \cup {b}, !.unsafe = TRUE]

LEMMA KeptSound ==
    ASSUME NEW m \in Sound, NEW b \in Buffer
    PROVE  LET x == KeptBuffer(b, m)
           IN  x \in Sound /\ LeavesOthers(b, m, x) /\ b \in x.quarantined
<1> DEFINE x == KeptBuffer(b, m)
<1>0. m \in MemoryState
  BY DEF Sound
<1>1. /\ x \in MemoryState
      /\ x.resident = m.resident /\ x.open = m.open
      /\ x.closing = m.closing /\ x.mapped = m.mapped /\ x.bound = m.bound
      /\ x.domain = m.domain /\ x.refs = m.refs /\ x.global = m.global
      /\ x.quarantined = m.quarantined \cup {b}
      /\ x.unsafe = TRUE /\ x.faulted = m.faulted
      /\ x.named = m.named /\ x.wired = m.wired
  BY <1>0 DEF KeptBuffer, MemoryState
<1> HIDE DEF x
<1>2. Accounted(x) /\ Trusted(x) /\ IsFiniteSet(x.open)
  BY <1>1 DEF Sound, Accounted, Trusted, Usable
<1>3. LeavesOthers(b, m, x)
  BY <1>1 DEF LeavesOthers, Usable
<1>4. x \in Sound /\ LeavesOthers(b, m, x) /\ b \in x.quarantined
  BY <1>1, <1>2, <1>3 DEF Sound
<1> QED  BY <1>4 DEF x

\* The pages of a buffer no table names may go
LEMMA UnwireSound ==
    ASSUME NEW m \in Sound, NEW b \in Buffer, b \notin m.named \cup m.global
    PROVE  LET x == [m EXCEPT !.resident = @ \ {b}, !.wired = @ \ {b}]
           IN  x \in Sound /\ LeavesOthers(b, m, x) /\ b \notin x.named \cup x.global
<1> DEFINE x == [m EXCEPT !.resident = @ \ {b}, !.wired = @ \ {b}]
<1>0. m \in MemoryState
  BY DEF Sound
<1>1. /\ x \in MemoryState
      /\ x.resident = m.resident \ {b} /\ x.open = m.open
      /\ x.closing = m.closing /\ x.mapped = m.mapped /\ x.bound = m.bound
      /\ x.domain = m.domain /\ x.refs = m.refs /\ x.global = m.global
      /\ x.quarantined = m.quarantined /\ x.kept = m.kept
      /\ x.unsafe = m.unsafe /\ x.faulted = m.faulted
      /\ x.named = m.named /\ x.wired = m.wired \ {b}
  BY <1>0 DEF MemoryState
<1> HIDE DEF x
<1>2. Accounted(x) /\ Trusted(x) /\ IsFiniteSet(x.open)
  BY <1>1 DEF Sound, Accounted, Trusted, Usable
<1>3. LeavesOthers(b, m, x)
  BY <1>1 DEF LeavesOthers, Usable
<1>4. x \in Sound /\ LeavesOthers(b, m, x) /\ b \notin x.named \cup x.global
  BY <1>1, <1>2, <1>3 DEF Sound
<1> QED  BY <1>4 DEF x

LEMMA BackingSound ==
    ASSUME NEW m \in Sound, NEW b \in Buffer, b \in m.mapped => b \in m.quarantined,
           NEW x \in ReleaseRenderBufferBacking(b, m)
    PROVE  x \in Sound /\ LeavesOthers(b, m, x) /\ Gone(b, x)
<1> DEFINE unwire(y) ==
            IF b \notin y.resident THEN {y}
            ELSE {[y EXCEPT !.resident = @ \ {b}, !.wired = @ \ {b}]}
                 \cup IfFails("unlock", Refused(y))
           delete(y) == {y} \cup IfFails("delete", Refused(y))
<1>1. CASE b \in m.quarantined
  <2>1. x \in Refused(KeptBuffer(b, m))
    BY <1>1 DEF ReleaseRenderBufferBacking, KeptBuffer
  <2>2. KeptBuffer(b, m) \in Sound /\ LeavesOthers(b, m, KeptBuffer(b, m))
        /\ b \in KeptBuffer(b, m).quarantined
    BY KeptSound
  <2>3. x \in Sound /\ Alike(KeptBuffer(b, m), x)
    BY <2>1, <2>2, RefusedSame
  <2>4. LeavesOthers(b, m, x)
    BY <2>2, <2>3, SameLeaves, LeavesTwice
  <2> QED  BY <2>2, <2>3, <2>4 DEF Gone, Alike
<1>2. CASE b \notin m.quarantined
  <2>1. PICK d \in Then(Then(UnbindGgtt(b, m), unwire), delete) :
            x = IF d.ok THEN d ELSE KeptBuffer(b, d)
    BY <1>2 DEF ReleaseRenderBufferBacking, KeptBuffer
  <2>2. PICK u \in Then(UnbindGgtt(b, m), unwire) : d \in IF u.ok THEN delete(u) ELSE {u}
    BY <2>1 DEF Then
  <2>3. PICK v \in UnbindGgtt(b, m) : u \in IF v.ok THEN unwire(v) ELSE {v}
    BY <2>2 DEF Then
  <2>4. v \in Sound /\ LeavesOthers(b, m, v) /\ v.named = m.named
        /\ (v.ok => b \notin v.bound \cup v.global)
    BY UnbindSound
  <2>5. b \notin v.named
    BY <1>2, <2>4 DEF Sound, Accounted
  <2>6. u \in Sound /\ LeavesOthers(b, v, u) /\ (u.ok => b \notin u.named \cup u.global)
    <3>1. CASE u = v
      BY <2>4, <2>5, <3>1 DEF LeavesOthers
    <3>2. CASE u \in Refused(v)
      BY <2>4, <3>2, RefusedSame, SameLeaves
    <3>3. CASE v.ok /\ u = [v EXCEPT !.resident = @ \ {b}, !.wired = @ \ {b}]
      BY <2>4, <2>5, <3>3, UnwireSound
    <3> QED  BY <2>3, <3>1, <3>2, <3>3 DEF IfFails
  <2>7. d \in Sound /\ LeavesOthers(b, u, d) /\ (d.ok => b \notin d.named \cup d.global)
    <3>1. CASE d = u
      BY <2>6, <3>1 DEF LeavesOthers
    <3>2. CASE d \in Refused(u)
      BY <2>6, <3>2, RefusedSame, SameLeaves
    <3> QED  BY <2>2, <3>1, <3>2 DEF IfFails
  <2>8. x \in Sound /\ LeavesOthers(b, d, x) /\ Gone(b, x)
    <3>1. CASE d.ok
      BY <2>1, <2>7, <3>1 DEF LeavesOthers, Gone
    <3>2. CASE ~d.ok
      BY <2>1, <2>7, <3>2, KeptSound DEF Gone
    <3> QED  BY <3>1, <3>2
  <2>9. LeavesOthers(b, m, d)
    BY <2>4, <2>6, <2>7, LeavesTwice
  <2> QED  BY <2>8, <2>9, LeavesTwice
<1> QED  BY <1>1, <1>2

\* What releasing buffer b of the client leaves
Released(b, m, x) ==
    /\ x.open = m.open \ {b} /\ x.closing = m.closing \ {b}
    /\ x.mapped = m.mapped \ {b} /\ x.bound = m.bound \ {b}
    /\ x.domain = At(m.domain, b, "cpu") /\ x.refs = At(m.refs, b, 0)
    /\ x.faulted = m.faulted
    /\ x.resident \subseteq m.resident /\ m.resident \ {b} \subseteq x.resident
    /\ Usable(x) => Usable(m)
    /\ m.quarantined \subseteq x.quarantined

LEMMA ForgottenSound ==
    ASSUME NEW m \in Sound, NEW b \in Buffer, Gone(b, m)
    PROVE  Forgotten(b, m) \in Sound /\ Released(b, m, Forgotten(b, m))
<1> DEFINE x == Forgotten(b, m)
<1>0. m \in MemoryState
  BY DEF Sound
<1>1. /\ RemoveFirst(m.lru, b) \in Seq(Buffer)
      /\ At(m.domain, b, "cpu") \in [Buffer -> {"cpu", "bcs", "rcs"}]
      /\ At(m.refs, b, 0) \in [Buffer -> Int]
  <2>1. RemoveFirst(m.lru, b) \in Seq(Buffer)
    BY <1>0, TouchTypes
  <2>2. m.domain \in [Buffer -> {"cpu", "bcs", "rcs"}] /\ m.refs \in [Buffer -> Int]
    BY <1>0 DEF MemoryState
  <2> QED  BY <2>1, <2>2 DEF At
<1>2. /\ x \in MemoryState
      /\ x.resident = m.resident /\ x.open = m.open \ {b}
      /\ x.closing = m.closing \ {b} /\ x.mapped = m.mapped \ {b}
      /\ x.bound = m.bound \ {b}
      /\ x.domain = At(m.domain, b, "cpu") /\ x.refs = At(m.refs, b, 0)
      /\ x.global = m.global
      /\ x.quarantined = m.quarantined /\ x.kept = m.kept
      /\ x.unsafe = m.unsafe /\ x.faulted = m.faulted
      /\ x.named = m.named /\ x.wired = m.wired
  <2> HIDE DEF At
  <2> QED  BY <1>0, <1>1 DEF Forgotten, MemoryState
<1> HIDE DEF x
<1>3. Accounted(x) /\ Trusted(x)
  BY <1>2 DEF Sound, Accounted, Trusted, Usable, Gone
<1>4. IsFiniteSet(x.open)
  BY <1>2, FS_RemoveElement DEF Sound
<1>5. Released(b, m, x)
  BY <1>2 DEF Released, Usable
<1>6. x \in Sound /\ Released(b, m, x)
  BY <1>2, <1>3, <1>4, <1>5 DEF Sound
<1> QED  BY <1>6 DEF x

LEMMA LeavesReleased ==
    ASSUME NEW b, NEW m, NEW y, NEW x, LeavesOthers(b, m, y), Released(b, y, x)
    PROVE  Released(b, m, x)
BY DEF LeavesOthers, Released

\* A buffer whose mapping could not be taken back is quarantined
LEMMA QuarantinedSound ==
    ASSUME NEW m \in Sound, NEW b \in Buffer, ~Usable(m)
    PROVE  LET x == [m EXCEPT !.quarantined = @ \cup {b}]
           IN  x \in Sound /\ LeavesOthers(b, m, x) /\ b \in x.quarantined
<1> DEFINE x == [m EXCEPT !.quarantined = @ \cup {b}]
<1>0. m \in MemoryState
  BY DEF Sound
<1>1. /\ x \in MemoryState
      /\ x.resident = m.resident /\ x.open = m.open
      /\ x.closing = m.closing /\ x.mapped = m.mapped /\ x.bound = m.bound
      /\ x.domain = m.domain /\ x.refs = m.refs /\ x.global = m.global
      /\ x.quarantined = m.quarantined \cup {b}
      /\ x.unsafe = m.unsafe /\ x.faulted = m.faulted
      /\ x.named = m.named /\ x.wired = m.wired
  BY <1>0 DEF MemoryState
<1> HIDE DEF x
<1>2. Accounted(x) /\ Trusted(x) /\ IsFiniteSet(x.open)
  BY <1>1 DEF Sound, Accounted, Trusted, Usable
<1>3. LeavesOthers(b, m, x)
  BY <1>1 DEF LeavesOthers, Usable
<1>4. x \in Sound /\ LeavesOthers(b, m, x) /\ b \in x.quarantined
  BY <1>1, <1>2, <1>3 DEF Sound
<1> QED  BY <1>4 DEF x

LEMMA StuckUnusable ==
    ASSUME NEW m \in Sound, m.ok, NEW b \in Buffer,
           NEW x \in ClearRenderBufferPpgtt(b, m), ~x.ok
    PROVE  ~Usable(x)
<1>1. m \in MemoryState
  BY DEF Sound
<1>2. x \in Stuck(b, m)
  <2>1. x = [m EXCEPT !.named = @ \ {b}, !.mapped = @ \ {b}] => x.ok = m.ok
    BY <1>1 DEF MemoryState
  <2> QED  BY <2>1 DEF ClearRenderBufferPpgtt, IfFails
<1> QED  BY <1>2, StuckSound

LEMMA ReleaseSound ==
    ASSUME NEW m \in Sound, m.ok, NEW b \in Buffer,
           NEW x \in ReleaseClientRenderBuffer(b, m)
    PROVE  x \in Sound /\ Released(b, m, x)
<1> DEFINE quarantine(y) == [y EXCEPT !.quarantined = @ \cup {b}]
           cleared == IF m.kept THEN Refused(quarantine(m))
                      ELSE {IF y.ok THEN y ELSE quarantine(y) :
                               y \in ClearRenderBufferPpgtt(b, m)}
           backing(y) == {IF r.ok /\ b \in y.resident
                          THEN [r EXCEPT !.bytes = @ - BufferSize[b]] ELSE r :
                             r \in ReleaseRenderBufferBacking(b, y)}
<1>0. m \in MemoryState
  BY DEF Sound
<1>1. PICK z \in Always(cleared, backing) : x = Forgotten(b, z)
  BY DEF ReleaseClientRenderBuffer
<1>2. PICK c \in cleared : \E r \in backing([c EXCEPT !.ok = TRUE]) :
          z = [r EXCEPT !.ok = @ /\ c.ok]
  <2> HIDE DEF cleared, backing
  <2>1. \A S : z \in UNION S => \E T \in S : z \in T
    OBVIOUS
  <2> QED  BY <1>1, <2>1, Zenon DEF Always
<1>3. PICK r \in backing([c EXCEPT !.ok = TRUE]) : z = [r EXCEPT !.ok = @ /\ c.ok]
  BY <1>2
<1>4. c \in Sound /\ LeavesOthers(b, m, c) /\ (b \in c.mapped => b \in c.quarantined)
  <2>1. CASE m.kept
    <3>1. ~Usable(m)
      BY <2>1 DEF Sound, Trusted
    <3>2. quarantine(m) \in Sound /\ LeavesOthers(b, m, quarantine(m))
          /\ b \in quarantine(m).quarantined
      BY <3>1, QuarantinedSound
    <3>3. c \in Refused(quarantine(m))
      BY <1>2, <2>1
    <3> HIDE DEF quarantine
    <3>4. c \in Sound /\ Alike(quarantine(m), c)
      BY <3>2, <3>3, RefusedSame
    <3>5. LeavesOthers(b, m, c)
      BY <3>2, <3>4, SameLeaves, LeavesTwice
    <3> QED  BY <3>2, <3>4, <3>5 DEF Alike
  <2>2. CASE ~m.kept
    <3>1. PICK y \in ClearRenderBufferPpgtt(b, m) : c = IF y.ok THEN y ELSE quarantine(y)
      BY <1>2, <2>2
    <3>2. y \in Sound /\ LeavesOthers(b, m, y)
          /\ (b \in y.mapped => ~y.ok /\ b \in y.quarantined)
      BY ClearSound
    <3>3. CASE y.ok
      BY <3>1, <3>2, <3>3
    <3>4. CASE ~y.ok
      <4>1. ~Usable(y)
        BY <3>4, StuckUnusable
      <4>2. c \in Sound /\ LeavesOthers(b, y, c) /\ b \in c.quarantined
        BY <3>1, <3>2, <3>4, <4>1, QuarantinedSound
      <4> QED  BY <3>2, <4>2, LeavesTwice
    <3> QED  BY <3>3, <3>4
  <2> QED  BY <2>1, <2>2
<1>5. PICK y : y = [c EXCEPT !.ok = TRUE]
  OBVIOUS
<1>6. y \in Sound /\ Alike(c, y)
  BY <1>4, <1>5, OkSound
<1>7. LeavesOthers(b, m, y) /\ (b \in y.mapped => b \in y.quarantined)
  BY <1>4, <1>6, SameLeaves, LeavesTwice DEF Alike
<1>8. PICK k \in ReleaseRenderBufferBacking(b, y) :
          r = IF k.ok /\ b \in y.resident
              THEN [k EXCEPT !.bytes = @ - BufferSize[b]] ELSE k
  BY <1>3, <1>5
<1>9. k \in Sound /\ LeavesOthers(b, y, k) /\ Gone(b, k)
  BY <1>6, <1>7, BackingSound
<1>10. r \in Sound /\ LeavesOthers(b, k, r) /\ Gone(b, r)
  <2>2. [k EXCEPT !.bytes = @ - BufferSize[b]] \in Sound
        /\ Alike(k, [k EXCEPT !.bytes = @ - BufferSize[b]])
    BY <1>9, BytesSound
  <2>3. Alike(k, k)
    BY DEF Alike
  <2>4. r \in Sound /\ Alike(k, r)
    BY <1>8, <1>9, <2>2, <2>3
  <2> QED  BY <1>9, <2>4, SameLeaves DEF Gone, Alike
<1>11. z \in Sound /\ LeavesOthers(b, r, z) /\ Gone(b, z)
  <2>1. (r.ok /\ c.ok) \in BOOLEAN
    BY <1>4, <1>10 DEF Sound, MemoryState
  <2>2. z = [r EXCEPT !.ok = r.ok /\ c.ok]
    BY <1>3
  <2>3. z \in Sound /\ Alike(r, z)
    BY <1>10, <2>1, <2>2, OkSound
  <2> QED  BY <1>10, <2>3, SameLeaves DEF Gone, Alike
<1>12. LeavesOthers(b, m, z)
  BY <1>7, <1>9, <1>10, <1>11, LeavesTwice
<1>13. x \in Sound /\ Released(b, z, x)
  BY <1>1, <1>11, ForgottenSound
<1> QED  BY <1>12, <1>13, LeavesReleased
----------------------------------------------------------------------------
(* The calls that go through several buffers.                              *)

LEMMA Orders ==
    ASSUME NEW S, IsFiniteSet(S), NEW order \in SetToSeqs(S)
    PROVE  order \in Seq(S) /\ S = {order[i] : i \in 1 .. Len(order)}
<1> DEFINE n == Cardinality(S)
<1>1. n \in Nat
  BY FS_CardinalityType
<1>2. order \in [1 .. n -> S] /\ \A i, j \in 1 .. n : i # j => order[i] # order[j]
  BY Zenon DEF SetToSeqs
<1>3. order \in Injection(1 .. n, S)
  BY <1>2 DEF Injection, IsInjective
<1>4. Cardinality(1 .. n) = n
  BY <1>1, FS_Interval
<1>5. order \in Surjection(1 .. n, S)
  BY <1>3, <1>4, FS_Injection
<1>6. \A b \in S : \E i \in 1 .. n : order[i] = b
  BY <1>5 DEF Surjection
<1> HIDE DEF n
<1>7. order \in Seq(S) /\ Len(order) = n
  BY <1>1, <1>2
<1> QED  BY <1>2, <1>6, <1>7

\* One buffer of DestroyPpgttContextLocked
ClearStep(S, b) == Always(S, LAMBDA x : ClearRenderBufferPpgtt(b, x))
ClearAll(m, order) == FoldLeft(ClearStep, {m}, order)

\* One buffer of a tear-down, and of the references of a job
ReleaseStep(S, b) ==
    UNION {ReleaseClientRenderBuffer(b, [x EXCEPT !.ok = TRUE]) : x \in S}
ReleaseAll(m, order) == FoldLeft(ReleaseStep, {m}, order)

\* One object of a job that is queued
QueueStep(S, b) ==
    Then(S, LAMBDA x :
        IF ~Enqueueable(b, x) \/ b \notin x.mapped THEN Refused(x)
        ELSE Then(MakeRenderBufferResident(b, x),
                  LAMBDA r : {Reference(1, <<b>>, r)}))
QueueAll(m, objects) == FoldLeft(QueueStep, {m}, objects)

\* One object of a job that is submitted
TakeStep(queued, S, b) ==
    Then(S, LAMBDA x :
        IF ~(/\ b \in (x.open \cap x.mapped) \ x.quarantined
             /\ b \in x.closing => queued
             /\ x.domain[b] = "cpu") THEN Refused(x)
        ELSE Then(MakeRenderBufferResident(b, x),
                  LAMBDA r : {SetDomain("rcs", <<b>>, r)}))
TakeAll(queued, m, objects) == FoldLeft(LAMBDA S, b : TakeStep(queued, S, b), {m}, objects)

ClearClosed(V, X, m) ==
    {m} \in V /\ \A S \in V, b \in X : ClearStep(S, b) \in V
ClearRuns(h, V, m, seq) ==
    /\ h[0] = {m} /\ ClearAll(m, seq) = h[Len(seq)]
    /\ \A n \in 0 .. Len(seq) : h[n] \in V
    /\ \A n \in 1 .. Len(seq) : h[n] = ClearStep(h[n - 1], seq[n])

LEMMA ClearAllRuns ==
    ASSUME NEW V, NEW m, NEW X, NEW seq \in Seq(X), ClearClosed(V, X, m)
    PROVE  \E h : ClearRuns(h, V, m, seq)
<1>0. {m} \in V /\ \A S \in V, b \in X : ClearStep(S, b) \in V
  BY DEF ClearClosed
<1> DEFINE F == [p \in V \X X |-> ClearStep(p[1], p[2])]
           Solves(g) == g = [s \in SUBSET (1 .. Len(seq)) |->
                                IF s = {} THEN {m}
                                ELSE ClearStep(g[s \ {Max(s)}], seq[Max(s)])]
<1>1. DOMAIN seq = 1 .. Len(seq) /\ Len(seq) \in Nat
      /\ \A n \in 1 .. Len(seq) : seq[n] \in X /\ n - 1 \in 0 .. Len(seq)
  OBVIOUS
<1>2. F \in [V \X X -> V]
  BY <1>0
<1>3. \A S \in V, b \in X : F[<<S, b>>] = ClearStep(S, b)
  OBVIOUS
<1> HIDE DEF F
<1>4. PICK f \in [SUBSET (1 .. Len(seq)) -> V] : FoldEquation(f, F, {m}, seq, Len(seq))
  BY <1>0, <1>2, FoldExists
<1>5. Solves(f)
  <2>1. ASSUME NEW s \in SUBSET (1 .. Len(seq)), s # {}
        PROVE  F[<<f[s \ {Max(s)}], seq[Max(s)]>>]
                   = ClearStep(f[s \ {Max(s)}], seq[Max(s)])
    BY <1>3, <2>1, LastElement
  <2> QED  BY <1>4, <2>1, Zenon DEF FoldEquation
<1> DEFINE c == CHOOSE g : Solves(g)
<1>6. ClearAll(m, seq) = c[1 .. Len(seq)]
  <2>1. ClearAll(m, seq) =
            (CHOOSE g : g = [s \in SUBSET DOMAIN seq |->
                IF s = {} THEN {m}
                ELSE ClearStep(g[s \ {Max(s)}], seq[Max(s)])])[DOMAIN seq]
    BY Zenon DEF ClearAll, FoldLeft, MapThenFoldSet
  <2> QED  BY <1>1, <2>1, Zenon
<1>7. Solves(c)
  BY <1>5, Zenon
<1> HIDE DEF c
<1>8. c[{}] = {m} /\ \A s \in SUBSET (1 .. Len(seq)) :
          s # {} => c[s] = ClearStep(c[s \ {Max(s)}], seq[Max(s)])
  <2>1. \A s \in SUBSET (1 .. Len(seq)) :
            c[s] = IF s = {} THEN {m}
                   ELSE ClearStep(c[s \ {Max(s)}], seq[Max(s)])
    BY <1>7, Zenon
  <2>2. {} \in SUBSET (1 .. Len(seq))
    OBVIOUS
  <2> QED  BY <2>1, <2>2, Zenon
<1>9. Chosen(c, F, {m}, seq, V)
  BY <1>3, <1>8, LastElement DEF Chosen
<1>10. PICK h : /\ Runs(h, F, {m}, seq) /\ \A n \in 0 .. Len(seq) : h[n] \in V
                /\ c[1 .. Len(seq)] = h[Len(seq)]
  <2>1. Runs(Along(c, seq), F, {m}, seq)
    BY <1>0, <1>2, <1>9, ChosenRuns
  <2>2. \A n \in 0 .. Len(seq) : Along(c, seq)[n] \in V
    BY <1>0, <1>2, <1>9, ChosenRuns
  <2>3. c[1 .. Len(seq)] = Along(c, seq)[Len(seq)]
    BY <1>1 DEF Along
  <2> QED  BY <2>1, <2>2, <2>3
<1>11. \A n \in 1 .. Len(seq) : h[n] = ClearStep(h[n - 1], seq[n])
  BY <1>1, <1>3, <1>10 DEF Runs
<1> QED  BY <1>6, <1>10, <1>11 DEF Runs, ClearRuns

ReleaseClosed(V, X, m) ==
    {m} \in V /\ \A S \in V, b \in X : ReleaseStep(S, b) \in V
ReleaseRuns(h, V, m, seq) ==
    /\ h[0] = {m} /\ ReleaseAll(m, seq) = h[Len(seq)]
    /\ \A n \in 0 .. Len(seq) : h[n] \in V
    /\ \A n \in 1 .. Len(seq) : h[n] = ReleaseStep(h[n - 1], seq[n])

LEMMA ReleaseAllRuns ==
    ASSUME NEW V, NEW m, NEW X, NEW seq \in Seq(X), ReleaseClosed(V, X, m)
    PROVE  \E h : ReleaseRuns(h, V, m, seq)
<1>0. {m} \in V /\ \A S \in V, b \in X : ReleaseStep(S, b) \in V
  BY DEF ReleaseClosed
<1> DEFINE F == [p \in V \X X |-> ReleaseStep(p[1], p[2])]
           Solves(g) == g = [s \in SUBSET (1 .. Len(seq)) |->
                                IF s = {} THEN {m}
                                ELSE ReleaseStep(g[s \ {Max(s)}], seq[Max(s)])]
<1>1. DOMAIN seq = 1 .. Len(seq) /\ Len(seq) \in Nat
      /\ \A n \in 1 .. Len(seq) : seq[n] \in X /\ n - 1 \in 0 .. Len(seq)
  OBVIOUS
<1>2. F \in [V \X X -> V]
  BY <1>0
<1>3. \A S \in V, b \in X : F[<<S, b>>] = ReleaseStep(S, b)
  OBVIOUS
<1> HIDE DEF F
<1>4. PICK f \in [SUBSET (1 .. Len(seq)) -> V] : FoldEquation(f, F, {m}, seq, Len(seq))
  BY <1>0, <1>2, FoldExists
<1>5. Solves(f)
  <2>1. ASSUME NEW s \in SUBSET (1 .. Len(seq)), s # {}
        PROVE  F[<<f[s \ {Max(s)}], seq[Max(s)]>>]
                   = ReleaseStep(f[s \ {Max(s)}], seq[Max(s)])
    BY <1>3, <2>1, LastElement
  <2> QED  BY <1>4, <2>1, Zenon DEF FoldEquation
<1> DEFINE c == CHOOSE g : Solves(g)
<1>6. ReleaseAll(m, seq) = c[1 .. Len(seq)]
  <2>1. ReleaseAll(m, seq) =
            (CHOOSE g : g = [s \in SUBSET DOMAIN seq |->
                IF s = {} THEN {m}
                ELSE ReleaseStep(g[s \ {Max(s)}], seq[Max(s)])])[DOMAIN seq]
    BY Zenon DEF ReleaseAll, FoldLeft, MapThenFoldSet
  <2> QED  BY <1>1, <2>1, Zenon
<1>7. Solves(c)
  BY <1>5, Zenon
<1> HIDE DEF c
<1>8. c[{}] = {m} /\ \A s \in SUBSET (1 .. Len(seq)) :
          s # {} => c[s] = ReleaseStep(c[s \ {Max(s)}], seq[Max(s)])
  <2>1. \A s \in SUBSET (1 .. Len(seq)) :
            c[s] = IF s = {} THEN {m}
                   ELSE ReleaseStep(c[s \ {Max(s)}], seq[Max(s)])
    BY <1>7, Zenon
  <2>2. {} \in SUBSET (1 .. Len(seq))
    OBVIOUS
  <2> QED  BY <2>1, <2>2, Zenon
<1>9. Chosen(c, F, {m}, seq, V)
  BY <1>3, <1>8, LastElement DEF Chosen
<1>10. PICK h : /\ Runs(h, F, {m}, seq) /\ \A n \in 0 .. Len(seq) : h[n] \in V
                /\ c[1 .. Len(seq)] = h[Len(seq)]
  <2>1. Runs(Along(c, seq), F, {m}, seq)
    BY <1>0, <1>2, <1>9, ChosenRuns
  <2>2. \A n \in 0 .. Len(seq) : Along(c, seq)[n] \in V
    BY <1>0, <1>2, <1>9, ChosenRuns
  <2>3. c[1 .. Len(seq)] = Along(c, seq)[Len(seq)]
    BY <1>1 DEF Along
  <2> QED  BY <2>1, <2>2, <2>3
<1>11. \A n \in 1 .. Len(seq) : h[n] = ReleaseStep(h[n - 1], seq[n])
  BY <1>1, <1>3, <1>10 DEF Runs
<1> QED  BY <1>6, <1>10, <1>11 DEF Runs, ReleaseRuns

QueueClosed(V, X, m) ==
    {m} \in V /\ \A S \in V, b \in X : QueueStep(S, b) \in V
QueueRuns(h, V, m, seq) ==
    /\ h[0] = {m} /\ QueueAll(m, seq) = h[Len(seq)]
    /\ \A n \in 0 .. Len(seq) : h[n] \in V
    /\ \A n \in 1 .. Len(seq) : h[n] = QueueStep(h[n - 1], seq[n])

LEMMA QueueAllRuns ==
    ASSUME NEW V, NEW m, NEW X, NEW seq \in Seq(X), QueueClosed(V, X, m)
    PROVE  \E h : QueueRuns(h, V, m, seq)
<1>0. {m} \in V /\ \A S \in V, b \in X : QueueStep(S, b) \in V
  BY DEF QueueClosed
<1> DEFINE F == [p \in V \X X |-> QueueStep(p[1], p[2])]
           Solves(g) == g = [s \in SUBSET (1 .. Len(seq)) |->
                                IF s = {} THEN {m}
                                ELSE QueueStep(g[s \ {Max(s)}], seq[Max(s)])]
<1>1. DOMAIN seq = 1 .. Len(seq) /\ Len(seq) \in Nat
      /\ \A n \in 1 .. Len(seq) : seq[n] \in X /\ n - 1 \in 0 .. Len(seq)
  OBVIOUS
<1>2. F \in [V \X X -> V]
  BY <1>0
<1>3. \A S \in V, b \in X : F[<<S, b>>] = QueueStep(S, b)
  OBVIOUS
<1> HIDE DEF F
<1>4. PICK f \in [SUBSET (1 .. Len(seq)) -> V] : FoldEquation(f, F, {m}, seq, Len(seq))
  BY <1>0, <1>2, FoldExists
<1>5. Solves(f)
  <2>1. ASSUME NEW s \in SUBSET (1 .. Len(seq)), s # {}
        PROVE  F[<<f[s \ {Max(s)}], seq[Max(s)]>>]
                   = QueueStep(f[s \ {Max(s)}], seq[Max(s)])
    BY <1>3, <2>1, LastElement
  <2> QED  BY <1>4, <2>1, Zenon DEF FoldEquation
<1> DEFINE c == CHOOSE g : Solves(g)
<1>6. QueueAll(m, seq) = c[1 .. Len(seq)]
  <2>1. QueueAll(m, seq) =
            (CHOOSE g : g = [s \in SUBSET DOMAIN seq |->
                IF s = {} THEN {m}
                ELSE QueueStep(g[s \ {Max(s)}], seq[Max(s)])])[DOMAIN seq]
    BY Zenon DEF QueueAll, FoldLeft, MapThenFoldSet
  <2> QED  BY <1>1, <2>1, Zenon
<1>7. Solves(c)
  BY <1>5, Zenon
<1> HIDE DEF c
<1>8. c[{}] = {m} /\ \A s \in SUBSET (1 .. Len(seq)) :
          s # {} => c[s] = QueueStep(c[s \ {Max(s)}], seq[Max(s)])
  <2>1. \A s \in SUBSET (1 .. Len(seq)) :
            c[s] = IF s = {} THEN {m}
                   ELSE QueueStep(c[s \ {Max(s)}], seq[Max(s)])
    BY <1>7, Zenon
  <2>2. {} \in SUBSET (1 .. Len(seq))
    OBVIOUS
  <2> QED  BY <2>1, <2>2, Zenon
<1>9. Chosen(c, F, {m}, seq, V)
  BY <1>3, <1>8, LastElement DEF Chosen
<1>10. PICK h : /\ Runs(h, F, {m}, seq) /\ \A n \in 0 .. Len(seq) : h[n] \in V
                /\ c[1 .. Len(seq)] = h[Len(seq)]
  <2>1. Runs(Along(c, seq), F, {m}, seq)
    BY <1>0, <1>2, <1>9, ChosenRuns
  <2>2. \A n \in 0 .. Len(seq) : Along(c, seq)[n] \in V
    BY <1>0, <1>2, <1>9, ChosenRuns
  <2>3. c[1 .. Len(seq)] = Along(c, seq)[Len(seq)]
    BY <1>1 DEF Along
  <2> QED  BY <2>1, <2>2, <2>3
<1>11. \A n \in 1 .. Len(seq) : h[n] = QueueStep(h[n - 1], seq[n])
  BY <1>1, <1>3, <1>10 DEF Runs
<1> QED  BY <1>6, <1>10, <1>11 DEF Runs, QueueRuns

TakeClosed(queued, V, X, m) ==
    {m} \in V /\ \A S \in V, b \in X : TakeStep(queued, S, b) \in V
TakeRuns(queued, h, V, m, seq) ==
    /\ h[0] = {m} /\ TakeAll(queued, m, seq) = h[Len(seq)]
    /\ \A n \in 0 .. Len(seq) : h[n] \in V
    /\ \A n \in 1 .. Len(seq) : h[n] = TakeStep(queued, h[n - 1], seq[n])

LEMMA TakeAllRuns ==
    ASSUME NEW queued, NEW V, NEW m, NEW X, NEW seq \in Seq(X), TakeClosed(queued, V, X, m)
    PROVE  \E h : TakeRuns(queued, h, V, m, seq)
<1>0. {m} \in V /\ \A S \in V, b \in X : TakeStep(queued, S, b) \in V
  BY DEF TakeClosed
<1> DEFINE F == [p \in V \X X |-> TakeStep(queued, p[1], p[2])]
           Solves(g) == g = [s \in SUBSET (1 .. Len(seq)) |->
                                IF s = {} THEN {m}
                                ELSE TakeStep(queued, g[s \ {Max(s)}], seq[Max(s)])]
<1>1. DOMAIN seq = 1 .. Len(seq) /\ Len(seq) \in Nat
      /\ \A n \in 1 .. Len(seq) : seq[n] \in X /\ n - 1 \in 0 .. Len(seq)
  OBVIOUS
<1>2. F \in [V \X X -> V]
  BY <1>0
<1>3. \A S \in V, b \in X : F[<<S, b>>] = TakeStep(queued, S, b)
  OBVIOUS
<1> HIDE DEF F
<1>4. PICK f \in [SUBSET (1 .. Len(seq)) -> V] : FoldEquation(f, F, {m}, seq, Len(seq))
  BY <1>0, <1>2, FoldExists
<1>5. Solves(f)
  <2>1. ASSUME NEW s \in SUBSET (1 .. Len(seq)), s # {}
        PROVE  F[<<f[s \ {Max(s)}], seq[Max(s)]>>]
                   = TakeStep(queued, f[s \ {Max(s)}], seq[Max(s)])
    BY <1>3, <2>1, LastElement
  <2> QED  BY <1>4, <2>1, Zenon DEF FoldEquation
<1> DEFINE c == CHOOSE g : Solves(g)
<1>6. TakeAll(queued, m, seq) = c[1 .. Len(seq)]
  <2>1. TakeAll(queued, m, seq) =
            (CHOOSE g : g = [s \in SUBSET DOMAIN seq |->
                IF s = {} THEN {m}
                ELSE TakeStep(queued, g[s \ {Max(s)}], seq[Max(s)])])[DOMAIN seq]
    BY Zenon DEF TakeAll, FoldLeft, MapThenFoldSet
  <2> QED  BY <1>1, <2>1, Zenon
<1>7. Solves(c)
  BY <1>5, Zenon
<1> HIDE DEF c
<1>8. c[{}] = {m} /\ \A s \in SUBSET (1 .. Len(seq)) :
          s # {} => c[s] = TakeStep(queued, c[s \ {Max(s)}], seq[Max(s)])
  <2>1. \A s \in SUBSET (1 .. Len(seq)) :
            c[s] = IF s = {} THEN {m}
                   ELSE TakeStep(queued, c[s \ {Max(s)}], seq[Max(s)])
    BY <1>7, Zenon
  <2>2. {} \in SUBSET (1 .. Len(seq))
    OBVIOUS
  <2> QED  BY <2>1, <2>2, Zenon
<1>9. Chosen(c, F, {m}, seq, V)
  BY <1>3, <1>8, LastElement DEF Chosen
<1>10. PICK h : /\ Runs(h, F, {m}, seq) /\ \A n \in 0 .. Len(seq) : h[n] \in V
                /\ c[1 .. Len(seq)] = h[Len(seq)]
  <2>1. Runs(Along(c, seq), F, {m}, seq)
    BY <1>0, <1>2, <1>9, ChosenRuns
  <2>2. \A n \in 0 .. Len(seq) : Along(c, seq)[n] \in V
    BY <1>0, <1>2, <1>9, ChosenRuns
  <2>3. c[1 .. Len(seq)] = Along(c, seq)[Len(seq)]
    BY <1>1 DEF Along
  <2> QED  BY <2>1, <2>2, <2>3
<1>11. \A n \in 1 .. Len(seq) : h[n] = TakeStep(queued, h[n - 1], seq[n])
  BY <1>1, <1>3, <1>10 DEF Runs
<1> QED  BY <1>6, <1>10, <1>11 DEF Runs, TakeRuns
----------------------------------------------------------------------------
(* What those calls leave.                                                 *)

\* Destroying a context gives up mappings only
Shrinks(m, x) ==
    /\ x.open = m.open /\ x.closing = m.closing
    /\ x.refs = m.refs /\ x.domain = m.domain
    /\ x.mapped \subseteq m.mapped /\ x.bound \subseteq m.bound
    /\ Usable(x) => Usable(m)

LEMMA ClearStepSound ==
    ASSUME NEW m \in Sound, NEW S, S \subseteq {y \in Sound : Shrinks(m, y)},
           NEW b \in Buffer, NEW x \in ClearStep(S, b)
    PROVE  x \in Sound /\ Shrinks(m, x)
<1>1. PICK y \in S : \E r \in ClearRenderBufferPpgtt(b, [y EXCEPT !.ok = TRUE]) :
          x = [r EXCEPT !.ok = @ /\ y.ok]
  <2>1. \A T : x \in UNION T => \E U \in T : x \in U
    OBVIOUS
  <2> QED  BY <2>1, Zenon DEF ClearStep, Always
<1>2. PICK t : t = [y EXCEPT !.ok = TRUE]
  OBVIOUS
<1>3. PICK r \in ClearRenderBufferPpgtt(b, t) : x = [r EXCEPT !.ok = @ /\ y.ok]
  BY <1>1, <1>2
<1>4. y \in Sound /\ Shrinks(m, y) /\ y.ok \in BOOLEAN
  BY DEF Sound, MemoryState
<1>5. t \in Sound /\ Alike(y, t)
  BY <1>2, <1>4, OkSound
<1>6. r \in Sound /\ LeavesOthers(b, t, r)
  BY <1>5, ClearSound
<1>7. x \in Sound /\ Alike(r, x)
  <2>1. (r.ok /\ y.ok) \in BOOLEAN
    BY <1>4, <1>6 DEF Sound, MemoryState
  <2>2. x = [r EXCEPT !.ok = r.ok /\ y.ok]
    BY <1>3
  <2> QED  BY <1>6, <2>1, <2>2, OkSound
<1> QED  BY <1>4, <1>5, <1>6, <1>7 DEF Shrinks, Alike, LeavesOthers, Usable

LEMMA UnmappedSound ==
    ASSUME NEW m \in Sound, NEW x \in Unmapped(m)
    PROVE  x \in Sound /\ Shrinks(m, x)
<1> DEFINE off == [m EXCEPT !.ready = FALSE]
           V == SUBSET {y \in Sound : Shrinks(off, y)}
<1>0. m \in MemoryState /\ IsFiniteSet(m.open) /\ m.open \subseteq Buffer
  BY DEF Sound, MemoryState
<1>1. off \in Sound /\ Alike(m, off)
  <2>1. off \in MemoryState /\ Alike(m, off)
    BY <1>0 DEF MemoryState, Alike
  <2> HIDE DEF off
  <2> QED  BY <2>1 DEF Sound, Accounted, Trusted, Usable, Alike
<1>2. PICK order \in SetToSeqs(m.open) : \E y \in ClearAll(off, order) :
          x = IF y.ok THEN y ELSE [y EXCEPT !.kept = TRUE, !.unsafe = TRUE]
  <2>1. Unmapped(m) =
            {IF y.ok THEN y ELSE [y EXCEPT !.kept = TRUE, !.unsafe = TRUE] :
                y \in UNION {ClearAll(off, order) : order \in SetToSeqs(m.open)}}
    BY Zenon DEF Unmapped, ClearAll, ClearStep
  <2> HIDE DEF off
  <2>2. PICK y \in UNION {ClearAll(off, order) : order \in SetToSeqs(m.open)} :
            x = IF y.ok THEN y ELSE [y EXCEPT !.kept = TRUE, !.unsafe = TRUE]
    BY <2>1
  <2> QED  BY <2>2
<1>3. PICK y \in ClearAll(off, order) :
          x = IF y.ok THEN y ELSE [y EXCEPT !.kept = TRUE, !.unsafe = TRUE]
  BY <1>2
<1> HIDE DEF off
<1>4. order \in Seq(Buffer)
  <2>1. order \in Seq(m.open)
    BY <1>0, Orders
  <2> QED  BY <1>0, <2>1
<1>5. ClearClosed(V, Buffer, off)
  <2>1. {off} \in V
    BY <1>1 DEF Shrinks
  <2>2. \A S \in V, b \in Buffer : ClearStep(S, b) \in V
    BY <1>1, ClearStepSound
  <2> QED  BY <2>1, <2>2 DEF ClearClosed
<1> HIDE DEF V
<1>6. PICK h : ClearRuns(h, V, off, order)
  BY <1>4, <1>5, ClearAllRuns
<1>7. ClearAll(off, order) \in V
  <2>1. Len(order) \in 0 .. Len(order)
    BY <1>4
  <2> QED  BY <1>6, <2>1 DEF ClearRuns
<1>8. y \in Sound /\ Shrinks(off, y)
  BY <1>7 DEF V
<1>9. Shrinks(m, y)
  BY <1>1, <1>8 DEF Shrinks, Alike, Usable
<1>10. CASE y.ok
  BY <1>3, <1>8, <1>9, <1>10
<1>11. CASE ~y.ok
  <2>0. y \in MemoryState
    BY <1>8 DEF Sound
  <2>1. /\ x \in MemoryState
        /\ x.resident = y.resident /\ x.open = y.open
        /\ x.closing = y.closing /\ x.mapped = y.mapped /\ x.bound = y.bound
        /\ x.domain = y.domain /\ x.refs = y.refs /\ x.global = y.global
        /\ x.quarantined = y.quarantined /\ x.unsafe = TRUE
        /\ x.named = y.named /\ x.wired = y.wired
    BY <1>3, <1>11, <2>0 DEF MemoryState
  <2>2. Accounted(x) /\ Trusted(x) /\ IsFiniteSet(x.open)
    BY <1>8, <2>1 DEF Sound, Accounted, Trusted, Usable
  <2> QED  BY <1>9, <2>1, <2>2 DEF Sound, Shrinks, Usable
<1> QED  BY <1>10, <1>11

\* What releasing the buffers of B leaves
ReleasedAll(B, m, x) ==
    /\ x.open = m.open \ B /\ x.closing = m.closing \ B
    /\ x.mapped = m.mapped \ B /\ x.bound = m.bound \ B
    /\ x.domain = [b \in Buffer |-> IF b \in B THEN "cpu" ELSE m.domain[b]]
    /\ x.refs = [b \in Buffer |-> IF b \in B THEN 0 ELSE m.refs[b]]
    /\ x.resident \subseteq m.resident /\ m.resident \ B \subseteq x.resident
    /\ Usable(x) => Usable(m)
    /\ m.quarantined \subseteq x.quarantined

LEMMA ReleasedNone ==
    ASSUME NEW m \in Sound
    PROVE  ReleasedAll({}, m, m)
<1>1. m.domain \in [Buffer -> {"cpu", "bcs", "rcs"}] /\ m.refs \in [Buffer -> Int]
  BY DEF Sound, MemoryState
<1>2. m.domain = [b \in Buffer |-> m.domain[b]] /\ m.refs = [b \in Buffer |-> m.refs[b]]
  BY <1>1
<1> QED  BY <1>2 DEF ReleasedAll

LEMMA ReleasedOneMore ==
    ASSUME NEW B, NEW b, NEW m, NEW y, NEW t, NEW x,
           ReleasedAll(B, m, y), Alike(y, t), Released(b, t, x)
    PROVE  ReleasedAll(B \cup {b}, m, x)
<1>1. x.domain = [c \in Buffer |-> IF c \in B \cup {b} THEN "cpu" ELSE m.domain[c]]
  BY DEF ReleasedAll, Released, Alike, At
<1>2. x.refs = [c \in Buffer |-> IF c \in B \cup {b} THEN 0 ELSE m.refs[c]]
  BY DEF ReleasedAll, Released, Alike, At
<1>3. Usable(x) => Usable(m)
  BY DEF ReleasedAll, Released, Alike, Usable
<1> QED  BY <1>1, <1>2, <1>3 DEF ReleasedAll, Released, Alike

LEMMA ReleaseStepSound ==
    ASSUME NEW S, S \subseteq Sound, NEW b \in Buffer, NEW x \in ReleaseStep(S, b)
    PROVE  /\ x \in Sound
           /\ \E y \in S : \A B, m : ReleasedAll(B, m, y) => ReleasedAll(B \cup {b}, m, x)
<1>1. PICK y \in S : x \in ReleaseClientRenderBuffer(b, [y EXCEPT !.ok = TRUE])
  <2>1. \A T : x \in UNION T => \E U \in T : x \in U
    OBVIOUS
  <2> QED  BY <2>1, Zenon DEF ReleaseStep
<1>2. PICK t : t = [y EXCEPT !.ok = TRUE]
  OBVIOUS
<1>3. y \in Sound
  OBVIOUS
<1>4. t \in Sound /\ Alike(y, t) /\ t.ok
  BY <1>2, <1>3, OkSound
<1>5. x \in Sound /\ Released(b, t, x)
  BY <1>1, <1>2, <1>4, ReleaseSound
<1>6. \A B, m : ReleasedAll(B, m, y) => ReleasedAll(B \cup {b}, m, x)
  BY <1>4, <1>5, ReleasedOneMore
<1> QED  BY <1>5, <1>6

\* The first n elements
First(seq, n) == {seq[i] : i \in 1 .. n}

LEMMA FirstNext ==
    ASSUME NEW seq, NEW len \in Nat
    PROVE  First(seq, 0) = {} /\ \A n \in 1 .. len :
               First(seq, n) = First(seq, n - 1) \cup {seq[n]}
<1>1. 1 .. 0 = {}
  OBVIOUS
<1>2. ASSUME NEW n \in 1 .. len PROVE First(seq, n) = First(seq, n - 1) \cup {seq[n]}
  <2>1. \A i : i \in 1 .. n <=> i \in 1 .. (n - 1) \/ i = n
    OBVIOUS
  <2> QED  BY <2>1, Zenon DEF First
<1> QED  BY <1>1, <1>2 DEF First

LEMMA ReleaseAllSound ==
    ASSUME NEW m \in Sound, NEW order \in Seq(Buffer), NEW x \in ReleaseAll(m, order)
    PROVE  x \in Sound /\ ReleasedAll(First(order, Len(order)), m, x)
<1> DEFINE V == SUBSET Sound
           W == [n \in 0 .. Len(order) |->
                    {S \in V : \A y \in S : ReleasedAll(First(order, n), m, y)}]
<1>0. Len(order) \in Nat
  OBVIOUS
<1>1. ReleaseClosed(V, Buffer, m)
  BY ReleaseStepSound DEF ReleaseClosed
<1>2. PICK h : ReleaseRuns(h, V, m, order)
  BY <1>1, ReleaseAllRuns
<1>3. h[0] \in W[0]
  <2>1. h[0] = {m} /\ h[0] \in V
    BY <1>0, <1>2 DEF ReleaseRuns
  <2>2. \A y \in h[0] : ReleasedAll(First(order, 0), m, y)
    BY <1>0, <2>1, FirstNext, ReleasedNone
  <2> QED  BY <1>0, <2>1, <2>2
<1>4. ASSUME NEW n \in 1 .. Len(order), h[n - 1] \in W[n - 1] PROVE h[n] \in W[n]
  <2>1. n \in 0 .. Len(order) /\ n - 1 \in 0 .. Len(order) /\ order[n] \in Buffer
    BY <1>0
  <2>2. h[n] \in V /\ h[n] = ReleaseStep(h[n - 1], order[n])
    BY <1>2, <2>1 DEF ReleaseRuns
  <2>3. h[n - 1] \subseteq Sound
        /\ \A y \in h[n - 1] : ReleasedAll(First(order, n - 1), m, y)
    BY <1>4, <2>1
  <2>4. ASSUME NEW y \in h[n] PROVE ReleasedAll(First(order, n), m, y)
    <3>1. \E z \in h[n - 1] : \A B, k : ReleasedAll(B, k, z)
                                   => ReleasedAll(B \cup {order[n]}, k, y)
      BY <2>1, <2>2, <2>3, ReleaseStepSound
    <3>2. First(order, n) = First(order, n - 1) \cup {order[n]}
      BY <1>0, FirstNext
    <3> QED  BY <2>3, <3>1, <3>2
  <2> QED  BY <2>1, <2>2, <2>4
<1> HIDE DEF W
<1>5. h[Len(order)] \in W[Len(order)]
  BY <1>0, <1>3, <1>4, RunsInvariant
<1> USE DEF W
<1>6. ReleaseAll(m, order) = h[Len(order)]
  BY <1>2 DEF ReleaseRuns
<1> QED  BY <1>0, <1>5, <1>6

----------------------------------------------------------------------------
(* The objects of a job.                                                   *)

\* Records that agree but for what counts the uses of a buffer
ButRefs(m, x) ==
    /\ x.resident = m.resident /\ x.open = m.open
    /\ x.closing = m.closing /\ x.mapped = m.mapped /\ x.bound = m.bound
    /\ x.domain = m.domain /\ x.global = m.global
    /\ x.quarantined = m.quarantined
    /\ x.kept = m.kept /\ x.unsafe = m.unsafe /\ x.faulted = m.faulted
    /\ x.named = m.named /\ x.wired = m.wired /\ x.ok = m.ok

ButDomain(m, x) ==
    /\ x.resident = m.resident /\ x.open = m.open
    /\ x.closing = m.closing /\ x.mapped = m.mapped /\ x.bound = m.bound
    /\ x.refs = m.refs /\ x.global = m.global
    /\ x.quarantined = m.quarantined
    /\ x.kept = m.kept /\ x.unsafe = m.unsafe /\ x.faulted = m.faulted
    /\ x.named = m.named /\ x.wired = m.wired /\ x.ok = m.ok

LEMMA RefsSound ==
    ASSUME NEW m \in Sound, NEW f \in [Buffer -> Int]
    PROVE  LET x == [m EXCEPT !.refs = f]
           IN  x \in Sound /\ ButRefs(m, x) /\ x.refs = f
<1> DEFINE x == [m EXCEPT !.refs = f]
<1>1. m \in MemoryState
  BY DEF Sound
<1>2. x \in MemoryState /\ ButRefs(m, x) /\ x.refs = f
  BY <1>1 DEF MemoryState, ButRefs
<1> HIDE DEF x
<1>3. Accounted(x) /\ Trusted(x) /\ IsFiniteSet(x.open)
  BY <1>2 DEF Sound, Accounted, Trusted, Usable, ButRefs
<1>4. x \in Sound /\ ButRefs(m, x) /\ x.refs = f
  BY <1>2, <1>3 DEF Sound
<1> QED  BY <1>4 DEF x

LEMMA DomainSound ==
    ASSUME NEW m \in Sound, NEW f \in [Buffer -> {"cpu", "bcs", "rcs"}]
    PROVE  LET x == [m EXCEPT !.domain = f]
           IN  x \in Sound /\ ButDomain(m, x) /\ x.domain = f
<1> DEFINE x == [m EXCEPT !.domain = f]
<1>1. m \in MemoryState
  BY DEF Sound
<1>2. x \in MemoryState /\ ButDomain(m, x) /\ x.domain = f
  BY <1>1 DEF MemoryState, ButDomain
<1> HIDE DEF x
<1>3. Accounted(x) /\ Trusted(x) /\ IsFiniteSet(x.open)
  BY <1>2 DEF Sound, Accounted, Trusted, Usable, ButDomain
<1>4. x \in Sound /\ ButDomain(m, x) /\ x.domain = f
  BY <1>2, <1>3 DEF Sound
<1> QED  BY <1>4 DEF x

LEMMA ReferenceSound ==
    ASSUME NEW m \in Sound, NEW d \in Int, NEW objects, NEW x, x = Reference(d, objects, m)
    PROVE  /\ x \in Sound /\ ButRefs(m, x)
           /\ x.refs = [b \in Buffer |-> IF b \in ToSet(objects) THEN m.refs[b] + d
                                         ELSE m.refs[b]]
<1> DEFINE f == [b \in Buffer |-> IF b \in ToSet(objects) THEN m.refs[b] + d
                                  ELSE m.refs[b]]
<1>1. m.refs \in [Buffer -> Int]
  BY DEF Sound, MemoryState
<1>2. f \in [Buffer -> Int]
  BY <1>1
<1>3. x = [m EXCEPT !.refs = f]
  BY DEF Reference
<1> HIDE DEF f
<1>4. x \in Sound /\ ButRefs(m, x) /\ x.refs = f
  BY <1>2, <1>3, RefsSound
<1> QED  BY <1>4 DEF f

LEMMA SetDomainSound ==
    ASSUME NEW m \in Sound, NEW d \in {"cpu", "bcs", "rcs"}, NEW objects,
           NEW x, x = SetDomain(d, objects, m)
    PROVE  /\ x \in Sound /\ ButDomain(m, x)
           /\ x.domain = [b \in Buffer |-> IF b \in ToSet(objects) THEN d
                                           ELSE m.domain[b]]
<1> DEFINE f == [b \in Buffer |-> IF b \in ToSet(objects) THEN d ELSE m.domain[b]]
<1>1. m.domain \in [Buffer -> {"cpu", "bcs", "rcs"}]
  BY DEF Sound, MemoryState
<1>2. f \in [Buffer -> {"cpu", "bcs", "rcs"}]
  BY <1>1
<1>3. x = [m EXCEPT !.domain = f]
  BY DEF SetDomain
<1> HIDE DEF f
<1>4. x \in Sound /\ ButDomain(m, x) /\ x.domain = f
  BY <1>2, <1>3, DomainSound
<1> QED  BY <1>4 DEF f

LEMMA OneObject ==
    ASSUME NEW b
    PROVE  ToSet(<<b>>) = {b}
BY DEF ToSet

\* What bringing buffers back for a job leaves as it is
Holds(m, x) ==
    /\ x.open = m.open /\ x.closing = m.closing /\ x.mapped = m.mapped
    /\ Usable(x) => Usable(m) /\ Needed(m) \cap m.resident \subseteq x.resident

\* The objects of B have been taken for a job that is queued
Queued(B, m, x) ==
    /\ Holds(m, x) /\ x.domain = m.domain /\ x.bound = m.bound
    /\ \A b \in Buffer : m.refs[b] # 0 => x.refs[b] # 0
    /\ x.ok => /\ B \subseteq x.open \cap x.mapped
               /\ Usable(x) => B \subseteq x.resident
               /\ x.refs = [b \in Buffer |-> IF b \in B THEN m.refs[b] + 1
                                             ELSE m.refs[b]]

LEMMA QueueStepSound ==
    ASSUME NEW S, S \subseteq Sound, NEW b \in Buffer, NEW x \in QueueStep(S, b)
    PROVE  /\ x \in Sound
           /\ \E y \in S : \A B, m : /\ m.refs \in [Buffer -> Nat] /\ b \notin B
                                     /\ B \subseteq Buffer /\ Queued(B, m, y)
                                     => Queued(B \cup {b}, m, x)
<1>1. PICK y \in S : x \in IF y.ok
                           THEN IF ~Enqueueable(b, y) \/ b \notin y.mapped THEN Refused(y)
                                ELSE Then(MakeRenderBufferResident(b, y),
                                          LAMBDA r : {Reference(1, <<b>>, r)})
                           ELSE {y}
  <2>1. \A T : x \in UNION T => \E U \in T : x \in U
    OBVIOUS
  <2> QED  BY <2>1, Zenon DEF QueueStep, Then
<1>2. y \in Sound
  OBVIOUS
<1>3. CASE ~y.ok
  BY <1>1, <1>2, <1>3 DEF Queued
<1>4. CASE x \in Refused(y)
  <2>1. x \in Sound /\ Alike(y, x) /\ ~x.ok
    BY <1>2, <1>4, RefusedSame
  <2> QED  BY <2>1 DEF Queued, Alike, Holds, Usable
<1>5. CASE y.ok /\ b \in y.open \cap y.mapped
           /\ x \in Then(MakeRenderBufferResident(b, y), LAMBDA r : {Reference(1, <<b>>, r)})
  <2>1. PICK r \in MakeRenderBufferResident(b, y) :
            x \in IF r.ok THEN {Reference(1, <<b>>, r)} ELSE {r}
    BY <1>5 DEF Then
  <2>2. r \in Sound /\ EvictKeeps(y, r) /\ (r.ok => b \in r.resident)
    BY <1>2, <1>5, ResidentSound
  <2>3. CASE ~r.ok
    <3>1. x = r
      BY <2>1, <2>3
    <3> QED  BY <2>2, <2>3, <3>1 DEF Queued, EvictKeeps, Holds, Needed
  <2>4. CASE r.ok
    <3>1. x = Reference(1, <<b>>, r)
      BY <2>1, <2>4
    <3>2. /\ x \in Sound /\ ButRefs(r, x)
          /\ x.refs = [c \in Buffer |-> IF c = b THEN y.refs[c] + 1 ELSE y.refs[c]]
      BY <2>2, <3>1, OneObject, ReferenceSound DEF EvictKeeps
    <3>3. ASSUME NEW B, NEW m, m.refs \in [Buffer -> Nat], b \notin B, B \subseteq Buffer,
                 Queued(B, m, y)
          PROVE  Queued(B \cup {b}, m, x)
      <4>1. y.refs = [c \in Buffer |-> IF c \in B THEN m.refs[c] + 1 ELSE m.refs[c]]
        BY <1>5, <3>3 DEF Queued
      <4>2. x.refs = [c \in Buffer |-> IF c \in B \cup {b} THEN m.refs[c] + 1
                                       ELSE m.refs[c]]
        BY <3>2, <3>3, <4>1
      <4>3. \A c \in Buffer : m.refs[c] # 0 => x.refs[c] # 0
        BY <3>3, <4>2
      <4>4. B \subseteq Needed(y) /\ Needed(m) \subseteq Needed(y)
        BY <3>3, <4>1 DEF Needed, Queued
      <4>5. Holds(m, x) /\ x.domain = m.domain /\ x.bound = m.bound
        BY <2>2, <3>2, <3>3, <4>4 DEF Queued, Holds, EvictKeeps, ButRefs, Usable
      <4>6. B \cup {b} \subseteq x.open \cap x.mapped
        BY <1>5, <2>2, <3>2, <3>3 DEF Queued, Holds, EvictKeeps, ButRefs
      <4>7. Usable(x) => B \cup {b} \subseteq x.resident
        BY <1>5, <2>2, <2>4, <3>2, <3>3, <4>4 DEF Queued, EvictKeeps, ButRefs, Usable
      <4> QED  BY <4>2, <4>3, <4>5, <4>6, <4>7 DEF Queued
    <3> QED  BY <3>2, <3>3
  <2> QED  BY <2>3, <2>4
<1>6. b \in y.open \/ ~Enqueueable(b, y)
  BY DEF Enqueueable
<1> QED  BY <1>1, <1>3, <1>4, <1>5, <1>6

LEMMA FirstOf ==
    ASSUME NEW X, NEW seq \in Seq(X)
    PROVE  First(seq, Len(seq)) = ToSet(seq)
BY DEF First, ToSet

LEMMA QueuedNone ==
    ASSUME NEW m \in Sound
    PROVE  Queued({}, m, m)
<1>1. m.refs = [b \in Buffer |-> m.refs[b]]
  BY DEF Sound, MemoryState
<1> QED  BY <1>1 DEF Queued, Holds

\* No object is named twice
Distinct(objects) ==
    \A i, j \in 1 .. Len(objects) : i # j => objects[i] # objects[j]

LEMMA NextIsNew ==
    ASSUME NEW seq \in Seq(Buffer), Distinct(seq), NEW n \in 1 .. Len(seq)
    PROVE  seq[n] \notin First(seq, n - 1) /\ First(seq, n - 1) \subseteq Buffer
BY DEF First, Distinct

LEMMA QueueAllSound ==
    ASSUME NEW m \in Sound, m.refs \in [Buffer -> Nat],
           NEW objects \in Seq(Buffer), Distinct(objects),
           NEW x \in QueueAll(m, objects)
    PROVE  x \in Sound /\ Queued(ToSet(objects), m, x)
<1> DEFINE V == SUBSET Sound
           W == [n \in 0 .. Len(objects) |->
                    {S \in V : \A y \in S : Queued(First(objects, n), m, y)}]
<1>0. Len(objects) \in Nat
  OBVIOUS
<1>1. QueueClosed(V, Buffer, m)
  BY QueueStepSound DEF QueueClosed
<1>2. PICK h : QueueRuns(h, V, m, objects)
  BY <1>1, QueueAllRuns
<1>3. h[0] \in W[0]
  <2>1. h[0] = {m} /\ h[0] \in V
    BY <1>0, <1>2 DEF QueueRuns
  <2>2. \A y \in h[0] : Queued(First(objects, 0), m, y)
    BY <1>0, <2>1, FirstNext, QueuedNone
  <2> QED  BY <1>0, <2>1, <2>2
<1>4. ASSUME NEW n \in 1 .. Len(objects), h[n - 1] \in W[n - 1] PROVE h[n] \in W[n]
  <2>1. n \in 0 .. Len(objects) /\ n - 1 \in 0 .. Len(objects) /\ objects[n] \in Buffer
    BY <1>0
  <2>2. h[n] \in V /\ h[n] = QueueStep(h[n - 1], objects[n])
    BY <1>2, <2>1 DEF QueueRuns
  <2>3. h[n - 1] \subseteq Sound
        /\ \A y \in h[n - 1] : Queued(First(objects, n - 1), m, y)
    BY <1>4, <2>1
  <2>4. ASSUME NEW y \in h[n] PROVE Queued(First(objects, n), m, y)
    <3> DEFINE B == First(objects, n - 1)
    <3>1. \E z \in h[n - 1] : \A C, k : /\ k.refs \in [Buffer -> Nat] /\ objects[n] \notin C
                                  /\ C \subseteq Buffer /\ Queued(C, k, z)
                                  => Queued(C \cup {objects[n]}, k, y)
      BY <2>1, <2>2, <2>3, QueueStepSound
    <3>2. First(objects, n) = B \cup {objects[n]}
      BY <1>0, FirstNext
    <3>3. objects[n] \notin B /\ B \subseteq Buffer
      BY NextIsNew
    <3> HIDE DEF B
    <3> QED  BY <2>3, <3>1, <3>2, <3>3 DEF B
  <2> QED  BY <2>1, <2>2, <2>4
<1> HIDE DEF W
<1>5. h[Len(objects)] \in W[Len(objects)]
  BY <1>0, <1>3, <1>4, RunsInvariant
<1> USE DEF W
<1>6. QueueAll(m, objects) = h[Len(objects)]
  BY <1>2 DEF QueueRuns
<1>7. First(objects, Len(objects)) = ToSet(objects)
  BY FirstOf
<1> QED  BY <1>0, <1>5, <1>6, <1>7

\* The objects of B have been taken for a job that is submitted
Taken(B, m, x) ==
    /\ Holds(m, x) /\ x.refs = m.refs /\ x.bound = m.bound
    /\ \A b \in Buffer : m.domain[b] # "cpu" => x.domain[b] # "cpu"
    /\ x.ok => /\ B \subseteq x.open \cap x.mapped
               /\ Usable(x) => B \subseteq x.resident
               /\ \A b \in B : x.domain[b] # "cpu"

LEMMA TakenNone ==
    ASSUME NEW m \in Sound
    PROVE  Taken({}, m, m)
BY DEF Taken, Holds

LEMMA TakeStepSound ==
    ASSUME NEW queued, NEW S, S \subseteq Sound, NEW b \in Buffer,
           NEW x \in TakeStep(queued, S, b)
    PROVE  /\ x \in Sound
           /\ \E y \in S : \A B, m : Taken(B, m, y) => Taken(B \cup {b}, m, x)
<1>1. PICK y \in S : x \in IF y.ok
                           THEN IF ~(/\ b \in (y.open \cap y.mapped) \ y.quarantined
                                     /\ b \in y.closing => queued
                                     /\ y.domain[b] = "cpu") THEN Refused(y)
                                ELSE Then(MakeRenderBufferResident(b, y),
                                          LAMBDA r : {SetDomain("rcs", <<b>>, r)})
                           ELSE {y}
  <2>1. \A T : x \in UNION T => \E U \in T : x \in U
    OBVIOUS
  <2> QED  BY <2>1, Zenon DEF TakeStep, Then
<1>2. y \in Sound
  OBVIOUS
<1>3. CASE ~y.ok
  BY <1>1, <1>2, <1>3 DEF Taken
<1>4. CASE x \in Refused(y)
  <2>1. x \in Sound /\ Alike(y, x) /\ ~x.ok
    BY <1>2, <1>4, RefusedSame
  <2> QED  BY <2>1 DEF Taken, Alike, Holds, Usable
<1>5. CASE y.ok /\ b \in y.open \cap y.mapped
           /\ x \in Then(MakeRenderBufferResident(b, y), LAMBDA r : {SetDomain("rcs", <<b>>, r)})
  <2>1. PICK r \in MakeRenderBufferResident(b, y) :
            x \in IF r.ok THEN {SetDomain("rcs", <<b>>, r)} ELSE {r}
    BY <1>5 DEF Then
  <2>2. r \in Sound /\ EvictKeeps(y, r) /\ (r.ok => b \in r.resident)
    BY <1>2, <1>5, ResidentSound
  <2>3. CASE ~r.ok
    <3>1. x = r
      BY <2>1, <2>3
    <3> QED  BY <2>2, <2>3, <3>1 DEF Taken, EvictKeeps, Holds, Needed
  <2>4. CASE r.ok
    <3>1. x = SetDomain("rcs", <<b>>, r)
      BY <2>1, <2>4
    <3>2. /\ x \in Sound /\ ButDomain(r, x)
          /\ x.domain = [c \in Buffer |-> IF c = b THEN "rcs" ELSE y.domain[c]]
      BY <2>2, <3>1, OneObject, SetDomainSound DEF EvictKeeps
    <3>3. ASSUME NEW B, NEW m, Taken(B, m, y)
          PROVE  Taken(B \cup {b}, m, x)
      <4>1. \A c \in Buffer : y.domain[c] # "cpu" => x.domain[c] # "cpu"
        BY <3>2
      <4>2. \A c \in B \cup {b} : x.domain[c] # "cpu"
        <5>1. B \subseteq Buffer
          BY <1>2, <1>5, <3>3 DEF Taken, Sound, MemoryState
        <5> QED  BY <1>5, <3>2, <3>3, <4>1, <5>1 DEF Taken
      <4>3. \A c \in Buffer : m.domain[c] # "cpu" => x.domain[c] # "cpu"
        BY <3>3, <4>1 DEF Taken
      <4>4. B \subseteq Needed(y) /\ Needed(m) \subseteq Needed(y)
        <5>1. B \subseteq Buffer
          BY <1>2, <1>5, <3>3 DEF Taken, Sound, MemoryState
        <5> QED  BY <1>5, <3>3, <5>1 DEF Needed, Taken
      <4>5. Holds(m, x) /\ x.refs = m.refs /\ x.bound = m.bound
        BY <2>2, <3>2, <3>3, <4>4 DEF Taken, Holds, EvictKeeps, ButDomain, Usable
      <4>6. B \cup {b} \subseteq x.open \cap x.mapped
        BY <1>5, <2>2, <3>2, <3>3 DEF Taken, Holds, EvictKeeps, ButDomain
      <4>7. Usable(x) => B \cup {b} \subseteq x.resident
        BY <1>5, <2>2, <2>4, <3>2, <3>3, <4>4 DEF Taken, EvictKeeps, ButDomain, Usable
      <4> QED  BY <4>2, <4>3, <4>5, <4>6, <4>7 DEF Taken
    <3> QED  BY <3>2, <3>3
  <2> QED  BY <2>3, <2>4
<1> QED  BY <1>1, <1>3, <1>4, <1>5

LEMMA TakeAllSound ==
    ASSUME NEW queued, NEW m \in Sound, NEW objects \in Seq(Buffer),
           NEW x \in TakeAll(queued, m, objects)
    PROVE  x \in Sound /\ Taken(ToSet(objects), m, x)
<1> DEFINE V == SUBSET Sound
           W == [n \in 0 .. Len(objects) |->
                    {S \in V : \A y \in S : Taken(First(objects, n), m, y)}]
<1>0. Len(objects) \in Nat
  OBVIOUS
<1>1. TakeClosed(queued, V, Buffer, m)
  BY TakeStepSound DEF TakeClosed
<1>2. PICK h : TakeRuns(queued, h, V, m, objects)
  BY <1>1, TakeAllRuns
<1>3. h[0] \in W[0]
  <2>1. h[0] = {m} /\ h[0] \in V
    BY <1>0, <1>2 DEF TakeRuns
  <2>2. \A y \in h[0] : Taken(First(objects, 0), m, y)
    BY <1>0, <2>1, FirstNext, TakenNone
  <2> QED  BY <1>0, <2>1, <2>2
<1>4. ASSUME NEW n \in 1 .. Len(objects), h[n - 1] \in W[n - 1] PROVE h[n] \in W[n]
  <2>1. n \in 0 .. Len(objects) /\ n - 1 \in 0 .. Len(objects) /\ objects[n] \in Buffer
    BY <1>0
  <2>2. h[n] \in V /\ h[n] = TakeStep(queued, h[n - 1], objects[n])
    BY <1>2, <2>1 DEF TakeRuns
  <2>3. h[n - 1] \subseteq Sound
        /\ \A y \in h[n - 1] : Taken(First(objects, n - 1), m, y)
    BY <1>4, <2>1
  <2>4. ASSUME NEW y \in h[n] PROVE Taken(First(objects, n), m, y)
    <3> DEFINE B == First(objects, n - 1)
    <3>1. \E z \in h[n - 1] : \A C, k : Taken(C, k, z)
                                  => Taken(C \cup {objects[n]}, k, y)
      <4>1. y \in TakeStep(queued, h[n - 1], objects[n])
        BY <2>2
      <4>2. \E z \in h[n - 1] : \A C, k : Taken(C, k, z) => Taken(C \cup {objects[n]}, k, y)
        BY <2>1, <2>3, <4>1, TakeStepSound, Zenon
      <4> QED  BY <4>2
    <3>2. First(objects, n) = B \cup {objects[n]}
      BY <1>0, FirstNext
    <3> HIDE DEF B
    <3> QED  BY <2>3, <3>1, <3>2 DEF B
  <2> QED  BY <2>1, <2>2, <2>4
<1> HIDE DEF W
<1>5. h[Len(objects)] \in W[Len(objects)]
  BY <1>0, <1>3, <1>4, RunsInvariant
<1> USE DEF W
<1>6. TakeAll(queued, m, objects) = h[Len(objects)]
  BY <1>2 DEF TakeRuns
<1>7. First(objects, Len(objects)) = ToSet(objects)
  BY FirstOf
<1> QED  BY <1>0, <1>5, <1>6, <1>7

----------------------------------------------------------------------------
(* The invariant.                                                          *)

ActiveStates ==
    {NoActive} \cup [stage : {"submit", "failed", "done", "running", "cancelling"},
                     job : RenderJobs]

RecordsInv ==
    /\ queue \in Seq(RenderJobs) /\ active \in ActiveStates
    /\ running \in {NoJob} \cup RenderJobs

\* Only buffers of the client are mapped or bound
Inside(m) == m.mapped \cup m.bound \subseteq m.open

MemoryInv == memory \in Sound /\ memory.ok /\ Inside(memory)

\* The jobs of q that use b, and how often b is in use with the job of the worker
Waiting(q, b) == {i \in 1 .. Len(q) : b \in ToSet(q[i].objects)}
HeldBy(q, a, b) ==
    Cardinality(Waiting(q, b)) + (IF b \in ToSet(a.job.objects) THEN 1 ELSE 0)

Held(m) == {b \in Buffer : m.refs[b] # 0}

\* The references of a buffer are those of the jobs that use it
Counts(m, q, a) == \A b \in Buffer : m.refs[b] = HeldBy(q, a, b)

\* What a job uses exists and, while the device is usable, is wired
HeldReady(m) == Held(m) \subseteq m.open /\ (Usable(m) => Held(m) \subseteq m.resident)

\* and commands find it in the page tables
CommandsMapped(m, q, a) ==
    Usable(m) => \A job \in {q[i] : i \in 1 .. Len(q)} \cup {a.job} :
                     job.kind = "commands" => ToSet(job.objects) \subseteq m.mapped

\* The submission that runs holds its objects by their domain
RunReady(m, r) ==
    Usable(m) => \A b \in ToSet(r.objects) :
        /\ b \in m.open \cap m.resident /\ m.domain[b] # "cpu"
        /\ r.kind = "commands" => b \in m.mapped
        /\ r.kind = "present" => b \in m.bound

JobsInv ==
    /\ Counts(memory, queue, active) /\ HeldReady(memory)
    /\ CommandsMapped(memory, queue, active) /\ RunReady(memory, running)

ResidencyInv == RecordsInv /\ MemoryInv /\ JobsInv

LEMMA JobTypes ==
    ASSUME NEW job \in RenderJobs
    PROVE  /\ job.kind \in {"commands", "present"} /\ job.objects \in Seq(Buffer)
           /\ Distinct(job.objects) /\ ToSet(job.objects) \subseteq Buffer
           /\ IsFiniteSet(ToSet(job.objects))
           /\ job.kind = "present" =>
                  job.objects[1] \in Buffer /\ ToSet(job.objects) = {job.objects[1]}
           /\ job # NoJob
<1>1. job.kind \in {"commands", "present"} /\ job.objects \in Objects
      /\ (job.kind = "present" => \E b \in Buffer : job.objects = <<b>>)
  BY DEF RenderJobs, Objects
<1>2. ASSUME NEW b \in Buffer, job.objects = <<b>>
      PROVE  /\ job.objects \in Seq(Buffer) /\ Distinct(job.objects)
             /\ job.objects[1] \in Buffer /\ ToSet(job.objects) = {job.objects[1]}
             /\ IsFiniteSet(ToSet(job.objects))
  <2>1. job.objects \in Seq(Buffer) /\ Distinct(job.objects) /\ job.objects[1] = b
    BY <1>2 DEF Distinct
  <2>2. ToSet(job.objects) = {b} /\ job.objects[1] \in Buffer
    BY <1>2, <2>1, OneObject
  <2>3. IsFiniteSet({b})
    BY FS_Singleton
  <2> QED  BY <2>1, <2>2, <2>3
<1>3. ASSUME NEW p \in Buffer \X Buffer, p[1] # p[2], job.objects = p
      PROVE  /\ job.objects \in Seq(Buffer) /\ Distinct(job.objects)
             /\ ToSet(job.objects) \subseteq Buffer /\ IsFiniteSet(ToSet(job.objects))
  <2>1. PICK c \in Buffer, d \in Buffer : p = <<c, d>>
    OBVIOUS
  <2>2. p \in Seq(Buffer) /\ Len(p) = 2 /\ c # d
    BY <1>3, <2>1
  <2>3. ToSet(p) = {c} \cup {d}
    BY <2>1 DEF ToSet
  <2>4. IsFiniteSet({c} \cup {d})
    BY FS_Singleton, FS_AddElement
  <2> QED  BY <1>3, <2>1, <2>2, <2>3, <2>4 DEF Distinct
<1>4. job # NoJob
  BY <1>1 DEF NoJob
<1> QED  BY <1>1, <1>2, <1>3, <1>4 DEF Objects

LEMMA ActiveTypes ==
    ASSUME NEW a \in ActiveStates
    PROVE  /\ a = NoActive => a.job = NoJob
           /\ a # NoActive => a.job \in RenderJobs
           /\ a.job.kind # "none" => a.job \in RenderJobs
           /\ a.stage # "idle" => a # NoActive /\ a.job \in RenderJobs
           /\ NoActive.job = NoJob /\ ToSet(NoJob.objects) = {} /\ NoJob.kind = "none"
<1>1. ToSet(NoJob.objects) = {} /\ NoJob.kind = "none"
  BY DEF NoJob, ToSet
<1> QED  BY <1>1 DEF ActiveStates, NoActive

LEMMA WaitingType ==
    ASSUME NEW q \in Seq(RenderJobs), NEW b
    PROVE  /\ IsFiniteSet(Waiting(q, b)) /\ Cardinality(Waiting(q, b)) \in Nat
           /\ Waiting(q, b) # {} => Cardinality(Waiting(q, b)) > 0
<1>1. Len(q) \in Nat
  OBVIOUS
<1>2. IsFiniteSet(1 .. Len(q))
  BY <1>1, FS_Interval
<1>3. Waiting(q, b) \in SUBSET (1 .. Len(q))
  BY DEF Waiting
<1>4. IsFiniteSet(Waiting(q, b))
  BY <1>2, <1>3, FS_Subset
<1>5. Cardinality(Waiting(q, b)) \in Nat
  BY <1>4, FS_CardinalityType
<1>6. Cardinality(Waiting(q, b)) = 0 <=> Waiting(q, b) = {}
  BY <1>4, FS_EmptySet
<1> QED  BY <1>4, <1>5, <1>6

LEMMA WaitingMore ==
    ASSUME NEW q \in Seq(RenderJobs), NEW job \in RenderJobs, NEW b
    PROVE  Cardinality(Waiting(Append(q, job), b))
               = Cardinality(Waiting(q, b)) + (IF b \in ToSet(job.objects) THEN 1 ELSE 0)
<1>1. /\ Len(Append(q, job)) = Len(q) + 1 /\ Len(q) \in Nat
      /\ \A i \in 1 .. Len(q) : Append(q, job)[i] = q[i]
      /\ Append(q, job)[Len(q) + 1] = job
  OBVIOUS
<1>2. IsFiniteSet(Waiting(q, b)) /\ Cardinality(Waiting(q, b)) \in Nat
  BY WaitingType
<1>3. \A i : i \in 1 .. (Len(q) + 1) <=> i \in 1 .. Len(q) \/ i = Len(q) + 1
  BY <1>1
<1>4. CASE b \in ToSet(job.objects)
  <2>1. Waiting(Append(q, job), b) = Waiting(q, b) \cup {Len(q) + 1}
    BY <1>1, <1>3, <1>4 DEF Waiting
  <2>2. Len(q) + 1 \notin Waiting(q, b)
    BY <1>1 DEF Waiting
  <2> QED  BY <1>2, <1>4, <2>1, <2>2, FS_AddElement
<1>5. CASE b \notin ToSet(job.objects)
  <2>1. Waiting(Append(q, job), b) = Waiting(q, b)
    BY <1>1, <1>3, <1>5 DEF Waiting
  <2> QED  BY <1>2, <1>5, <2>1
<1> QED  BY <1>4, <1>5

LEMMA WaitingLess ==
    ASSUME NEW q \in Seq(RenderJobs), q # <<>>, NEW b
    PROVE  Cardinality(Waiting(q, b))
               = Cardinality(Waiting(Tail(q), b))
                 + (IF b \in ToSet(Head(q).objects) THEN 1 ELSE 0)
<1> DEFINE rest == {i \in 2 .. Len(q) : b \in ToSet(q[i].objects)}
           f == [i \in Waiting(Tail(q), b) |-> i + 1]
<1>1. /\ Tail(q) \in Seq(RenderJobs) /\ Len(Tail(q)) = Len(q) - 1 /\ Len(q) \in Nat \ {0}
      /\ \A i \in 1 .. (Len(q) - 1) : Tail(q)[i] = q[i + 1]
      /\ Head(q) = q[1]
  OBVIOUS
<1>2. IsFiniteSet(Waiting(Tail(q), b)) /\ Cardinality(Waiting(Tail(q), b)) \in Nat
  BY <1>1, WaitingType
<1>3. Waiting(Tail(q), b) = {i \in 1 .. (Len(q) - 1) : b \in ToSet(q[i + 1].objects)}
  BY <1>1 DEF Waiting
<1>4. f \in Bijection(Waiting(Tail(q), b), rest)
  <2>1. \A i \in Waiting(Tail(q), b) : i \in Nat /\ i + 1 \in rest
    BY <1>1, <1>3
  <2>2. \A j \in rest : j - 1 \in Waiting(Tail(q), b) /\ j = (j - 1) + 1
    BY <1>1, <1>3
  <2>3. f \in [Waiting(Tail(q), b) -> rest]
    BY <2>1
  <2>4. IsInjective(f)
    BY <2>1 DEF IsInjective
  <2>5. \A j \in rest : \E i \in Waiting(Tail(q), b) : f[i] = j
    BY <2>2
  <2> HIDE DEF f, rest
  <2> QED  BY <2>3, <2>4, <2>5 DEF Bijection, Injection, Surjection
<1>5. IsFiniteSet(rest) /\ Cardinality(rest) = Cardinality(Waiting(Tail(q), b))
  BY <1>2, <1>4, FS_Bijection DEF ExistsBijection
<1>6. CASE b \in ToSet(Head(q).objects)
  <2>1. Waiting(q, b) = rest \cup {1} /\ 1 \notin rest
    BY <1>1, <1>6 DEF Waiting
  <2> HIDE DEF rest
  <2> QED  BY <1>2, <1>5, <1>6, <2>1, FS_AddElement
<1>7. CASE b \notin ToSet(Head(q).objects)
  <2>1. Waiting(q, b) = rest
    BY <1>1, <1>7 DEF Waiting
  <2> HIDE DEF rest
  <2> QED  BY <1>2, <1>5, <1>7, <2>1
<1> QED  BY <1>6, <1>7

----------------------------------------------------------------------------
(* Calls that leave the jobs alone.                                        *)

\* A buffer that a job uses stays as the job needs it
Carries(m, x) ==
    /\ x.refs = m.refs /\ Held(m) \cap m.open \subseteq x.open
    /\ Usable(x) => /\ Usable(m)
                    /\ Held(m) \cap m.resident \subseteq x.resident
                    /\ Held(m) \cap m.mapped \subseteq x.mapped

LEMMA CarriesTwice ==
    ASSUME NEW m, NEW y, NEW x, Carries(m, y), Carries(y, x)
    PROVE  Carries(m, x)
BY DEF Carries, Held

LEMMA AlikeCarries ==
    ASSUME NEW m, NEW x, Alike(m, x)
    PROVE  Carries(m, x)
BY DEF Alike, Carries, Usable

LEMMA EvictCarries ==
    ASSUME NEW m, NEW x, EvictKeeps(m, x)
    PROVE  Carries(m, x)
BY DEF EvictKeeps, Carries, Needed, Held

LEMMA JobHolds ==
    ASSUME NEW q \in Seq(RenderJobs), NEW a \in ActiveStates, NEW b,
           NEW job \in {q[i] : i \in 1 .. Len(q)} \cup {a.job}, b \in ToSet(job.objects)
    PROVE  HeldBy(q, a, b) > 0
<1>1. /\ Cardinality(Waiting(q, b)) \in Nat
      /\ Waiting(q, b) # {} => Cardinality(Waiting(q, b)) > 0
  BY WaitingType
<1>2. CASE job = a.job
  BY <1>1, <1>2 DEF HeldBy
<1>3. CASE \E i \in 1 .. Len(q) : job = q[i]
  <2>1. Waiting(q, b) # {}
    BY <1>3 DEF Waiting
  <2> QED  BY <1>1, <2>1 DEF HeldBy
<1> QED  BY <1>2, <1>3

LEMMA CarriesJobs ==
    ASSUME NEW m, NEW x, NEW q \in Seq(RenderJobs), NEW a \in ActiveStates,
           Counts(m, q, a), HeldReady(m), CommandsMapped(m, q, a), Carries(m, x)
    PROVE  Counts(x, q, a) /\ HeldReady(x) /\ CommandsMapped(x, q, a)
<1>1. Counts(x, q, a) /\ Held(x) = Held(m)
  BY DEF Counts, Carries, Held
<1>2. HeldReady(x)
  BY <1>1 DEF HeldReady, Carries
<1>3. ASSUME Usable(x), NEW job \in {q[i] : i \in 1 .. Len(q)} \cup {a.job},
             job.kind = "commands", NEW b \in ToSet(job.objects)
      PROVE  b \in x.mapped
  <2>1. job \in RenderJobs
    BY <1>3, ActiveTypes
  <2>2. b \in Buffer
    BY <1>3, <2>1, JobTypes
  <2>3. HeldBy(q, a, b) > 0
    BY <1>3, JobHolds
  <2>4. m.refs[b] # 0
    BY <2>2, <2>3 DEF Counts
  <2>5. b \in m.mapped
    BY <1>3 DEF CommandsMapped, Carries
  <2> QED  BY <1>3, <2>2, <2>4, <2>5 DEF Carries, Held
<1>4. CommandsMapped(x, q, a)
  BY <1>3 DEF CommandsMapped
<1> QED  BY <1>1, <1>2, <1>4

LEMMA NothingRuns ==
    ASSUME NEW m
    PROVE  RunReady(m, NoJob)
BY DEF RunReady, NoJob, ToSet

LEMMA LocalsSound ==
    ASSUME NEW m \in Sound
    PROVE  Locals(m) \in Sound /\ Alike(m, Locals(m)) /\ Locals(m).ok
<1> DEFINE x == Locals(m)
<1>1. m \in MemoryState
  BY DEF Sound
<1>2. x \in MemoryState /\ x.ok /\ Alike(m, x)
  BY <1>1 DEF Locals, MemoryState, Alike
<1> HIDE DEF x
<1>3. Accounted(x) /\ Trusted(x) /\ IsFiniteSet(x.open)
  BY <1>2 DEF Sound, Accounted, Trusted, Usable, Alike
<1>4. x \in Sound /\ Alike(m, x) /\ x.ok
  BY <1>2, <1>3 DEF Sound
<1> QED  BY <1>4 DEF x

\* What such a call has to show
LEMMA AloneKeeps ==
    ASSUME ResidencyInv, DeviceFree, Alone,
           memory' \in Sound, memory'.ok, Inside(memory'), Carries(memory, memory')
    PROVE  ResidencyInv'
<1>1. queue' = queue /\ active' = active /\ running' = running /\ running = NoJob
  BY DEF Alone, DeviceFree
<1>2. RecordsInv'
  BY <1>1 DEF ResidencyInv, RecordsInv
<1>3. MemoryInv'
  BY DEF MemoryInv
<1>4. Counts(memory', queue, active) /\ HeldReady(memory')
      /\ CommandsMapped(memory', queue, active)
  BY CarriesJobs DEF ResidencyInv, RecordsInv, JobsInv
<1>5. RunReady(memory', NoJob)
  BY NothingRuns
<1>6. JobsInv'
  BY <1>1, <1>4, <1>5 DEF JobsInv
<1> QED  BY <1>2, <1>3, <1>6 DEF ResidencyInv

\* ... when it becomes x but for its locals
LEMMA BecomesKeeps ==
    ASSUME ResidencyInv, DeviceFree, Alone, NEW x, memory' = Locals(x),
           x \in Sound, Inside(x), Carries(memory, x)
    PROVE  ResidencyInv'
<1>1. memory' \in Sound /\ Alike(x, memory') /\ memory'.ok
  BY LocalsSound
<1>2. Inside(memory')
  BY <1>1 DEF Inside, Alike
<1>3. Carries(memory, memory')
  BY <1>1, AlikeCarries, CarriesTwice
<1> QED  BY <1>1, <1>2, <1>3, AloneKeeps

\* A buffer that no job uses is released
LEMMA ReleasedCarries ==
    ASSUME NEW m \in Sound, Inside(m), NEW b \in Buffer, m.refs[b] = 0,
           NEW x, Released(b, m, x)
    PROVE  Inside(x) /\ Carries(m, x)
<1>1. m.refs \in [Buffer -> Int]
  BY DEF Sound, MemoryState
<1>2. At(m.refs, b, 0) = m.refs
  BY <1>1 DEF At
<1> QED  BY <1>2 DEF Released, Inside, Carries, Held

LEMMA CloseStep ==
    ASSUME ResidencyInv, NEW b \in Buffer, CloseRenderBuffer(b)
    PROVE  ResidencyInv'
<1>1. memory \in Sound /\ memory.ok /\ Inside(memory) /\ memory \in MemoryState
  BY DEF ResidencyInv, MemoryInv, Sound
<1>2. CASE memory.refs[b] # 0
  <2>1. memory' = [memory EXCEPT !.closing = @ \cup {b}] /\ DeviceFree /\ Alone
    BY <1>2 DEF CloseRenderBuffer
  <2>2. /\ memory' \in MemoryState
        /\ memory'.resident = memory.resident /\ memory'.open = memory.open
        /\ memory'.mapped = memory.mapped /\ memory'.bound = memory.bound
        /\ memory'.domain = memory.domain /\ memory'.refs = memory.refs
        /\ memory'.global = memory.global /\ memory'.quarantined = memory.quarantined
        /\ memory'.kept = memory.kept /\ memory'.unsafe = memory.unsafe
        /\ memory'.faulted = memory.faulted /\ memory'.ok = memory.ok
        /\ memory'.named = memory.named /\ memory'.wired = memory.wired
    BY <1>1, <2>1 DEF MemoryState
  <2>3. memory' \in Sound /\ memory'.ok /\ Inside(memory')
    BY <1>1, <2>2 DEF Sound, Accounted, Trusted, Usable, Inside
  <2>4. Carries(memory, memory')
    BY <2>2 DEF Carries, Usable
  <2> QED  BY <2>1, <2>3, <2>4, AloneKeeps
<1>3. CASE memory.refs[b] = 0
  <2>1. PICK x \in ReleaseClientRenderBuffer(b, memory) : memory' = Locals(x)
    BY <1>3 DEF CloseRenderBuffer, Becomes
  <2>2. DeviceFree /\ Alone
    BY DEF CloseRenderBuffer
  <2>3. x \in Sound /\ Released(b, memory, x)
    BY <1>1, ReleaseSound
  <2>4. Inside(x) /\ Carries(memory, x)
    BY <1>1, <1>3, <2>3, ReleasedCarries
  <2> QED  BY <2>1, <2>2, <2>3, <2>4, BecomesKeeps
<1> QED  BY <1>2, <1>3

LEMMA SetDomainStep ==
    ASSUME ResidencyInv, NEW b \in Buffer, SetRenderBufferDomain(b)
    PROVE  ResidencyInv'
<1>1. memory \in Sound /\ memory.ok /\ Inside(memory)
      /\ memory.domain \in [Buffer -> {"cpu", "bcs", "rcs"}]
  BY DEF ResidencyInv, MemoryInv, Sound, MemoryState
<1>2. PICK d \in {"cpu", "bcs"} : memory' = [memory EXCEPT !.domain = At(@, b, d)]
  BY DEF SetRenderBufferDomain
<1>3. At(memory.domain, b, d) \in [Buffer -> {"cpu", "bcs", "rcs"}]
  BY <1>1 DEF At
<1>4. memory' \in Sound /\ ButDomain(memory, memory')
  BY <1>1, <1>2, <1>3, DomainSound
<1>5. memory'.ok /\ Inside(memory') /\ Carries(memory, memory')
  BY <1>1, <1>4 DEF ButDomain, Inside, Carries, Usable
<1>6. DeviceFree /\ Alone
  BY DEF SetRenderBufferDomain
<1> QED  BY <1>4, <1>5, <1>6, AloneKeeps

LEMMA CreateContextStep ==
    ASSUME ResidencyInv, CreatePpgttContext
    PROVE  ResidencyInv'
<1>1. memory \in Sound /\ memory.ok /\ Inside(memory) /\ memory \in MemoryState
  BY DEF ResidencyInv, MemoryInv, Sound
<1>2. memory' = [memory EXCEPT !.ready = TRUE] /\ DeviceFree /\ Alone
  BY DEF CreatePpgttContext
<1>3. memory' \in MemoryState /\ Alike(memory, memory') /\ memory'.ok = memory.ok
  BY <1>1, <1>2 DEF MemoryState, Alike
<1>4. memory' \in Sound /\ memory'.ok /\ Inside(memory')
  BY <1>1, <1>3 DEF Sound, Accounted, Trusted, Usable, Inside, Alike
<1>5. Carries(memory, memory')
  BY <1>3, AlikeCarries
<1> QED  BY <1>2, <1>4, <1>5, AloneKeeps

\* An idle queue uses no buffer
LEMMA IdleHoldsNothing ==
    ASSUME ResidencyInv, Idle
    PROVE  Held(memory) = {} /\ \A b \in Buffer : HeldBy(queue, active, b) = 0
<1>1. queue = <<>> /\ active = NoActive /\ ToSet(active.job.objects) = {}
  BY ActiveTypes DEF Idle, ResidencyInv, RecordsInv
<1>2. \A b \in Buffer : Waiting(queue, b) = {}
  BY <1>1 DEF Waiting
<1>3. \A b \in Buffer : HeldBy(queue, active, b) = 0
  BY <1>1, <1>2, FS_EmptySet DEF HeldBy
<1> QED  BY <1>3 DEF Held, ResidencyInv, JobsInv, Counts

LEMMA DestroyContextStep ==
    ASSUME ResidencyInv, DestroyPpgttContext
    PROVE  ResidencyInv'
<1>1. memory \in Sound /\ memory.ok /\ Inside(memory)
  BY DEF ResidencyInv, MemoryInv
<1>2. DeviceFree /\ Alone /\ Idle
  BY DEF DestroyPpgttContext
<1>3. PICK x \in Unmapped(memory) : memory' = Locals(x)
  BY DEF DestroyPpgttContext, Becomes
<1>4. x \in Sound /\ Shrinks(memory, x)
  BY <1>1, UnmappedSound
<1>5. Held(memory) = {}
  BY <1>2, IdleHoldsNothing
<1>6. Inside(x) /\ Carries(memory, x)
  BY <1>1, <1>4, <1>5 DEF Inside, Carries, Shrinks
<1> QED  BY <1>2, <1>3, <1>4, <1>6, BecomesKeeps

\* The memory of the next client, after the buffers of this one are gone
Fresh(x) ==
    [MemoryAtOpen EXCEPT
        !.quarantined = x.quarantined, !.wired = x.wired, !.named = x.named,
        !.global = x.global, !.unsafe = x.unsafe, !.faulted = x.faulted]

LEMMA FreshSound ==
    ASSUME NEW x \in Sound, x.mapped = {}, x.bound = {}
    PROVE  /\ Fresh(x) \in Sound /\ Fresh(x).ok /\ Inside(Fresh(x))
           /\ Fresh(x).refs = [b \in Buffer |-> 0]
<1> DEFINE y == Fresh(x)
<1>0. x \in MemoryState
  BY DEF Sound
<1>1. /\ y \in MemoryState
      /\ y.resident = {} /\ y.open = {} /\ y.mapped = {} /\ y.bound = {}
      /\ y.refs = [b \in Buffer |-> 0] /\ y.kept = FALSE /\ y.ok
      /\ y.quarantined = x.quarantined /\ y.wired = x.wired /\ y.named = x.named
      /\ y.global = x.global /\ y.unsafe = x.unsafe /\ y.faulted = x.faulted
  <2>1. MemoryAtOpen \in MemoryState
    BY DEF MemoryAtOpen, MemoryState
  <2>2. /\ MemoryAtOpen.open = {} /\ MemoryAtOpen.resident = {}
        /\ MemoryAtOpen.mapped = {} /\ MemoryAtOpen.bound = {}
        /\ MemoryAtOpen.refs = [b \in Buffer |-> 0]
        /\ MemoryAtOpen.kept = FALSE /\ MemoryAtOpen.ok
    BY DEF MemoryAtOpen
  <2> QED  BY <1>0, <2>1, <2>2 DEF Fresh, MemoryState
<1> HIDE DEF y
<1>2. Accounted(y)
  BY <1>1 DEF Sound, Accounted
<1>3. Trusted(y)
  BY <1>1 DEF Sound, Trusted, Usable
<1>4. IsFiniteSet(y.open)
  BY <1>1, FS_EmptySet
<1>5. Inside(y)
  BY <1>1 DEF Inside
<1>6. y \in Sound /\ y.ok /\ Inside(y) /\ y.refs = [b \in Buffer |-> 0]
  BY <1>1, <1>2, <1>3, <1>4, <1>5 DEF Sound
<1> QED  BY <1>6 DEF y

LEMMA DestroyClientStep ==
    ASSUME ResidencyInv, DestroyRenderClient
    PROVE  ResidencyInv'
<1>1. memory \in Sound /\ memory.ok /\ Inside(memory)
      /\ IsFiniteSet(memory.open) /\ memory.open \subseteq Buffer
  BY DEF ResidencyInv, MemoryInv, Sound, MemoryState
<1>2. DeviceFree /\ Alone /\ Idle
  BY DEF DestroyRenderClient
<1>3. PICK order \in SetToSeqs(memory.open) :
          \E y \in ReleaseAll(memory, order) : memory' = Fresh(y)
  BY Zenon DEF DestroyRenderClient, ReleaseAll, ReleaseStep, Fresh
<1> PICK x \in ReleaseAll(memory, order) : memory' = Fresh(x)
  BY <1>3
<1>4. order \in Seq(Buffer) /\ memory.open = First(order, Len(order))
  <2>1. order \in Seq(memory.open) /\ memory.open = {order[i] : i \in 1 .. Len(order)}
    BY <1>1, Orders
  <2> QED  BY <1>1, <2>1 DEF First
<1>5. x \in Sound /\ ReleasedAll(memory.open, memory, x)
  BY <1>1, <1>4, ReleaseAllSound
<1>6. x.mapped = {} /\ x.bound = {}
  BY <1>1, <1>5 DEF ReleasedAll, Inside
<1>7. memory' \in Sound /\ memory'.ok /\ Inside(memory')
      /\ memory'.refs = [b \in Buffer |-> 0]
  BY <1>5, <1>6, FreshSound
<1>8. /\ queue' = queue /\ active' = active /\ running' = running
      /\ running = NoJob /\ queue = <<>> /\ active = NoActive
  BY <1>2 DEF Alone, DeviceFree, Idle
<1>9. RecordsInv' /\ MemoryInv'
  BY <1>7, <1>8 DEF ResidencyInv, RecordsInv, MemoryInv
<1>10. Counts(memory', queue, active)
  BY <1>2, <1>7, IdleHoldsNothing DEF Counts
<1>11. HeldReady(memory')
  BY <1>7 DEF HeldReady, Held
<1>12. CommandsMapped(memory', queue, active)
  <2>1. \A job \in {queue[i] : i \in 1 .. Len(queue)} \cup {active.job} : job.kind = "none"
    BY <1>8, ActiveTypes DEF ResidencyInv, RecordsInv
  <2> QED  BY <2>1 DEF CommandsMapped
<1>13. RunReady(memory', NoJob)
  BY NothingRuns
<1>14. JobsInv'
  BY <1>8, <1>10, <1>11, <1>12, <1>13 DEF JobsInv
<1> QED  BY <1>9, <1>14 DEF ResidencyInv

----------------------------------------------------------------------------
(* A buffer is made.                                                       *)

\* What building buffer b leaves as it is
Builds(b, m, x) ==
    /\ x.open = m.open /\ x.refs = m.refs
    /\ x.mapped \subseteq m.mapped \cup {b} /\ m.mapped \subseteq x.mapped
    /\ x.bound = m.bound
    /\ Usable(x) => Usable(m) /\ m.resident \subseteq x.resident

LEMMA AllocateSound ==
    ASSUME NEW m \in Sound, m.ok, NEW b \in Buffer, b \notin m.mapped,
           NEW x \in AllocateRenderMemory(b, m)
    PROVE  /\ x \in Sound /\ Builds(b, m, x) /\ x.mapped = m.mapped
           /\ x.ok => b \in x.wired
<1>0. m \in MemoryState
  BY DEF Sound
<1>1. CASE x \in Refused(m)
  <2>1. x \in Sound /\ Alike(m, x) /\ ~x.ok
    BY <1>1, RefusedSame
  <2> QED  BY <2>1 DEF Builds, Alike, Usable
<1>2. CASE x = Touch(b, [m EXCEPT !.wired = @ \cup {b}, !.resident = @ \cup {b},
                                  !.bytes = @ + BufferSize[b]])
  <2> DEFINE w == [m EXCEPT !.wired = @ \cup {b}]
  <2>1. w \in MemoryState
    BY <1>0 DEF MemoryState
  <2>2. x = Touch(b, Counted(b, w))
    <3>1. [m EXCEPT !.wired = @ \cup {b}, !.resident = @ \cup {b},
                    !.bytes = @ + BufferSize[b]] = Counted(b, w)
      BY <1>0 DEF Counted, MemoryState
    <3> QED  BY <1>2, <3>1
  <2>3. /\ x \in MemoryState
        /\ x.resident = w.resident \cup {b} /\ x.open = w.open
        /\ x.closing = w.closing /\ x.mapped = w.mapped /\ x.bound = w.bound
        /\ x.domain = w.domain /\ x.refs = w.refs /\ x.global = w.global
        /\ x.quarantined = w.quarantined
        /\ x.kept = w.kept /\ x.unsafe = w.unsafe /\ x.faulted = w.faulted
        /\ x.named = w.named /\ x.wired = w.wired /\ x.ok = w.ok
    <3> HIDE DEF w
    <3> QED  BY <2>1, <2>2, CountedRecord
  <2>4. /\ x.resident = m.resident \cup {b} /\ x.open = m.open
        /\ x.closing = m.closing /\ x.mapped = m.mapped /\ x.bound = m.bound
        /\ x.refs = m.refs /\ x.global = m.global
        /\ x.quarantined = m.quarantined
        /\ x.kept = m.kept /\ x.unsafe = m.unsafe /\ x.faulted = m.faulted
        /\ x.named = m.named /\ x.wired = m.wired \cup {b}
    BY <1>0, <2>3 DEF MemoryState
  <2> HIDE DEF w
  <2>5. Accounted(x) /\ IsFiniteSet(x.open) /\ Trusted(x)
    BY <2>4 DEF Sound, Accounted, Trusted, Usable
  <2>6. Builds(b, m, x)
    BY <2>4 DEF Builds, Usable
  <2> QED  BY <2>3, <2>4, <2>5, <2>6 DEF Sound
<1> QED  BY <1>1, <1>2 DEF AllocateRenderMemory, IfFails

LEMMA MapSound ==
    ASSUME NEW m \in Sound, NEW b \in Buffer, b \in m.wired,
           NEW x \in MapRenderBufferPpgtt(b, m)
    PROVE  x \in Sound /\ Builds(b, m, x)
<1>0. m \in MemoryState
  BY DEF Sound
<1>1. CASE x \in Refused(m)
  <2>1. x \in Sound /\ Alike(m, x)
    BY <1>1, RefusedSame
  <2> QED  BY <2>1 DEF Builds, Alike, Usable
<1>2. CASE x \in Stuck(b, m)
  <2>1. x \in Sound /\ EvictKeeps(m, x) /\ ~Usable(x) /\ x.resident = m.resident
    BY <1>2, StuckSound
  <2> QED  BY <2>1 DEF Builds, EvictKeeps
<1>3. CASE x = [m EXCEPT !.named = @ \cup {b}, !.mapped = @ \cup {b}]
  <2>1. /\ x \in MemoryState
        /\ x.resident = m.resident /\ x.open = m.open
        /\ x.mapped = m.mapped \cup {b} /\ x.bound = m.bound
        /\ x.refs = m.refs /\ x.global = m.global
        /\ x.quarantined = m.quarantined
        /\ x.kept = m.kept /\ x.unsafe = m.unsafe /\ x.faulted = m.faulted
        /\ x.named = m.named \cup {b} /\ x.wired = m.wired
    BY <1>0, <1>3 DEF MemoryState
  <2>2. Accounted(x) /\ IsFiniteSet(x.open) /\ Trusted(x)
    BY <2>1 DEF Sound, Accounted, Trusted, Usable
  <2>3. Builds(b, m, x)
    BY <2>1 DEF Builds, Usable
  <2> QED  BY <2>1, <2>2, <2>3 DEF Sound
<1>4. CASE x \in Unknown(b, m)
  <2> DEFINE u == [m EXCEPT !.named = @ \cup {b}]
  <2>1. x \in Stuck(b, u)
    BY <1>4 DEF Unknown
  <2>2. u \in MemoryState
    BY <1>0 DEF MemoryState
  <2>3. /\ x = [u EXCEPT !.ready = FALSE, !.kept = TRUE, !.unsafe = TRUE,
                         !.quarantined = @ \cup {b}, !.ok = FALSE]
        /\ x \in MemoryState
    BY <2>1, <2>2, StuckRecord
  <2>4. /\ x.resident = m.resident /\ x.open = m.open
        /\ x.mapped = m.mapped /\ x.bound = m.bound
        /\ x.refs = m.refs /\ x.global = m.global
        /\ x.quarantined = m.quarantined \cup {b} /\ x.unsafe
        /\ x.named = m.named \cup {b} /\ x.wired = m.wired
    BY <1>0, <2>3 DEF MemoryState
  <2> HIDE DEF u
  <2>5. Accounted(x) /\ IsFiniteSet(x.open) /\ Trusted(x)
    BY <2>4 DEF Sound, Accounted, Trusted, Usable
  <2>6. Builds(b, m, x)
    BY <2>4 DEF Builds, Usable
  <2> QED  BY <2>3, <2>5, <2>6 DEF Sound
<1> QED  BY <1>1, <1>2, <1>3, <1>4 DEF MapRenderBufferPpgtt, IfFails

LEMMA BuildsTwice ==
    ASSUME NEW b, NEW m, NEW y, NEW x, Builds(b, m, y), Builds(b, y, x)
    PROVE  Builds(b, m, x)
BY DEF Builds

LEMMA AlikeBuilds ==
    ASSUME NEW b, NEW m, NEW x, Alike(m, x)
    PROVE  Builds(b, m, x)
BY DEF Builds, Alike, Usable

LEMMA NewBuffer ==
    ASSUME NEW m \in Sound, NEW b \in Buffer
    PROVE  LET x == [m EXCEPT !.open = @ \cup {b}]
           IN  /\ x \in Sound /\ x.open = m.open \cup {b} /\ x.refs = m.refs
               /\ x.mapped = m.mapped /\ x.bound = m.bound /\ x.resident = m.resident
               /\ Usable(x) <=> Usable(m)
<1> DEFINE x == [m EXCEPT !.open = @ \cup {b}]
<1>0. m \in MemoryState
  BY DEF Sound
<1>1. /\ x \in MemoryState
      /\ x.resident = m.resident /\ x.open = m.open \cup {b}
      /\ x.mapped = m.mapped /\ x.bound = m.bound /\ x.refs = m.refs
      /\ x.global = m.global /\ x.quarantined = m.quarantined
      /\ x.kept = m.kept /\ x.unsafe = m.unsafe /\ x.faulted = m.faulted
      /\ x.named = m.named /\ x.wired = m.wired
  BY <1>0 DEF MemoryState
<1> HIDE DEF x
<1>2. Accounted(x) /\ Trusted(x)
  BY <1>1 DEF Sound, Accounted, Trusted, Usable
<1>3. IsFiniteSet(x.open)
  BY <1>1, FS_AddElement DEF Sound
<1>4. /\ x \in Sound /\ x.open = m.open \cup {b} /\ x.refs = m.refs
      /\ x.mapped = m.mapped /\ x.bound = m.bound /\ x.resident = m.resident
      /\ Usable(x) <=> Usable(m)
  BY <1>1, <1>2, <1>3 DEF Sound, Usable
<1> QED  BY <1>4 DEF x

\* A buffer is built whole or not at all
Built(b, m) ==
    Rescue(Then(AllocateRenderMemory(b, m),
                LAMBDA x : IF x.ready THEN MapRenderBufferPpgtt(b, x) ELSE {x}),
           LAMBDA x : ReleaseClientRenderBuffer(b, x))

LEMMA BuiltSound ==
    ASSUME NEW m \in Sound, m.ok, Inside(m), NEW b \in Buffer, b \notin m.open,
           m.refs[b] = 0, NEW x \in Built(b, m)
    PROVE  /\ x \in Sound
           /\ x.ok => Builds(b, m, x)
           /\ ~x.ok => Inside(x) /\ Carries(m, x)
<1> DEFINE map(y) == IF y.ready THEN MapRenderBufferPpgtt(b, y) ELSE {y}
           all == Then(AllocateRenderMemory(b, m), map)
<1>1. PICK w \in all :
          x \in IF w.ok THEN {w}
                ELSE {[r EXCEPT !.ok = FALSE] :
                         r \in ReleaseClientRenderBuffer(b, [w EXCEPT !.ok = TRUE])}
  <2>1. \A T : x \in UNION T => \E U \in T : x \in U
    OBVIOUS
  <2>2. x \in Rescue(all, LAMBDA y : ReleaseClientRenderBuffer(b, y))
    BY Zenon DEF Built
  <2> HIDE DEF all
  <2> QED  BY <2>1, <2>2, Zenon DEF Rescue
<1>2. PICK a \in AllocateRenderMemory(b, m) : w \in IF a.ok THEN map(a) ELSE {a}
  BY <1>1 DEF Then
<1>3. b \notin m.mapped
  BY DEF Inside
<1>4. a \in Sound /\ Builds(b, m, a) /\ (a.ok => b \in a.wired)
  BY <1>3, AllocateSound
<1>5. w \in Sound /\ Builds(b, m, w)
  <2>1. CASE w = a
    BY <1>4, <2>1
  <2>2. CASE a.ok /\ w \in MapRenderBufferPpgtt(b, a)
    <3>1. w \in Sound /\ Builds(b, a, w)
      BY <1>4, <2>2, MapSound
    <3> QED  BY <1>4, <3>1, BuildsTwice
  <2> QED  BY <1>2, <2>1, <2>2
<1>6. CASE w.ok
  BY <1>1, <1>5, <1>6
<1>7. CASE ~w.ok
  <2>1. PICK t : t = [w EXCEPT !.ok = TRUE]
    OBVIOUS
  <2>2. PICK r \in ReleaseClientRenderBuffer(b, t) : x = [r EXCEPT !.ok = FALSE]
    BY <1>1, <1>7, <2>1
  <2>3. t \in Sound /\ Alike(w, t) /\ t.ok
    BY <1>5, <2>1, OkSound
  <2>4. Builds(b, m, t)
    BY <1>5, <2>3, AlikeBuilds, BuildsTwice
  <2>5. r \in Sound /\ Released(b, t, r)
    BY <2>2, <2>3, ReleaseSound
  <2>6. x \in Sound /\ Alike(r, x) /\ ~x.ok
    BY <2>2, <2>5, OkSound
  <2>7. r.refs = m.refs
    <3>1. m.refs \in [Buffer -> Int]
      BY DEF Sound, MemoryState
    <3>2. At(m.refs, b, 0) = m.refs
      BY <3>1 DEF At
    <3> QED  BY <2>4, <2>5, <3>2 DEF Builds, Released
  <2>8. r.open = m.open /\ r.mapped = m.mapped /\ r.bound = m.bound
    BY <1>3, <2>4, <2>5 DEF Builds, Released, Inside
  <2>9. Usable(r) => Usable(m) /\ Held(m) \cap m.resident \subseteq r.resident
    BY <2>4, <2>5 DEF Builds, Released, Held
  <2>10. Inside(r) /\ Carries(m, r)
    BY <2>7, <2>8, <2>9 DEF Inside, Carries
  <2>11. Inside(x) /\ Carries(m, x)
    <3>1. Inside(x)
      BY <2>6, <2>10 DEF Inside, Alike
    <3> QED  BY <2>6, <2>10, <3>1, AlikeCarries, CarriesTwice
  <2> QED  BY <2>6, <2>11
<1> QED  BY <1>6, <1>7

LEMMA CreateStep ==
    ASSUME ResidencyInv, NEW b \in Buffer, CreateRenderBuffer(b)
    PROVE  ResidencyInv'
<1> DEFINE room == EnsureClientResidentBudget(BufferSize[b], memory)
           enter(x) == {[x EXCEPT !.open = @ \cup {b}]}
<1>1. memory \in Sound /\ memory.ok /\ Inside(memory) /\ HeldReady(memory)
  BY DEF ResidencyInv, MemoryInv, JobsInv
<1>2. DeviceFree /\ Alone /\ Usable(memory) /\ b \notin memory.open
  BY DEF CreateRenderBuffer
<1>3. PICK x \in Then(Then(room, LAMBDA y : Built(b, y)), enter) : memory' = Locals(x)
  <2>1. Becomes(Then(Then(room, LAMBDA y : Built(b, y)), enter))
    BY Zenon DEF CreateRenderBuffer, Built
  <2> HIDE DEF room, enter
  <2> QED  BY <2>1 DEF Becomes
<1>4. PICK z \in Then(room, LAMBDA y : Built(b, y)) : x \in IF z.ok THEN enter(z) ELSE {z}
  BY <1>3 DEF Then
<1>5. PICK y \in room : z \in IF y.ok THEN Built(b, y) ELSE {y}
  BY <1>4 DEF Then
<1>6. y \in Sound /\ EvictKeeps(memory, y)
  BY <1>1, <1>5, EnsureSound
<1>7. Inside(y) /\ Carries(memory, y)
  BY <1>1, <1>6, EvictCarries DEF EvictKeeps, Inside
<1>8. y.refs[b] = 0 /\ b \notin y.open
  BY <1>1, <1>2, <1>6 DEF HeldReady, Held, EvictKeeps
<1>9. z \in Sound /\ (~z.ok => Inside(z) /\ Carries(y, z))
      /\ (z.ok => Builds(b, y, z))
  <2>1. CASE ~y.ok
    BY <1>5, <1>6, <1>7, <2>1 DEF Carries
  <2>2. CASE y.ok
    BY <1>5, <1>6, <1>7, <1>8, <2>2, BuiltSound
  <2> QED  BY <2>1, <2>2
<1>10. x \in Sound /\ Inside(x) /\ Carries(y, x)
  <2>1. CASE ~z.ok
    BY <1>4, <1>9, <2>1
  <2>2. CASE z.ok
    <3>1. x = [z EXCEPT !.open = @ \cup {b}]
      BY <1>4, <2>2
    <3>2. /\ x \in Sound /\ x.open = z.open \cup {b} /\ x.refs = z.refs
          /\ x.mapped = z.mapped /\ x.bound = z.bound /\ x.resident = z.resident
          /\ Usable(x) <=> Usable(z)
      BY <1>9, <3>1, NewBuffer
    <3> QED  BY <1>7, <1>9, <2>2, <3>2 DEF Builds, Inside, Carries
  <2> QED  BY <2>1, <2>2
<1>11. Carries(memory, x)
  BY <1>7, <1>10, CarriesTwice
<1> QED  BY <1>2, <1>3, <1>10, <1>11, BecomesKeeps

----------------------------------------------------------------------------
(* The memory test.                                                        *)

\* What each of its steps leaves
Tested(m, x) == x \in Sound /\ Inside(x) /\ Carries(m, x) /\ x.open = m.open

LEMMA TestedTwice ==
    ASSUME NEW m, NEW y, NEW x, Tested(m, y), Tested(y, x)
    PROVE  Tested(m, x)
BY CarriesTwice DEF Tested

LEMMA AlikeTested ==
    ASSUME NEW m, NEW x \in Sound, Inside(m), Alike(m, x)
    PROVE  Tested(m, x)
<1>1. Inside(x) /\ x.open = m.open
  BY DEF Inside, Alike
<1> QED  BY <1>1, AlikeCarries DEF Tested

LEMMA ResidentTested ==
    ASSUME NEW m \in Sound, m.ok, Inside(m), NEW b \in Buffer,
           NEW x \in MakeRenderBufferResident(b, m)
    PROVE  Tested(m, x)
<1>1. x \in Sound /\ EvictKeeps(m, x)
  BY ResidentSound
<1>2. Inside(x) /\ x.open = m.open
  BY <1>1 DEF EvictKeeps, Inside
<1> QED  BY <1>1, <1>2, EvictCarries DEF Tested

LEMMA BindTested ==
    ASSUME NEW m \in Sound, m.ok, Inside(m), NEW b \in Buffer, b \in m.open,
           NEW x \in BindGgtt(b, m)
    PROVE  Tested(m, x)
<1>1. /\ x \in Sound /\ x.open = m.open /\ x.refs = m.refs /\ x.mapped = m.mapped
      /\ x.resident = m.resident /\ x.bound \subseteq m.bound \cup {b}
      /\ (Usable(x) => Usable(m))
  BY BindSound
<1> QED  BY <1>1 DEF Tested, Inside, Carries

LEMMA UnbindTested ==
    ASSUME NEW m \in Sound, Inside(m), NEW b \in Buffer, NEW x \in UnbindGgtt(b, m)
    PROVE  Tested(m, x)
<1>1. x \in Sound /\ LeavesOthers(b, m, x) /\ x.resident = m.resident
      /\ x.mapped = m.mapped
  BY UnbindSound
<1> QED  BY <1>1 DEF LeavesOthers, Tested, Inside, Carries

\* The copy engine did not finish: both buffers are kept
LEMMA FaultTested ==
    ASSUME NEW m \in Sound, Inside(m), NEW B \in SUBSET Buffer,
           NEW f \in [Buffer -> {"cpu", "bcs", "rcs"}],
           NEW x \in Refused([m EXCEPT !.faulted = TRUE, !.unsafe = TRUE,
                                       !.quarantined = @ \cup B, !.domain = f])
    PROVE  Tested(m, x)
<1>0. m \in MemoryState
  BY DEF Sound
<1>1. x = [m EXCEPT !.faulted = TRUE, !.unsafe = TRUE, !.quarantined = @ \cup B,
                    !.domain = f, !.ok = FALSE]
  BY <1>0 DEF Refused, MemoryState
<1>2. /\ x \in MemoryState
      /\ x.resident = m.resident /\ x.open = m.open
      /\ x.mapped = m.mapped /\ x.bound = m.bound /\ x.refs = m.refs
      /\ x.global = m.global /\ x.quarantined = m.quarantined \cup B
      /\ x.unsafe = TRUE /\ x.named = m.named /\ x.wired = m.wired
  BY <1>0, <1>1 DEF MemoryState
<1>3. x \in Sound
  BY <1>2 DEF Sound, Accounted, Trusted, Usable
<1> QED  BY <1>2, <1>3 DEF Tested, Inside, Carries, Usable

LEMMA MemoryTestStep ==
    ASSUME ResidencyInv, NEW source \in Buffer, NEW target \in Buffer,
           RunRenderMemoryTest(source, target)
    PROVE  ResidencyInv'
<1> DEFINE two == {source, target}
           bind(b, x) == IF b \in x.bound THEN {x} ELSE BindGgtt(b, x)
           unbind(b, x) == IF b \in memory.bound \cup x.quarantined THEN {x}
                           ELSE UnbindGgtt(b, x)
           dirty(x) == [x EXCEPT !.faulted = TRUE, !.unsafe = TRUE,
                                 !.quarantined = @ \cup two,
                                 !.domain = SetDomain("bcs", <<source, target>>, x).domain]
           copied(x) == {x} \cup Refused(x) \cup IfFails("gpu", Refused(dirty(x)))
           resident == Then(MakeRenderBufferResident(source, memory),
                            LAMBDA x : MakeRenderBufferResident(target, x))
           bound == Then(resident, LAMBDA x : bind(source, x))
           both == Then(bound, LAMBDA x : bind(target, x))
           done == Then(both, copied)
           undone == Always(done, LAMBDA x : unbind(target, x))
<1>0. memory \in Sound /\ memory.ok /\ Inside(memory)
  BY DEF ResidencyInv, MemoryInv
<1>1. PICK x \in Always(undone, LAMBDA y : unbind(source, y)) : memory' = Locals(x)
  <2>1. Becomes(Always(undone, LAMBDA y : unbind(source, y)))
    BY Zenon DEF RunRenderMemoryTest
  <2> HIDE DEF undone, unbind
  <2> QED  BY <2>1 DEF Becomes
<1>2. DeviceFree /\ Alone /\ two \subseteq memory.open
  BY DEF RunRenderMemoryTest
<1>3. ASSUME NEW y \in resident PROVE Tested(memory, y)
  <2>1. PICK z \in MakeRenderBufferResident(source, memory) :
            y \in IF z.ok THEN MakeRenderBufferResident(target, z) ELSE {z}
    BY <1>3 DEF Then
  <2>2. Tested(memory, z)
    BY <1>0, ResidentTested
  <2>3. CASE z.ok
    <3>1. Tested(z, y)
      BY <2>1, <2>2, <2>3, ResidentTested DEF Tested
    <3> QED  BY <2>2, <3>1, TestedTwice
  <2> QED  BY <2>1, <2>2, <2>3
<1> HIDE DEF resident
<1>4. ASSUME NEW b \in two, NEW z, Tested(memory, z), z.ok, NEW y \in bind(b, z)
      PROVE  Tested(memory, y)
  <2>1. CASE y = z
    BY <1>4, <2>1
  <2>2. CASE y \in BindGgtt(b, z)
    <3>1. Tested(z, y)
      BY <1>2, <1>4, <2>2, BindTested DEF Tested
    <3> QED  BY <1>4, <3>1, TestedTwice
  <2> QED  BY <1>4, <2>1, <2>2
<1> HIDE DEF bind
<1>5. ASSUME NEW y \in bound PROVE Tested(memory, y)
  <2>1. PICK z \in resident : y \in IF z.ok THEN bind(source, z) ELSE {z}
    BY <1>5 DEF Then
  <2> QED  BY <1>3, <1>4, <2>1
<1> HIDE DEF bound
<1>6. ASSUME NEW y \in both PROVE Tested(memory, y)
  <2>1. PICK z \in bound : y \in IF z.ok THEN bind(target, z) ELSE {z}
    BY <1>6 DEF Then
  <2> QED  BY <1>4, <1>5, <2>1
<1> HIDE DEF both
<1>7. ASSUME NEW z, Tested(memory, z), NEW y \in copied(z)
      PROVE  Tested(memory, y)
  <2>1. CASE y = z
    BY <1>7, <2>1
  <2>2. CASE y \in Refused(z)
    <3>1. Tested(z, y)
      BY <1>7, <2>2, RefusedSame, AlikeTested DEF Tested
    <3> QED  BY <1>7, <3>1, TestedTwice
  <2>3. CASE y \in Refused(dirty(z))
    <3>1. SetDomain("bcs", <<source, target>>, z).domain \in [Buffer -> {"cpu", "bcs", "rcs"}]
      <4>1. z \in Sound
        BY <1>7 DEF Tested
      <4>2. SetDomain("bcs", <<source, target>>, z) \in Sound
        BY <4>1, SetDomainSound
      <4> QED  BY <4>2 DEF Sound, MemoryState
    <3>2. PICK f \in [Buffer -> {"cpu", "bcs", "rcs"}] :
              f = SetDomain("bcs", <<source, target>>, z).domain
      BY <3>1
    <3>3. PICK B \in SUBSET Buffer : B = two
      OBVIOUS
    <3>4. y \in Refused([z EXCEPT !.faulted = TRUE, !.unsafe = TRUE,
                                  !.quarantined = @ \cup B, !.domain = f])
      BY <2>3, <3>2, <3>3
    <3>5. Tested(z, y)
      BY <1>7, <3>4, FaultTested DEF Tested
    <3> QED  BY <1>7, <3>5, TestedTwice
  <2> QED  BY <1>7, <2>1, <2>2, <2>3 DEF IfFails
<1> HIDE DEF copied
<1>8. ASSUME NEW y \in done PROVE Tested(memory, y)
  <2>1. PICK z \in both : y \in IF z.ok THEN copied(z) ELSE {z}
    BY <1>8 DEF Then
  <2> QED  BY <1>6, <1>7, <2>1
<1> HIDE DEF done
<1>9. ASSUME NEW b \in two, NEW z, Tested(memory, z), NEW v \in BOOLEAN,
             NEW r \in unbind(b, [z EXCEPT !.ok = TRUE]),
             NEW y, y = [r EXCEPT !.ok = @ /\ v]
      PROVE  Tested(memory, y)
  <2>1. PICK t : t = [z EXCEPT !.ok = TRUE]
    OBVIOUS
  <2>2. t \in Sound /\ Alike(z, t)
    BY <1>9, <2>1, OkSound DEF Tested
  <2>3. Tested(memory, t)
    BY <1>9, <2>2, AlikeTested, TestedTwice DEF Tested
  <2>4. r = t \/ r \in UnbindGgtt(b, t)
    BY <1>9, <2>1
  <2>5. Tested(memory, r)
    <3>1. ASSUME r \in UnbindGgtt(b, t) PROVE Tested(t, r)
      BY <2>3, <3>1, UnbindTested DEF Tested
    <3> QED  BY <2>3, <2>4, <3>1, TestedTwice
  <2>6. y \in Sound /\ Alike(r, y)
    <3>1. (r.ok /\ v) \in BOOLEAN /\ r \in Sound
      BY <2>5 DEF Tested, Sound, MemoryState
    <3>2. y = [r EXCEPT !.ok = r.ok /\ v]
      BY <1>9
    <3> QED  BY <3>1, <3>2, OkSound
  <2> QED  BY <2>5, <2>6, AlikeTested, TestedTwice DEF Tested
<1> HIDE DEF unbind
<1>10. ASSUME NEW y \in undone PROVE Tested(memory, y)
  <2>1. PICK z \in done : \E r \in unbind(target, [z EXCEPT !.ok = TRUE]) :
            y = [r EXCEPT !.ok = @ /\ z.ok]
    BY <1>10, Zenon DEF Always
  <2>2. Tested(memory, z)
    BY <1>8
  <2>3. z.ok \in BOOLEAN
    BY <2>2 DEF Tested, Sound, MemoryState
  <2> QED  BY <1>9, <2>1, <2>2, <2>3
<1> HIDE DEF undone
<1>11. Tested(memory, x)
  <2>1. PICK z \in undone : \E r \in unbind(source, [z EXCEPT !.ok = TRUE]) :
            x = [r EXCEPT !.ok = @ /\ z.ok]
    BY <1>1, Zenon DEF Always
  <2>2. Tested(memory, z)
    BY <1>10
  <2>3. z.ok \in BOOLEAN
    BY <2>2 DEF Tested, Sound, MemoryState
  <2> QED  BY <1>9, <2>1, <2>2, <2>3
<1> QED  BY <1>1, <1>2, <1>11, BecomesKeeps DEF Tested

----------------------------------------------------------------------------
(* Jobs are queued.                                                        *)

LEMMA RefsAreCounts ==
    ASSUME ResidencyInv
    PROVE  /\ memory.refs \in [Buffer -> Nat] /\ memory \in Sound /\ memory.ok
           /\ \A b \in Buffer : Cardinality(Waiting(queue, b)) \in Nat
<1>1. memory.refs \in [Buffer -> Int] /\ memory \in Sound /\ memory.ok
  BY DEF ResidencyInv, MemoryInv, Sound, MemoryState
<1>2. \A b \in Buffer : Cardinality(Waiting(queue, b)) \in Nat
  BY WaitingType DEF ResidencyInv, RecordsInv
<1>3. \A b \in Buffer : memory.refs[b] \in Nat
  BY <1>2 DEF ResidencyInv, JobsInv, Counts, HeldBy
<1> QED  BY <1>1, <1>2, <1>3

\* The submission that runs keeps its objects whatever is brought back meanwhile
LEMMA RunKeeps ==
    ASSUME NEW m \in Sound, NEW x, NEW r, RunReady(m, r), Holds(m, x),
           x.domain = m.domain, x.bound = m.bound
    PROVE  RunReady(x, r)
<1>1. m.open \subseteq Buffer
  BY DEF Sound, MemoryState
<1> QED  BY <1>1 DEF RunReady, Holds, Needed

LEMMA HoldsCarries ==
    ASSUME NEW m, NEW x, Holds(m, x), x.refs = m.refs
    PROVE  Carries(m, x)
BY DEF Holds, Carries, Held, Needed

LEMMA HoldsInside ==
    ASSUME NEW m, NEW x, Inside(m), Holds(m, x), x.bound = m.bound
    PROVE  Inside(x)
BY DEF Inside, Holds

LEMMA AlikeHolds ==
    ASSUME NEW m, NEW y, NEW x, Holds(m, y), Alike(y, x)
    PROVE  Holds(m, x) /\ (Usable(x) <=> Usable(y))
BY DEF Holds, Alike, Usable

LEMMA AlikeRuns ==
    ASSUME NEW m, NEW x, NEW r, RunReady(m, r), Alike(m, x)
    PROVE  RunReady(x, r)
BY DEF RunReady, Alike, Usable

\* Job is queued and counted
LEMMA EnqueuedSound ==
    ASSUME ResidencyInv, NEW job \in RenderJobs, NEW x \in Sound,
           Holds(memory, x), x.domain = memory.domain, x.bound = memory.bound,
           ToSet(job.objects) \subseteq x.open,
           Usable(x) => ToSet(job.objects) \subseteq x.resident,
           job.kind = "commands" => ToSet(job.objects) \subseteq x.mapped,
           x.refs = [b \in Buffer |-> IF b \in ToSet(job.objects) THEN memory.refs[b] + 1
                                      ELSE memory.refs[b]],
           memory' = Locals(x), queue' = Append(queue, job), UNCHANGED <<active, running>>
    PROVE  ResidencyInv'
<1> DEFINE B == ToSet(job.objects)
<1>0. /\ memory.refs \in [Buffer -> Nat] /\ memory \in Sound
      /\ \A b \in Buffer : Cardinality(Waiting(queue, b)) \in Nat
  BY RefsAreCounts
<1>1. memory' \in Sound /\ Alike(x, memory') /\ memory'.ok
  BY LocalsSound
<1>2. RecordsInv'
  BY DEF ResidencyInv, RecordsInv
<1>3. MemoryInv'
  <2>1. Inside(x)
    BY HoldsInside DEF ResidencyInv, MemoryInv
  <2> QED  BY <1>1, <2>1 DEF MemoryInv, Inside, Alike
<1>4. Counts(memory', queue', active')
  <2>1. ASSUME NEW b \in Buffer PROVE memory'.refs[b] = HeldBy(queue', active', b)
    <3>1. memory'.refs[b] = memory.refs[b] + (IF b \in B THEN 1 ELSE 0)
      BY <1>0, <1>1 DEF Alike
    <3>2. Cardinality(Waiting(queue', b))
              = Cardinality(Waiting(queue, b)) + (IF b \in B THEN 1 ELSE 0)
      BY WaitingMore DEF ResidencyInv, RecordsInv
    <3>3. memory.refs[b] = HeldBy(queue, active, b)
      BY DEF ResidencyInv, JobsInv, Counts
    <3> HIDE DEF B
    <3> QED  BY <1>0, <3>1, <3>2, <3>3 DEF HeldBy
  <2> QED  BY <2>1 DEF Counts
<1>5. HeldReady(memory')
  <2>1. Held(memory') \subseteq Held(memory) \cup B
    BY <1>0, <1>1 DEF Held, Alike
  <2>2. Held(memory) \subseteq Needed(memory)
    BY DEF Held, Needed
  <2> QED  BY <1>1, <2>1, <2>2 DEF ResidencyInv, JobsInv, HeldReady, Holds, Alike, Usable
<1>6. CommandsMapped(memory', queue', active')
  <2>1. ASSUME NEW k \in {queue'[i] : i \in 1 .. Len(queue')} \cup {active'.job}
        PROVE  k \in {queue[i] : i \in 1 .. Len(queue)} \cup {active.job} \cup {job}
    <3>1. /\ Len(queue') = Len(queue) + 1 /\ Len(queue) \in Nat
          /\ \A i \in 1 .. Len(queue) : queue'[i] = queue[i]
          /\ queue'[Len(queue) + 1] = job
      BY DEF ResidencyInv, RecordsInv
    <3> QED  BY <2>1, <3>1
  <2>2. CommandsMapped(memory, queue, active) /\ memory'.mapped = memory.mapped
        /\ x.mapped = memory.mapped /\ (Usable(memory') => Usable(memory))
    BY <1>1 DEF ResidencyInv, JobsInv, Holds, Alike, Usable
  <2> QED  BY <2>1, <2>2 DEF CommandsMapped
<1>7. RunReady(memory', running')
  BY <1>0, <1>1, RunKeeps, AlikeRuns DEF ResidencyInv, JobsInv
<1> QED  BY <1>2, <1>3, <1>4, <1>5, <1>6, <1>7 DEF ResidencyInv, JobsInv

\* Job is turned away
LEMMA RefusedJobSound ==
    ASSUME ResidencyInv, NEW x \in Sound, Holds(memory, x),
           x.domain = memory.domain, x.bound = memory.bound, x.refs = memory.refs,
           memory' = Locals(x), UNCHANGED <<queue, active, running>>
    PROVE  ResidencyInv'
<1>1. memory' \in Sound /\ Alike(x, memory') /\ memory'.ok
  BY LocalsSound
<1>2. RecordsInv'
  BY DEF ResidencyInv, RecordsInv
<1>3. MemoryInv'
  <2>1. Inside(x)
    BY HoldsInside DEF ResidencyInv, MemoryInv
  <2> QED  BY <1>1, <2>1 DEF MemoryInv, Inside, Alike
<1>4. Carries(memory, memory')
  BY <1>1, HoldsCarries, AlikeCarries, CarriesTwice
<1>5. Counts(memory', queue, active) /\ HeldReady(memory')
      /\ CommandsMapped(memory', queue, active)
  BY <1>4, CarriesJobs DEF ResidencyInv, RecordsInv, JobsInv
<1>6. RunReady(memory', running)
  BY <1>1, RunKeeps, AlikeRuns DEF ResidencyInv, JobsInv, MemoryInv
<1> QED  BY <1>2, <1>3, <1>5, <1>6 DEF ResidencyInv, JobsInv

LEMMA EnqueueCommandsStep ==
    ASSUME ResidencyInv, NEW objects \in Objects, EnqueueRenderCommands(objects)
    PROVE  ResidencyInv'
<1> DEFINE job == [kind |-> "commands", objects |-> objects]
<1>0. job \in RenderJobs /\ job.objects = objects /\ job.kind = "commands"
  BY DEF RenderJobs
<1> HIDE DEF job
<1>1. objects \in Seq(Buffer) /\ Distinct(objects)
  BY <1>0, JobTypes
<1>2. PICK m \in QueueAll(memory, objects) :
          LET accepted == m.ok /\ Len(queue) < QueueLimit
          IN  /\ memory' = Locals(IF accepted THEN m ELSE [m EXCEPT !.refs = memory.refs])
              /\ queue' = IF accepted THEN Append(queue, job) ELSE queue
              /\ UNCHANGED <<active, running>>
  BY Zenon DEF EnqueueRenderCommands, QueueAll, QueueStep, job
<1>3. m \in Sound /\ Queued(ToSet(objects), memory, m)
  BY <1>1, QueueAllSound, RefsAreCounts
<1>4. CASE m.ok /\ Len(queue) < QueueLimit
  <2>1. memory' = Locals(m) /\ queue' = Append(queue, job) /\ UNCHANGED <<active, running>>
    BY <1>2, <1>4
  <2> QED  BY <1>0, <1>3, <1>4, <2>1, EnqueuedSound DEF Queued
<1>5. CASE ~(m.ok /\ Len(queue) < QueueLimit)
  <2> DEFINE x == [m EXCEPT !.refs = memory.refs]
  <2>1. memory' = Locals(x) /\ UNCHANGED <<queue, active, running>>
    BY <1>2, <1>5
  <2>2. x \in Sound /\ ButRefs(m, x) /\ x.refs = memory.refs
    <3>1. memory.refs \in [Buffer -> Int]
      BY DEF ResidencyInv, MemoryInv, Sound, MemoryState
    <3> QED  BY <1>3, <3>1, RefsSound
  <2> HIDE DEF x
  <2>3. Holds(memory, x) /\ x.domain = memory.domain /\ x.bound = memory.bound
    BY <1>3, <2>2 DEF Queued, Holds, ButRefs, Usable
  <2> QED  BY <2>1, <2>2, <2>3, RefusedJobSound
<1> QED  BY <1>4, <1>5

LEMMA EnqueuePresentStep ==
    ASSUME ResidencyInv, NEW b \in Buffer, EnqueueRenderPresent(b)
    PROVE  ResidencyInv'
<1> DEFINE job == [kind |-> "present", objects |-> <<b>>]
<1>0. job \in RenderJobs /\ ToSet(job.objects) = {b} /\ job.kind = "present"
  BY OneObject DEF RenderJobs
<1>1. PICK m \in MakeRenderBufferResident(b, memory) :
          LET accepted == m.ok /\ Len(queue) < QueueLimit
          IN  /\ memory' = Locals(IF accepted THEN Reference(1, <<b>>, m) ELSE m)
              /\ queue' = IF accepted THEN Append(queue, job) ELSE queue
              /\ UNCHANGED <<active, running>>
  BY DEF EnqueueRenderPresent
<1> HIDE DEF job
<1>2. b \in memory.open
  BY DEF EnqueueRenderPresent, Enqueueable
<1>3. memory \in Sound /\ memory.ok
  BY RefsAreCounts
<1>4. m \in Sound /\ EvictKeeps(memory, m) /\ (m.ok => b \in m.resident)
  BY <1>3, ResidentSound
<1>5. Holds(memory, m)
  BY <1>4 DEF Holds, EvictKeeps
<1>6. CASE m.ok /\ Len(queue) < QueueLimit
  <2> DEFINE x == Reference(1, <<b>>, m)
  <2>1. memory' = Locals(x) /\ queue' = Append(queue, job) /\ UNCHANGED <<active, running>>
    BY <1>1, <1>6
  <2>2. /\ x \in Sound /\ ButRefs(m, x)
        /\ x.refs = [c \in Buffer |-> IF c \in ToSet(job.objects) THEN memory.refs[c] + 1
                                      ELSE memory.refs[c]]
    BY <1>0, <1>4, OneObject, ReferenceSound DEF EvictKeeps
  <2> HIDE DEF x
  <2>3. Holds(memory, x) /\ x.domain = memory.domain /\ x.bound = memory.bound
    BY <1>4, <1>5, <2>2 DEF Holds, EvictKeeps, ButRefs, Usable
  <2>4. ToSet(job.objects) \subseteq x.open /\ ToSet(job.objects) \subseteq x.resident
    BY <1>0, <1>2, <1>4, <1>6, <2>2 DEF EvictKeeps, ButRefs
  <2> QED  BY <1>0, <2>1, <2>2, <2>3, <2>4, EnqueuedSound
<1>7. CASE ~(m.ok /\ Len(queue) < QueueLimit)
  <2>1. memory' = Locals(m) /\ UNCHANGED <<queue, active, running>>
    BY <1>1, <1>7
  <2> QED  BY <1>4, <1>5, <2>1, RefusedJobSound DEF EvictKeeps
<1> QED  BY <1>6, <1>7

LEMMA JobTakenStep ==
    ASSUME ResidencyInv, JobTaken
    PROVE  ResidencyInv'
<1>1. active = NoActive /\ queue # <<>> /\ queue \in Seq(RenderJobs)
      /\ queue' = Tail(queue) /\ UNCHANGED <<memory, running>>
  BY DEF JobTaken, ResidencyInv, RecordsInv
<1>2. PICK stage \in {"submit", "failed", "done"} :
          active' = [stage |-> stage, job |-> Head(queue)]
  BY DEF JobTaken
<1>3. /\ Tail(queue) \in Seq(RenderJobs) /\ Len(Tail(queue)) = Len(queue) - 1
      /\ Len(queue) \in Nat \ {0} /\ Head(queue) = queue[1] /\ Head(queue) \in RenderJobs
      /\ \A i \in 1 .. (Len(queue) - 1) : Tail(queue)[i] = queue[i + 1]
  BY <1>1
<1>4. RecordsInv'
  BY <1>1, <1>2, <1>3 DEF ResidencyInv, RecordsInv, ActiveStates
<1>5. MemoryInv'
  BY <1>1 DEF ResidencyInv, MemoryInv
<1>6. Counts(memory', queue', active')
  <2>1. ASSUME NEW b \in Buffer PROVE memory'.refs[b] = HeldBy(queue', active', b)
    <3>1. HeldBy(queue, active, b) = Cardinality(Waiting(queue, b))
      <4>1. b \notin ToSet(active.job.objects) /\ Cardinality(Waiting(queue, b)) \in Nat
        BY <1>1, ActiveTypes, RefsAreCounts DEF ResidencyInv, RecordsInv
      <4> QED  BY <4>1 DEF HeldBy
    <3>2. HeldBy(queue', active', b) = Cardinality(Waiting(queue, b))
      BY <1>1, <1>2, WaitingLess DEF HeldBy
    <3> QED  BY <1>1, <3>1, <3>2 DEF ResidencyInv, JobsInv, Counts
  <2> QED  BY <2>1 DEF Counts
<1>7. HeldReady(memory') /\ RunReady(memory', running')
  BY <1>1 DEF ResidencyInv, JobsInv
<1>8. CommandsMapped(memory', queue', active')
  <2>1. {queue'[i] : i \in 1 .. Len(queue')} \cup {active'.job}
            \subseteq {queue[i] : i \in 1 .. Len(queue)}
    BY <1>1, <1>2, <1>3
  <2> QED  BY <1>1, <2>1 DEF ResidencyInv, JobsInv, CommandsMapped
<1> QED  BY <1>4, <1>5, <1>6, <1>7, <1>8 DEF ResidencyInv, JobsInv

----------------------------------------------------------------------------
(* Jobs are submitted.                                                     *)

\* The memory as a submission leaves it that has got so far
Prepares(m, x) ==
    x \in Sound /\ Inside(x) /\ Holds(m, x) /\ x.refs = m.refs

LEMMA AlikePrepares ==
    ASSUME NEW m, NEW y, Prepares(m, y), NEW x \in Sound, Alike(y, x)
    PROVE  Prepares(m, x)
<1>1. Holds(m, x)
  BY AlikeHolds DEF Prepares
<1> QED  BY <1>1 DEF Prepares, Alike, Inside

LEMMA PreparesNothing ==
    ASSUME NEW m \in Sound, Inside(m)
    PROVE  Prepares(m, m)
BY DEF Prepares, Holds

LEMMA CommandsPrepared ==
    ASSUME ResidencyInv, NEW job \in RenderJobs, job.kind = "commands", NEW queued,
           NEW x \in PrepareCommands(job.objects, queued)
    PROVE  Prepares(memory, x) /\ (x.ok => RunReady(x, job))
<1>0. memory \in Sound /\ memory.ok /\ Inside(memory)
  BY DEF ResidencyInv, MemoryInv
<1>1. job.objects \in Seq(Buffer)
  BY JobTypes
<1>2. ASSUME NEW y \in TakeAll(queued, memory, job.objects)
      PROVE  Prepares(memory, y) /\ (y.ok => RunReady(y, job))
  <2>1. y \in Sound /\ Taken(ToSet(job.objects), memory, y)
    BY <1>0, <1>1, TakeAllSound
  <2>2. Inside(y)
    BY <1>0, <2>1, HoldsInside DEF Taken
  <2>3. y.ok => RunReady(y, job)
    BY <2>1 DEF Taken, RunReady
  <2> QED  BY <2>1, <2>2, <2>3 DEF Prepares, Taken
<1>3. ASSUME NEW y \in Refused(memory)
      PROVE  Prepares(memory, y) /\ ~y.ok
  BY <1>0, <1>3, RefusedSame, PreparesNothing, AlikePrepares
<1> DEFINE taken == IF Usable(memory) /\ memory.ready
                    THEN TakeAll(queued, memory, job.objects) ELSE Refused(memory)
<1>4. ASSUME NEW y \in taken PROVE Prepares(memory, y) /\ (y.ok => RunReady(y, job))
  BY <1>2, <1>3, <1>4
<1>5. PrepareCommands(job.objects, queued) = taken \cup UNION {Refused(y) : y \in taken}
  BY Zenon DEF PrepareCommands, TakeAll, TakeStep
<1> HIDE DEF taken
<1>6. ASSUME NEW y \in taken, x \in Refused(y) PROVE Prepares(memory, x) /\ ~x.ok
  <2>1. Prepares(memory, y) /\ y \in Sound
    BY <1>4 DEF Prepares
  <2> QED  BY <1>6, <2>1, RefusedSame, AlikePrepares
<1> QED  BY <1>4, <1>5, <1>6

\* The buffer of a presentation is brought back and bound
BoundForPresent(b, m) ==
    Then(MakeRenderBufferResident(b, m),
         LAMBDA y : IF b \in y.bound THEN {y} ELSE BindGgtt(b, y))
TakenForPresent(b, m) ==
    Then(BoundForPresent(b, m), LAMBDA y : {SetDomain("bcs", <<b>>, y)})

LEMMA BoundForPresentSound ==
    ASSUME NEW m \in Sound, m.ok, Inside(m), NEW b \in Buffer, b \in m.open,
           NEW y \in BoundForPresent(b, m)
    PROVE  Prepares(m, y) /\ (y.ok => b \in y.bound /\ b \in y.resident)
<1>1. PICK r \in MakeRenderBufferResident(b, m) :
          y \in IF r.ok THEN IF b \in r.bound THEN {r} ELSE BindGgtt(b, r) ELSE {r}
  <2>1. \A T : y \in UNION T => \E U \in T : y \in U
    OBVIOUS
  <2> QED  BY <2>1, Zenon DEF BoundForPresent, Then
<1>2. r \in Sound /\ EvictKeeps(m, r) /\ (r.ok => b \in r.resident)
  BY ResidentSound
<1>3. Prepares(m, r)
  BY <1>2 DEF Prepares, EvictKeeps, Holds, Inside
<1>4. CASE y = r /\ (~r.ok \/ b \in r.bound)
  BY <1>2, <1>3, <1>4
<1>5. CASE r.ok /\ y \in BindGgtt(b, r)
  <2>1. /\ y \in Sound /\ y.open = r.open /\ y.closing = r.closing
        /\ y.refs = r.refs /\ y.mapped = r.mapped
        /\ y.resident = r.resident /\ y.bound \subseteq r.bound \cup {b}
        /\ (Usable(y) => Usable(r)) /\ (y.ok => b \in y.bound)
    BY <1>2, <1>5, BindSound
  <2>2. b \in r.open
    BY <1>2 DEF EvictKeeps
  <2> QED  BY <1>2, <1>3, <1>5, <2>1, <2>2 DEF Prepares, Inside, Holds
<1> QED  BY <1>1, <1>4, <1>5

LEMMA PresentPrepared ==
    ASSUME ResidencyInv, NEW job \in RenderJobs, job.kind = "present", NEW queued,
           NEW x \in PreparePresent(job.objects[1], queued)
    PROVE  Prepares(memory, x) /\ (x.ok => RunReady(x, job))
<1>0. memory \in Sound /\ memory.ok /\ Inside(memory)
  BY DEF ResidencyInv, MemoryInv
<1>1. PICK b \in Buffer : ToSet(job.objects) = {b} /\ job.objects[1] = b
  BY JobTypes
<1>2. x \in PreparePresent(b, queued)
  BY <1>1
<1>3. x \in Refused(memory) \/ (b \in memory.open /\ x \in TakenForPresent(b, memory))
  BY <1>2, Zenon DEF PreparePresent, TakenForPresent, BoundForPresent
<1>4. CASE x \in Refused(memory)
  BY <1>0, <1>4, RefusedSame, PreparesNothing, AlikePrepares
<1>5. CASE b \in memory.open /\ x \in TakenForPresent(b, memory)
  <2>1. PICK y \in BoundForPresent(b, memory) :
            x \in IF y.ok THEN {SetDomain("bcs", <<b>>, y)} ELSE {y}
    <3>1. \A T : x \in UNION T => \E U \in T : x \in U
      OBVIOUS
    <3> QED  BY <1>5, <3>1, Zenon DEF TakenForPresent, Then
  <2>2. Prepares(memory, y) /\ (y.ok => b \in y.bound /\ b \in y.resident)
    BY <1>0, <1>5, BoundForPresentSound
  <2>3. CASE ~y.ok
    BY <2>1, <2>2, <2>3
  <2>4. CASE y.ok
    <3>1. x = SetDomain("bcs", <<b>>, y) /\ y \in Sound
      BY <2>1, <2>2, <2>4 DEF Prepares
    <3>2. x \in Sound /\ ButDomain(y, x)
          /\ x.domain = [c \in Buffer |-> IF c = b THEN "bcs" ELSE y.domain[c]]
      BY <3>1, OneObject, SetDomainSound
    <3>3. Prepares(memory, x)
      BY <2>2, <3>2 DEF Prepares, Holds, ButDomain, Inside, Usable
    <3>4. b \in x.open /\ b \in x.resident /\ b \in x.bound /\ x.domain[b] # "cpu"
      BY <1>5, <2>2, <2>4, <3>2 DEF Prepares, Holds, ButDomain
    <3> QED  BY <1>1, <3>3, <3>4 DEF RunReady
  <2> QED  BY <2>3, <2>4
<1> QED  BY <1>3, <1>4, <1>5

\* A job is submitted: it runs, or its objects are given back
LEMMA StartSound ==
    ASSUME ResidencyInv, running = NoJob, NEW job \in RenderJobs, NEW queued,
           Start(job, queued)
    PROVE  /\ memory' \in Sound /\ memory'.ok /\ Inside(memory')
           /\ Carries(memory, memory') /\ RunReady(memory', running')
           /\ running' \in {NoJob, job}
<1>0. memory \in Sound
  BY DEF ResidencyInv, MemoryInv
<1>1. PICK m \in Prepared(job, queued) :
          IF m.ok THEN memory' = [m EXCEPT !.ok = TRUE] /\ running' = job
          ELSE /\ memory' = Locals([m EXCEPT !.domain = memory.domain])
               /\ UNCHANGED running
  BY DEF Start
<1>2. Prepares(memory, m) /\ (m.ok => RunReady(m, job))
  BY CommandsPrepared, PresentPrepared, JobTypes DEF Prepared
<1>3. CASE m.ok
  <2>1. memory' = [m EXCEPT !.ok = TRUE] /\ running' = job
    BY <1>1, <1>3
  <2>2. memory' \in Sound /\ Alike(m, memory') /\ memory'.ok
    BY <1>2, <2>1, OkSound DEF Prepares
  <2>3. Prepares(memory, memory')
    BY <1>2, <2>2, AlikePrepares
  <2>4. RunReady(memory', job)
    BY <1>2, <1>3, <2>2, AlikeRuns
  <2> QED  BY <2>1, <2>2, <2>3, <2>4, HoldsCarries DEF Prepares
<1>4. CASE ~m.ok
  <2> DEFINE y == [m EXCEPT !.domain = memory.domain]
  <2>1. memory' = Locals(y) /\ running' = NoJob
    BY <1>1, <1>4
  <2>2. memory.domain \in [Buffer -> {"cpu", "bcs", "rcs"}]
    BY <1>0 DEF Sound, MemoryState
  <2>3. y \in Sound /\ ButDomain(m, y)
    BY <1>2, <2>2, DomainSound DEF Prepares
  <2> HIDE DEF y
  <2>4. Prepares(memory, y)
    BY <1>2, <2>3 DEF Prepares, Holds, ButDomain, Inside, Usable
  <2>5. memory' \in Sound /\ Alike(y, memory') /\ memory'.ok
    BY <2>1, <2>3, LocalsSound
  <2>6. Prepares(memory, memory')
    BY <2>4, <2>5, AlikePrepares
  <2> QED  BY <2>1, <2>5, <2>6, HoldsCarries, NothingRuns DEF Prepares
<1> QED  BY <1>3, <1>4

LEMMA SubmitStep ==
    ASSUME ResidencyInv, NEW job \in RenderJobs, SubmitSynchronously(job)
    PROVE  ResidencyInv'
<1>1. running = NoJob /\ queue' = queue /\ active' = active
  BY DEF SubmitSynchronously, DeviceFree
<1>2. /\ memory' \in Sound /\ memory'.ok /\ Inside(memory')
      /\ Carries(memory, memory') /\ RunReady(memory', running')
      /\ running' \in {NoJob, job}
  BY <1>1, StartSound DEF SubmitSynchronously
<1>3. RecordsInv' /\ MemoryInv'
  BY <1>1, <1>2 DEF ResidencyInv, RecordsInv, MemoryInv
<1>4. JobsInv'
  BY <1>1, <1>2, CarriesJobs DEF ResidencyInv, RecordsInv, JobsInv
<1> QED  BY <1>3, <1>4 DEF ResidencyInv

\* Only the stage of the worker's job changes
LEMMA StageKeeps ==
    ASSUME ResidencyInv, NEW stage \in {"failed", "done", "running"},
           active.job \in RenderJobs, active' = [active EXCEPT !.stage = stage]
    PROVE  active' \in ActiveStates /\ active'.job = active.job
<1>1. active = [stage |-> active.stage, job |-> active.job]
  <2>1. active \in ActiveStates /\ NoJob \notin RenderJobs
    BY JobTypes DEF ResidencyInv, RecordsInv
  <2> QED  BY <2>1 DEF ActiveStates, NoActive
<1>2. active' = [stage |-> stage, job |-> active.job]
  BY <1>1
<1> QED  BY <1>2 DEF ActiveStates

LEMMA SameJobs ==
    ASSUME NEW m, NEW q, NEW a, NEW c, c.job = a.job, Counts(m, q, a), CommandsMapped(m, q, a)
    PROVE  Counts(m, q, c) /\ CommandsMapped(m, q, c)
BY DEF Counts, HeldBy, CommandsMapped

LEMMA WorkerSubmitsStep ==
    ASSUME ResidencyInv, WorkerSubmits
    PROVE  ResidencyInv'
<1>1. running = NoJob /\ queue' = queue /\ active.stage = "submit"
      /\ Start(active.job, TRUE)
  BY DEF WorkerSubmits, DeviceFree
<1>2. active.job \in RenderJobs
  BY <1>1, ActiveTypes DEF ResidencyInv, RecordsInv
<1>3. /\ memory' \in Sound /\ memory'.ok /\ Inside(memory')
      /\ Carries(memory, memory') /\ RunReady(memory', running')
      /\ running' \in {NoJob, active.job}
  BY <1>1, <1>2, StartSound
<1>4. active' \in ActiveStates /\ active'.job = active.job
  BY <1>2, StageKeeps DEF WorkerSubmits
<1>5. RecordsInv' /\ MemoryInv'
  BY <1>1, <1>2, <1>3, <1>4 DEF ResidencyInv, RecordsInv, MemoryInv
<1>6. Counts(memory', queue, active) /\ HeldReady(memory')
      /\ CommandsMapped(memory', queue, active)
  BY <1>3, CarriesJobs DEF ResidencyInv, RecordsInv, JobsInv
<1>7. Counts(memory', queue', active') /\ CommandsMapped(memory', queue', active')
  BY <1>1, <1>4, <1>6, SameJobs
<1> QED  BY <1>3, <1>5, <1>6, <1>7 DEF ResidencyInv, JobsInv

----------------------------------------------------------------------------
(* Submissions end, and jobs are retired.                                  *)

LEMMA CommandsEndTested ==
    ASSUME NEW m \in Sound, Inside(m), NEW objects, NEW x, x = CommandsEnd(objects, m)
    PROVE  Tested(m, x)
<1>0. m \in MemoryState
  BY DEF Sound
<1>1. CASE m.faulted \/ m.unsafe
  <2> DEFINE Q == m.quarantined \cup m.open
  <2>1. x = [m EXCEPT !.quarantined = Q, !.ready = FALSE, !.kept = TRUE, !.unsafe = TRUE]
    BY <1>0, <1>1 DEF CommandsEnd, MemoryState
  <2>2. Q \in SUBSET Buffer /\ m.quarantined \subseteq Q
    BY <1>0 DEF MemoryState
  <2> HIDE DEF Q
  <2>3. /\ x \in MemoryState
        /\ x.resident = m.resident /\ x.open = m.open
        /\ x.mapped = m.mapped /\ x.bound = m.bound /\ x.refs = m.refs
        /\ x.global = m.global /\ x.quarantined = Q
        /\ x.unsafe = TRUE /\ x.named = m.named /\ x.wired = m.wired
    <3>1. x \in MemoryState
      BY <1>0, <2>1, <2>2 DEF MemoryState
    <3>2. /\ x.resident = m.resident /\ x.open = m.open
          /\ x.mapped = m.mapped /\ x.bound = m.bound
      BY <1>0, <2>1 DEF MemoryState
    <3>3. /\ x.refs = m.refs /\ x.global = m.global /\ x.quarantined = Q
          /\ x.unsafe = TRUE /\ x.named = m.named /\ x.wired = m.wired
      BY <1>0, <2>1 DEF MemoryState
    <3> QED  BY <3>1, <3>2, <3>3
  <2>4. x \in Sound
    BY <2>2, <2>3 DEF Sound, Accounted, Trusted, Usable
  <2> QED  BY <2>3, <2>4 DEF Tested, Inside, Carries, Usable
<1>2. CASE ~(m.faulted \/ m.unsafe)
  <2>1. x = SetDomain("cpu", objects, m)
    BY <1>2 DEF CommandsEnd
  <2>2. x \in Sound /\ ButDomain(m, x)
    BY <2>1, SetDomainSound
  <2> QED  BY <2>2 DEF Tested, Inside, Carries, Usable, ButDomain
<1> QED  BY <1>1, <1>2

LEMMA PresentEndTested ==
    ASSUME NEW m \in Sound, Inside(m), NEW b \in Buffer, NEW x \in PresentEnd(b, m)
    PROVE  Tested(m, x)
<1>1. CASE m.faulted \/ m.unsafe
  <2>1. x = [m EXCEPT !.quarantined = @ \cup {b}]
    BY <1>1 DEF PresentEnd
  <2>2. x \in Sound /\ LeavesOthers(b, m, x) /\ ~Usable(m)
    BY <1>1, <2>1, QuarantinedSound DEF Usable
  <2> QED  BY <2>2 DEF LeavesOthers, Tested, Inside, Carries
<1>2. CASE ~(m.faulted \/ m.unsafe)
  <2>1. PICK y : y = SetDomain("cpu", <<b>>, m)
    OBVIOUS
  <2>2. x = y \/ x \in UnbindGgtt(b, y)
    BY <1>2, <2>1 DEF PresentEnd
  <2>3. y \in Sound /\ ButDomain(m, y)
    BY <2>1, SetDomainSound
  <2>4. Tested(m, y)
    BY <2>3 DEF Tested, Inside, Carries, Usable, ButDomain
  <2>5. ASSUME x \in UnbindGgtt(b, y) PROVE Tested(y, x)
    BY <2>4, <2>5, UnbindTested DEF Tested
  <2> QED  BY <2>2, <2>4, <2>5, TestedTwice
<1> QED  BY <1>1, <1>2

\* What the engine reports is recorded
LEMMA ReportedTested ==
    ASSUME NEW m \in Sound, Inside(m), NEW fault \in BOOLEAN, NEW fine \in BOOLEAN,
           NEW x, x = [m EXCEPT !.faulted = @ \/ fault, !.ok = fine]
    PROVE  Tested(m, x)
<1>0. m \in MemoryState
  BY DEF Sound
<1>1. (m.faulted \/ fault) \in BOOLEAN
  OBVIOUS
<1>2. /\ x \in MemoryState
      /\ x.resident = m.resident /\ x.open = m.open
      /\ x.mapped = m.mapped /\ x.bound = m.bound /\ x.refs = m.refs
      /\ x.global = m.global /\ x.quarantined = m.quarantined
      /\ x.kept = m.kept /\ x.unsafe = m.unsafe
      /\ x.named = m.named /\ x.wired = m.wired
  BY <1>0, <1>1 DEF MemoryState
<1>3. x.faulted <=> m.faulted \/ fault
  BY <1>0 DEF MemoryState
<1>4. x \in Sound
  BY <1>2, <1>3 DEF Sound, Accounted, Trusted, Usable
<1> QED  BY <1>2, <1>3, <1>4 DEF Tested, Inside, Carries, Usable

LEMMA SynchronousEndsStep ==
    ASSUME ResidencyInv, SynchronousEnds
    PROVE  ResidencyInv'
<1>0. memory \in Sound /\ memory.ok /\ Inside(memory)
  BY DEF ResidencyInv, MemoryInv
<1>1. running \in RenderJobs /\ running' = NoJob /\ queue' = queue
  BY DEF SynchronousEnds, ResidencyInv, RecordsInv
<1>3. PICK fault \in {FALSE} \cup {MayFail("gpu")}, fine \in BOOLEAN :
          LET m == [memory EXCEPT !.faulted = @ \/ fault, !.ok = fine]
          IN  \E r \in IF running.kind = "commands"
                       THEN {CommandsEnd(running.objects, m)}
                       ELSE PresentEnd(running.objects[1], m) :
                 /\ memory' = Locals(r)
                 /\ active' = IF active.stage # "running" THEN active
                              ELSE [active EXCEPT !.stage =
                                  IF r.ok /\ ~fault THEN "done" ELSE "failed"]
  BY Zenon DEF SynchronousEnds
<1>4. PICK m : m = [memory EXCEPT !.faulted = @ \/ fault, !.ok = fine]
  OBVIOUS
<1>5. PICK r \in IF running.kind = "commands" THEN {CommandsEnd(running.objects, m)}
                 ELSE PresentEnd(running.objects[1], m) :
          /\ memory' = Locals(r)
          /\ active' = IF active.stage # "running" THEN active
                       ELSE [active EXCEPT !.stage =
                                IF r.ok /\ ~fault THEN "done" ELSE "failed"]
  BY <1>3, <1>4, Zenon
<1>6. fault \in BOOLEAN
  <2>1. MayFail("gpu") = TRUE \/ MayFail("gpu") = FALSE
    BY DEF MayFail
  <2>2. fault = FALSE \/ fault = MayFail("gpu")
    OBVIOUS
  <2> QED  BY <2>1, <2>2
<1>7. Tested(memory, m)
  BY <1>0, <1>4, <1>6, ReportedTested, Zenon
<1>8. Tested(m, r)
  <2>1. CASE running.kind = "commands"
    BY <1>5, <1>7, <2>1, CommandsEndTested DEF Tested
  <2>2. CASE running.kind # "commands"
    <3>1. running.objects[1] \in Buffer
      BY <1>1, <2>2, JobTypes
    <3> QED  BY <1>5, <1>7, <2>2, <3>1, PresentEndTested DEF Tested
  <2> QED  BY <2>1, <2>2
<1>9. Tested(memory, r)
  BY <1>7, <1>8, TestedTwice
<1>10. memory' \in Sound /\ Alike(r, memory') /\ memory'.ok
  BY <1>5, <1>9, LocalsSound DEF Tested
<1>11. Inside(memory') /\ Carries(memory, memory')
  BY <1>9, <1>10, AlikeCarries, CarriesTwice DEF Tested, Inside, Alike
<1>12. active' \in ActiveStates /\ active'.job = active.job
  <2>1. CASE active.stage # "running"
    BY <1>5, <2>1 DEF ResidencyInv, RecordsInv
  <2>2. CASE active.stage = "running"
    <3>1. active.job \in RenderJobs
      BY <2>2, ActiveTypes DEF ResidencyInv, RecordsInv
    <3>2. PICK stage \in {"failed", "done"} : active' = [active EXCEPT !.stage = stage]
      BY <1>5, <2>2
    <3> QED  BY <3>1, <3>2, StageKeeps
  <2> QED  BY <2>1, <2>2
<1>13. RecordsInv' /\ MemoryInv'
  BY <1>1, <1>10, <1>11, <1>12 DEF ResidencyInv, RecordsInv, MemoryInv
<1>14. Counts(memory', queue, active) /\ HeldReady(memory')
       /\ CommandsMapped(memory', queue, active)
  BY <1>11, CarriesJobs DEF ResidencyInv, RecordsInv, JobsInv
<1>15. Counts(memory', queue', active') /\ CommandsMapped(memory', queue', active')
  BY <1>1, <1>12, <1>14, SameJobs
<1> QED  BY <1>1, <1>13, <1>14, <1>15, NothingRuns DEF ResidencyInv, JobsInv

\* The memory after the references of the worker's job are dropped: only the
\* queued jobs count, and what goes is used by none of them
Retired(m, q, x) ==
    /\ x \in Sound /\ Inside(x)
    /\ \A b \in Buffer : x.refs[b] = Cardinality(Waiting(q, b))
    /\ Held(x) \cap m.open \subseteq x.open
    /\ Held(x) \cap m.mapped \subseteq x.mapped
    /\ Held(x) \cap m.resident \subseteq x.resident
    /\ Usable(x) => Usable(m)

LEMMA RetiredSound ==
    ASSUME ResidencyInv, active.job \in RenderJobs,
           NEW x \in ReleaseRenderQueueReferences(active.job, memory)
    PROVE  Retired(memory, queue, x)
<1> DEFINE B == ToSet(active.job.objects)
<1>0. memory \in Sound /\ Inside(memory)
  BY DEF ResidencyInv, MemoryInv
<1>1. IsFiniteSet(B) /\ B \subseteq Buffer
  BY JobTypes
<1>2. PICK y : y = Reference(-1, active.job.objects, memory)
  OBVIOUS
<1>3. PICK due : due = {b \in B \cap memory.closing : y.refs[b] = 0}
  OBVIOUS
<1>4. PICK order \in SetToSeqs(due) : x \in ReleaseAll(y, order)
  <2>1. \A T : x \in UNION T => \E U \in T : x \in U
    OBVIOUS
  <2>2. x \in UNION {ReleaseAll(y, order) : order \in SetToSeqs(due)}
    BY <1>2, <1>3, Zenon DEF ReleaseRenderQueueReferences, ReleaseAll, ReleaseStep
  <2> QED  BY <2>1, <2>2, Zenon
<1>5. y \in Sound /\ ButRefs(memory, y)
      /\ y.refs = [b \in Buffer |-> IF b \in B THEN memory.refs[b] + (-1) ELSE memory.refs[b]]
  BY <1>0, <1>2, ReferenceSound
<1>6. due \subseteq B /\ IsFiniteSet(due) /\ \A b \in due : y.refs[b] = 0
  BY <1>1, <1>3, FS_Subset
<1>7. \A b \in Buffer : y.refs[b] = Cardinality(Waiting(queue, b))
  <2>1. ASSUME NEW b \in Buffer PROVE y.refs[b] = Cardinality(Waiting(queue, b))
    <3>1. Cardinality(Waiting(queue, b)) \in Nat
      BY RefsAreCounts
    <3>2. memory.refs[b] = HeldBy(queue, active, b)
      BY DEF ResidencyInv, JobsInv, Counts
    <3> QED  BY <1>5, <3>1, <3>2 DEF HeldBy
  <2> QED  BY <2>1
<1> HIDE DEF B
<1>8. order \in Seq(Buffer) /\ First(order, Len(order)) = due
  <2>1. order \in Seq(due) /\ due = {order[i] : i \in 1 .. Len(order)}
    BY <1>6, Orders
  <2> QED  BY <1>1, <1>6, <2>1 DEF First
<1>9. x \in Sound /\ ReleasedAll(due, y, x)
  <2>1. x \in Sound /\ ReleasedAll(First(order, Len(order)), y, x)
    BY <1>4, <1>5, <1>8, ReleaseAllSound
  <2> QED  BY <1>8, <2>1
<1>10. \A b \in Buffer : x.refs[b] = y.refs[b]
  BY <1>6, <1>9 DEF ReleasedAll
<1>11. Held(x) \cap due = {}
  BY <1>6, <1>10 DEF Held
<1>12. Inside(x)
  BY <1>0, <1>5, <1>9 DEF Inside, ButRefs, ReleasedAll
<1>13. /\ Held(x) \cap memory.open \subseteq x.open
       /\ Held(x) \cap memory.mapped \subseteq x.mapped
       /\ Held(x) \cap memory.resident \subseteq x.resident
  BY <1>5, <1>9, <1>11 DEF ButRefs, ReleasedAll
<1>14. Usable(x) => Usable(memory)
  BY <1>5, <1>9 DEF ButRefs, ReleasedAll, Usable
<1> QED  BY <1>7, <1>9, <1>10, <1>12, <1>13, <1>14 DEF Retired

LEMMA JobRetiresStep ==
    ASSUME ResidencyInv, JobRetires
    PROVE  ResidencyInv'
<1>0. running = NoJob /\ running' = running /\ active.stage \in {"done", "failed", "cancelling"}
  BY DEF JobRetires, DeviceFree
<1>1. active.job \in RenderJobs /\ queue \in Seq(RenderJobs)
  BY <1>0, ActiveTypes DEF ResidencyInv, RecordsInv
<1>2. PICK y \in ReleaseRenderQueueReferences(active.job, memory) : memory' = Locals(y)
  BY DEF JobRetires, Becomes
<1>3. Retired(memory, queue, y)
  BY <1>1, RetiredSound
<1>4. memory' \in Sound /\ Alike(y, memory') /\ memory'.ok
  BY <1>2, <1>3, LocalsSound DEF Retired
<1>5. PICK x : x = memory'
  OBVIOUS
<1>6. Retired(memory, queue, x) /\ x.ok
  BY <1>3, <1>4, <1>5 DEF Retired, Alike, Inside, Held, Usable
<1>7. \/ /\ queue # <<>> /\ queue' = Tail(queue)
         /\ active' = [stage |-> "cancelling", job |-> Head(queue)]
      \/ queue' = queue /\ active' = NoActive
  BY DEF JobRetires
<1>8. queue # <<>> =>
         /\ Tail(queue) \in Seq(RenderJobs) /\ Len(Tail(queue)) = Len(queue) - 1
         /\ Len(queue) \in Nat \ {0} /\ Head(queue) = queue[1] /\ Head(queue) \in RenderJobs
         /\ \A i \in 1 .. (Len(queue) - 1) : Tail(queue)[i] = queue[i + 1]
  BY <1>1
<1>9. RecordsInv'
  <2>1. queue' \in Seq(RenderJobs)
    BY <1>1, <1>7, <1>8
  <2>2. active' \in ActiveStates
    BY <1>7, <1>8 DEF ActiveStates
  <2> QED  BY <1>0, <2>1, <2>2 DEF RecordsInv
<1>10. MemoryInv'
  BY <1>5, <1>6 DEF MemoryInv, Retired
<1>11. Counts(x, queue', active')
  <2>1. ASSUME NEW b \in Buffer PROVE x.refs[b] = HeldBy(queue', active', b)
    <3>1. x.refs[b] = Cardinality(Waiting(queue, b)) /\ x.refs[b] \in Nat
      BY <1>6, RefsAreCounts DEF Retired
    <3>2. CASE queue # <<>> /\ queue' = Tail(queue)
               /\ active' = [stage |-> "cancelling", job |-> Head(queue)]
      BY <1>1, <3>1, <3>2, WaitingLess DEF HeldBy
    <3>3. CASE queue' = queue /\ active' = NoActive
      <4>1. b \notin ToSet(active'.job.objects)
        BY <3>3, ActiveTypes DEF ResidencyInv, RecordsInv
      <4> QED  BY <3>1, <3>3, <4>1 DEF HeldBy
    <3> QED  BY <1>7, <3>2, <3>3
  <2> QED  BY <2>1 DEF Counts
<1>12. HeldReady(x)
  <2>1. Held(x) \subseteq Held(memory)
    <3>1. ASSUME NEW b \in Buffer, memory.refs[b] = 0 PROVE x.refs[b] = 0
      <4>1. Cardinality(Waiting(queue, b)) \in Nat
        BY RefsAreCounts
      <4>2. HeldBy(queue, active, b) = 0
        BY <3>1 DEF ResidencyInv, JobsInv, Counts
      <4> QED  BY <1>6, <4>1, <4>2 DEF Retired, HeldBy
    <3> QED  BY <3>1 DEF Held
  <2> QED  BY <1>6, <2>1 DEF ResidencyInv, JobsInv, HeldReady, Retired
<1>13. CommandsMapped(x, queue', active')
  <2>1. {queue'[i] : i \in 1 .. Len(queue')} \cup {active'.job}
            \subseteq {queue[i] : i \in 1 .. Len(queue)} \cup {NoJob}
    <3>1. CASE queue # <<>> /\ queue' = Tail(queue)
               /\ active' = [stage |-> "cancelling", job |-> Head(queue)]
      BY <1>8, <3>1
    <3>2. CASE queue' = queue /\ active' = NoActive
      <4>1. active'.job = NoJob
        BY <3>2 DEF NoActive
      <4> QED  BY <3>2, <4>1
    <3> QED  BY <1>7, <3>1, <3>2
  <2>2. ASSUME Usable(x), NEW i \in 1 .. Len(queue), queue[i].kind = "commands",
               NEW b \in ToSet(queue[i].objects)
        PROVE  b \in x.mapped
    <3>1. queue[i] \in RenderJobs
      BY <1>1
    <3>2. b \in Buffer
      BY <3>1, JobTypes
    <3>3. Waiting(queue, b) # {}
      BY DEF Waiting
    <3>4. b \in Held(x)
      BY <1>1, <1>6, <3>2, <3>3, WaitingType DEF Retired, Held
    <3>5. CommandsMapped(memory, queue, active) /\ Usable(memory)
      BY <1>6, <2>2 DEF ResidencyInv, JobsInv, Retired
    <3>6. b \in memory.mapped
      BY <2>2, <3>5 DEF CommandsMapped
    <3> QED  BY <1>6, <3>4, <3>6 DEF Retired
  <2>3. NoJob.kind # "commands"
    BY DEF NoJob
  <2> QED  BY <2>1, <2>2, <2>3 DEF CommandsMapped
<1>14. RunReady(memory', running')
  BY <1>0, NothingRuns
<1>15. JobsInv'
  BY <1>5, <1>11, <1>12, <1>13, <1>14 DEF JobsInv
<1> QED  BY <1>9, <1>10, <1>15 DEF ResidencyInv

----------------------------------------------------------------------------
(* The theorems.                                                           *)

LEMMA AtFirst ==
    ASSUME RenderResidencyInit
    PROVE  ResidencyInv
<1>1. memory = MemoryAtOpen /\ queue = <<>> /\ active = NoActive /\ running = NoJob
  BY DEF RenderResidencyInit
<1>2. RecordsInv
  BY <1>1 DEF RecordsInv, ActiveStates
<1>3. memory \in MemoryState
  BY <1>1 DEF MemoryAtOpen, MemoryState
<1>4. /\ memory.open = {} /\ memory.resident = {} /\ memory.mapped = {}
      /\ memory.bound = {} /\ memory.refs = [b \in Buffer |-> 0]
      /\ memory.quarantined = {} /\ memory.named = {} /\ memory.global = {}
      /\ memory.kept = FALSE /\ memory.ok
  BY <1>1 DEF MemoryAtOpen
<1>5. memory \in Sound
  <2>1. IsFiniteSet(memory.open)
    BY <1>4, FS_EmptySet
  <2> QED  BY <1>3, <1>4, <2>1 DEF Sound, Accounted, Trusted
<1>6. MemoryInv
  BY <1>4, <1>5 DEF MemoryInv, Inside
<1>7. ToSet(active.job.objects) = {} /\ active.job.kind = "none"
  BY <1>1, <1>2, ActiveTypes DEF RecordsInv
<1>8. Counts(memory, queue, active)
  <2>1. \A b \in Buffer : Waiting(queue, b) = {}
    BY <1>1 DEF Waiting
  <2> QED  BY <1>4, <1>7, <2>1, FS_EmptySet DEF Counts, HeldBy
<1>9. HeldReady(memory) /\ CommandsMapped(memory, queue, active)
  BY <1>1, <1>4, <1>7 DEF HeldReady, Held, CommandsMapped
<1>10. JobsInv
  BY <1>1, <1>8, <1>9, NothingRuns DEF JobsInv
<1> QED  BY <1>2, <1>6, <1>10 DEF ResidencyInv

LEMMA InvariantStep ==
    ASSUME ResidencyInv, RenderResidencyNext
    PROVE  ResidencyInv'
<1>1. CASE \E b \in Buffer : \/ CreateRenderBuffer(b) \/ CloseRenderBuffer(b)
                             \/ SetRenderBufferDomain(b) \/ EnqueueRenderPresent(b)
  BY <1>1, CreateStep, CloseStep, SetDomainStep, EnqueuePresentStep
<1>2. CASE CreatePpgttContext \/ DestroyPpgttContext \/ DestroyRenderClient
  BY <1>2, CreateContextStep, DestroyContextStep, DestroyClientStep
<1>3. CASE \E objects \in Objects : EnqueueRenderCommands(objects)
  BY <1>3, EnqueueCommandsStep
<1>4. CASE \E job \in RenderJobs : SubmitSynchronously(job)
  BY <1>4, SubmitStep
<1>5. CASE JobTaken \/ WorkerSubmits \/ SynchronousEnds \/ JobRetires
  BY <1>5, JobTakenStep, WorkerSubmitsStep, SynchronousEndsStep, JobRetiresStep
<1>6. CASE \E p \in Buffer \X Buffer : RunRenderMemoryTest(p[1], p[2])
  BY <1>6, MemoryTestStep
<1> QED  BY <1>1, <1>2, <1>3, <1>4, <1>5, <1>6 DEF RenderResidencyNext

\* What the buffers, the tables and the jobs of a client say agree, whatever
\* the device, the kernel and the calls of the client do and however they fail:
\* references count the jobs that use a buffer, what they use exists, and while
\* the device is usable it is wired and, for commands, mapped.
THEOREM ResidencyInvariant == RenderResidencySpec => []ResidencyInv
<1>1. RenderResidencyInit => ResidencyInv
  BY AtFirst
<1>2. ResidencyInv /\ [RenderResidencyNext]_residencyVars => ResidencyInv'
  <2> SUFFICES ASSUME ResidencyInv, [RenderResidencyNext]_residencyVars
               PROVE  ResidencyInv'
    OBVIOUS
  <2>1. CASE RenderResidencyNext
    BY <2>1, InvariantStep
  <2>2. CASE UNCHANGED residencyVars
    <3>1. memory' = memory /\ queue' = queue /\ active' = active /\ running' = running
      BY <2>2 DEF residencyVars
    <3> QED  BY <3>1 DEF ResidencyInv, RecordsInv, MemoryInv, JobsInv
  <2> QED  BY <2>1, <2>2
<1> QED  BY <1>1, <1>2, PTL DEF RenderResidencySpec

\* Every page a page table or a GGTT entry names is wired: the calls that evict,
\* close and release buffers keep the pages of what they could not take out of
\* the tables (intel_valleyview/Gpu.cpp).
THEOREM NamedIsWiredCorrect == RenderResidencySpec => []NamedIsWired
<1>1. ResidencyInv => NamedIsWired
  BY DEF ResidencyInv, MemoryInv, Sound, Accounted, NamedIsWired
<1> QED  BY <1>1, ResidencyInvariant, PTL

\* The objects of queued, active and running jobs exist, are wired and, for
\* commands, named by the page tables, for a presentation that runs, by the
\* GGTT, while buffers are closed and evicted and contexts destroyed.
THEOREM QueuedObjectsReadyCorrect == RenderResidencySpec => []QueuedObjectsReady
<1>1. ASSUME ResidencyInv PROVE QueuedObjectsReady
  <2> SUFFICES ASSUME Usable(memory), NEW job \in JobsHolding, NEW b \in ToSet(job.objects)
               PROVE  /\ b \in memory.open \cap memory.resident
                      /\ job.kind = "commands" => b \in memory.named
                      /\ job = running /\ job.kind = "present" => b \in memory.global
    BY DEF QueuedObjectsReady
  <2>0. /\ queue \in Seq(RenderJobs) /\ active \in ActiveStates
        /\ memory \in Sound /\ Counts(memory, queue, active) /\ HeldReady(memory)
        /\ CommandsMapped(memory, queue, active) /\ RunReady(memory, running)
    BY <1>1 DEF ResidencyInv, RecordsInv, MemoryInv, JobsInv
  <2>1. memory.mapped \cap memory.resident \subseteq memory.named
        /\ memory.bound \subseteq memory.global
    BY <2>0 DEF Sound, Trusted, Accounted
  <2>2. job = running \/ job \in {queue[i] : i \in 1 .. Len(queue)} \cup {active.job}
    BY <2>0 DEF JobsHolding
  <2>3. CASE job = running
    BY <2>0, <2>1, <2>3 DEF RunReady
  <2>4. CASE job \in {queue[i] : i \in 1 .. Len(queue)} \cup {active.job}
    <3>1. b \in Buffer
      <4>1. job \in RenderJobs
        BY <2>0, <2>4, ActiveTypes
      <4> QED  BY <4>1, JobTypes
    <3>2. b \in Held(memory)
      <4>1. HeldBy(queue, active, b) > 0
        BY <2>0, <2>4, JobHolds
      <4> QED  BY <2>0, <3>1, <4>1 DEF Counts, Held
    <3>3. b \in memory.open \cap memory.resident
      BY <2>0, <3>2 DEF HeldReady
    <3>4. job.kind = "commands" => b \in memory.named
      BY <2>0, <2>1, <2>4, <3>3 DEF CommandsMapped
    <3>5. job = running => (job.kind = "present" => b \in memory.global)
      BY <2>0, <2>1 DEF RunReady
    <3> QED  BY <3>3, <3>4, <3>5
  <2> QED  BY <2>2, <2>3, <2>4
<1>2. ResidencyInv => QueuedObjectsReady
  BY <1>1
<1> QED  BY <1>2, ResidencyInvariant, PTL
=============================================================================
