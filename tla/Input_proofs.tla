---------------------------- MODULE Input_proofs ----------------------------
(***************************************************************************)
(* Proofs about the input devices and the pins they interrupt through.  The  *)
(* GPIO controller, for any pins, consumers and handlers: no edge is lost     *)
(* between the pad and the handler, and no handler runs after StopWatching    *)
(* has returned.  The keyboard, for any keys whose bytes the protocol does    *)
(* not use, any number of openers and any limits: what was reported is what   *)
(* is held.  The touchpad, for any slots, limits and failures: at rest no     *)
(* finger and no button is reported that is not there.                        *)
(***************************************************************************)
EXTENDS BayTrailGpio, CrosEcKeyboard, TouchPad, FunctionTheorems, SequenceTheorems,
        WellFoundedInduction, TLAPS

\* A set of natural numbers has a least one
LEMMA LeastNatural ==
    ASSUME NEW T, T \subseteq Nat, T # {}
    PROVE  \E n \in T : \A m \in T : n <= m
<1> DEFINE R == OpToRel(<, Nat)
<1>1. IsWellFoundedOn(R, Nat)
  BY NatLessThanWellFounded, Zenon
<1>2. \A m, n \in Nat : <<m, n>> \in R <=> m < n
  BY DEF OpToRel
<1> HIDE DEF R
<1>3. PICK n \in T : \A m \in T : ~(<<m, n>> \in R)
  BY <1>1, WFMin
<1>4. \A m \in T : m \in Nat /\ n \in Nat /\ ~(m < n)
  BY <1>2, <1>3
<1> QED  BY <1>4

----------------------------------------------------------------------------
(* The GPIO controller.                                                    *)

PadState == [trigger: {"none", "both", "rising", "falling"},
             output: BOOLEAN, missed: BOOLEAN]
WatchState == [claimed: BOOLEAN, watching: BOOLEAN, pending: BOOLEAN, due: BOOLEAN,
               lastLevel: BOOLEAN, edge: {"both", "rising", "falling"},
               handler: Consumer \cup {Nobody}, dispatching: Int]
IrqState == [status: SUBSET Pin, watched: SUBSET Pin, pending: SUBSET Pin,
             sem: Int, taken: SUBSET Pin]
BankState == [lock: Consumer \cup {Nobody},
              at: {"wait", "collect", "dispatch", "handler"},
              pin: Pin \cup {Nobody}, context: Consumer \cup {Nobody}]
ConsumerState == [at: {"idle", "holds", "watch", "drain", "stopped"},
                  pin: Pin \cup {Nobody}, releases: BOOLEAN]

\* Every variable has its type
GpioTypeOK ==
    /\ line \in [Pin -> BOOLEAN] /\ pads \in [Pin -> PadState]
    /\ watch \in [Pin -> WatchState] /\ irq \in IrqState /\ bank \in BankState
    /\ consumer \in [Consumer -> ConsumerState]

\* A consumer that is not idle has a pin of its own, which is claimed
PinsOwned ==
    \A c \in Consumer : consumer[c].at # "idle" =>
        /\ consumer[c].pin \in Pin /\ watch[consumer[c].pin].claimed
        /\ \A d \in Consumer :
              consumer[d].at # "idle" /\ consumer[d].pin = consumer[c].pin => d = c

\* A pin is watched for the consumer that has it, and not while that one stops
WatchesOwned ==
    \A p \in Pin : watch[p].watching =>
        /\ watch[p].handler \in Consumer
        /\ consumer[watch[p].handler].pin = p
        /\ consumer[watch[p].handler].at \in {"holds", "watch"}

\* The lock is kept from one step to the next only in the middle of Watch
LockInWatch ==
    bank.lock # Nobody =>
        /\ consumer[bank.lock].at = "watch"
        /\ watch[consumer[bank.lock].pin].watching

Arming(p) == bank.lock # Nobody /\ consumer[bank.lock].pin = p

WatchesArmed ==
    \A p \in Pin : watch[p].watching /\ ~Arming(p) =>
        /\ p \in irq.watched
        /\ pads[p].trigger = watch[p].edge

\* What the interrupt queued, the worker is about to collect
PendingIsWoken ==
    /\ irq.sem >= 0
    /\ irq.pending # {} => irq.sem > 0 \/ bank.at = "collect"

HandlerHasPin == bank.at = "handler" => bank.pin \in Pin

\* The level dispatched last is that of the line, or the edge is on its way
EdgesOnTheWay ==
    \A p \in Pin : watch[p].watching /\ watch[p].edge = "both" =>
        \/ watch[p].lastLevel = line[p] \/ pads[p].missed
        \/ p \in irq.status \/ p \in irq.taken \/ p \in irq.pending
        \/ watch[p].pending

LevelInv ==
    /\ GpioTypeOK /\ PinsOwned /\ WatchesOwned /\ LockInWatch /\ WatchesArmed
    /\ PendingIsWoken /\ HandlerHasPin /\ EdgesOnTheWay

\* The pin of the handler that runs is counted as dispatching, and stays watched
\* until its consumer waits for the count
HandlerCounted ==
    /\ \A p \in Pin : watch[p].dispatching >= 0
    /\ bank.at = "handler" =>
          /\ bank.context \in Consumer
          /\ watch[bank.pin].dispatching > 0
          /\ consumer[bank.context].pin = bank.pin
          /\ consumer[bank.context].at \in {"holds", "watch", "drain"}
          /\ consumer[bank.context].at # "drain" => watch[bank.pin].watching

-----------------------------------------------------------------------------
LEMMA GpioInitInv == GpioInit => LevelInv /\ HandlerCounted
BY GpioAssumption, NobodyAssumption
   DEF GpioInit, FreeSlot, LevelInv, GpioTypeOK, PadState, WatchState, IrqState,
       BankState, ConsumerState, PinsOwned, WatchesOwned, LockInWatch,
       WatchesArmed, Arming, PendingIsWoken, HandlerHasPin, EdgesOnTheWay,
       HandlerCounted
\* A consumer in a call has its pin
LEMMA ConsumersPin ==
    ASSUME LevelInv, NEW c \in Consumer, consumer[c].at # "idle" \/ bank.lock = c
    PROVE  consumer[c].pin \in Pin
BY NobodyAssumption DEF LevelInv, PinsOwned, LockInWatch

LEMMA UnwatchedType ==
    ASSUME GpioTypeOK, NEW p \in Pin, Unwatched(p)
    PROVE  watch' \in [Pin -> WatchState] /\ pads' \in [Pin -> PadState] /\ irq' \in IrqState
<1>1. watch \in [Pin -> WatchState] /\ pads \in [Pin -> PadState] /\ irq \in IrqState
  BY DEF GpioTypeOK
<1>2. watch' \in [Pin -> WatchState]
  <2>1. [watch[p] EXCEPT !.watching = FALSE, !.pending = FALSE, !.handler = Nobody] \in WatchState
    BY <1>1 DEF WatchState
  <2> QED BY <1>1, <2>1 DEF Unwatched
<1>3. pads' \in [Pin -> PadState]
  BY <1>1 DEF Unwatched, PadState
<1>4. irq' \in IrqState
  <2>1. irq.watched \ {p} \in SUBSET Pin /\ irq.status \ {p} \in SUBSET Pin
    BY <1>1 DEF IrqState
  <2> QED BY <1>1, <2>1 DEF Unwatched, IrqState
<1> QED BY <1>2, <1>3, <1>4

\* A pin that is no longer watched, and the others
LEMMA UnwatchedPoints ==
    ASSUME GpioTypeOK, NEW p \in Pin, Unwatched(p)
    PROVE  /\ ~watch'[p].watching /\ watch'[p].claimed = watch[p].claimed
           /\ watch'[p].dispatching = watch[p].dispatching
           /\ \A q \in Pin : q # p =>
                 /\ watch'[q] = watch[q] /\ pads'[q] = pads[q]
                 /\ q \in irq'.watched <=> q \in irq.watched
                 /\ q \in irq'.status <=> q \in irq.status
           /\ irq'.pending = irq.pending /\ irq'.sem = irq.sem /\ irq'.taken = irq.taken
<1>1. watch \in [Pin -> WatchState] /\ pads \in [Pin -> PadState] /\ irq \in IrqState
  BY DEF GpioTypeOK
<1>2. CASE ~watch[p].watching
  BY <1>2 DEF Unwatched
<1>3. CASE watch[p].watching
  <2>1. watch'[p] = [watch[p] EXCEPT !.watching = FALSE, !.pending = FALSE,
                                     !.handler = Nobody]
    BY <1>1, <1>3 DEF Unwatched
  <2>2. watch[p] \in WatchState
    BY <1>1
  <2>3. /\ ~watch'[p].watching /\ watch'[p].claimed = watch[p].claimed
        /\ watch'[p].dispatching = watch[p].dispatching
    BY <2>1, <2>2 DEF WatchState
  <2>4. \A q \in Pin : q # p => watch'[q] = watch[q] /\ pads'[q] = pads[q]
    BY <1>1, <1>3 DEF Unwatched
  <2>5. /\ irq'.watched = irq.watched \ {p} /\ irq'.status = irq.status \ {p}
        /\ irq'.pending = irq.pending /\ irq'.sem = irq.sem /\ irq'.taken = irq.taken
    BY <1>1, <1>3 DEF Unwatched, IrqState
  <2> QED BY <2>3, <2>4, <2>5
<1> QED BY <1>2, <1>3

LEMMA GpioTypeStep ==
    ASSUME LevelInv, GpioNext
    PROVE  GpioTypeOK'
<1>line. line \in [Pin -> BOOLEAN]
  BY DEF LevelInv, GpioTypeOK
<1>pads. pads \in [Pin -> PadState]
  BY DEF LevelInv, GpioTypeOK
<1>watch. watch \in [Pin -> WatchState]
  BY DEF LevelInv, GpioTypeOK
<1>irq. irq \in IrqState
  BY DEF LevelInv, GpioTypeOK
<1>bank. bank \in BankState
  BY DEF LevelInv, GpioTypeOK
<1>consumer. consumer \in [Consumer -> ConsumerState]
  BY DEF LevelInv, GpioTypeOK
<1>0. GpioTypeOK
  BY DEF LevelInv
<1>1. ASSUME NEW p \in Pin, LineMoves(p)
      PROVE  GpioTypeOK'
  <2>1. line' \in [Pin -> BOOLEAN]
    BY <1>1, <1>line DEF LineMoves, Triggers, EdgeMatches, LockFree
  <2>2. irq' \in IrqState
    BY <1>1, <1>irq DEF LineMoves, Triggers, EdgeMatches, LockFree, IrqState
  <2>3. pads' \in [Pin -> PadState]
    BY <1>1, <1>pads DEF LineMoves, Triggers, EdgeMatches, LockFree, PadState
  <2> QED BY <1>0, <1>1, <2>1, <2>2, <2>3 DEF LineMoves, GpioTypeOK
<1>2. ASSUME NEW p \in Pin, DebounceEnds(p)
      PROVE  GpioTypeOK'
  <2>1. watch' \in [Pin -> WatchState]
    BY <1>2, <1>watch DEF DebounceEnds, WatchState
  <2> QED BY <1>0, <1>2, <2>1 DEF DebounceEnds, GpioTypeOK
<1>3. ASSUME NEW c \in Consumer, NEW p \in Pin, AcquireAcpi(c, p)
      PROVE  GpioTypeOK'
  <2>1. watch' \in [Pin -> WatchState]
    BY <1>3, <1>watch DEF AcquireAcpi, LockFree, WatchState
  <2>2. consumer' \in [Consumer -> ConsumerState]
    BY <1>3, <1>consumer DEF AcquireAcpi, LockFree, ConsumerState
  <2> QED BY <1>0, <1>3, <2>1, <2>2 DEF AcquireAcpi, GpioTypeOK
<1>4. ASSUME NEW c \in Consumer, ConfigureInput(c)
      PROVE  GpioTypeOK'
  <2>1. pads' \in [Pin -> PadState]
    BY <1>4, <1>pads DEF ConfigureInput, LockFree, Moves, PadState
  <2>2. consumer' \in [Consumer -> ConsumerState]
    BY <1>4, <1>consumer DEF ConfigureInput, LockFree, Moves, ConsumerState
  <2> QED BY <1>0, <1>4, <2>1, <2>2 DEF ConfigureInput, GpioTypeOK
<1>5. ASSUME NEW c \in Consumer, ConfigureOutput(c)
      PROVE  GpioTypeOK'
  <2>1. pads' \in [Pin -> PadState]
    BY <1>5, <1>pads DEF ConfigureOutput, LockFree, PadState
  <2>2. line' \in [Pin -> BOOLEAN]
    BY <1>5, <1>line DEF ConfigureOutput, LockFree
  <2> QED BY <1>0, <1>5, <2>1, <2>2 DEF ConfigureOutput, GpioTypeOK
<1>6. ASSUME NEW c \in Consumer, WatchRefused(c)
      PROVE  GpioTypeOK'
  <2>1. consumer' \in [Consumer -> ConsumerState]
    BY <1>6, <1>consumer DEF WatchRefused, LockFree, Moves, ConsumerState
  <2> QED BY <1>0, <1>6, <2>1 DEF WatchRefused, GpioTypeOK
<1>7. ASSUME NEW c \in Consumer, WatchReads(c)
      PROVE  GpioTypeOK'
  <2>0. consumer[c].pin \in Pin
    BY <1>7, ConsumersPin DEF WatchReads
  <2>1. watch' \in [Pin -> WatchState]
    <3>1. PICK e \in Edge :
             watch' = [watch EXCEPT ![consumer[c].pin].lastLevel = line[consumer[c].pin],
                                    ![consumer[c].pin].edge = e,
                                    ![consumer[c].pin].pending = FALSE,
                                    ![consumer[c].pin].watching = TRUE,
                                    ![consumer[c].pin].handler = c]
      BY <1>7 DEF WatchReads
    <3>2. e \in {"both", "rising", "falling"} /\ line[consumer[c].pin] \in BOOLEAN
      BY <2>0, <1>line, GpioAssumption
    <3>3. [watch[consumer[c].pin] EXCEPT !.lastLevel = line[consumer[c].pin], !.edge = e,
              !.pending = FALSE, !.watching = TRUE, !.handler = c] \in WatchState
      <4>1. watch[consumer[c].pin] \in WatchState
        BY <2>0, <1>watch
      <4>2. \A w \in WatchState, l \in BOOLEAN, d \in {"both", "rising", "falling"} :
               [w EXCEPT !.lastLevel = l, !.edge = d, !.pending = FALSE,
                         !.watching = TRUE, !.handler = c] \in WatchState
        BY DEF WatchState
      <4> QED BY <3>2, <4>1, <4>2
    <3> QED BY <2>0, <3>1, <3>3, <1>watch
  <2>2. pads' \in [Pin -> PadState]
    BY <1>7, <1>pads DEF WatchReads, LockFree, PadState
  <2>3. irq' \in IrqState
    BY <1>7, <1>irq DEF WatchReads, LockFree, IrqState
  <2>4. bank' \in BankState
    BY <1>7, <1>bank DEF WatchReads, LockFree, BankState
  <2> QED BY <1>0, <1>7, <2>1, <2>2, <2>3, <2>4 DEF WatchReads, GpioTypeOK
<1>8. ASSUME NEW c \in Consumer, WatchArms(c)
      PROVE  GpioTypeOK'
  <2>0. consumer[c].pin \in Pin
    BY <1>8, ConsumersPin DEF WatchArms
  <2>1. irq' \in IrqState
    BY <1>8, <2>0, <1>irq DEF WatchArms, IrqState
  <2>2. pads' \in [Pin -> PadState]
    <3>1. watch[consumer[c].pin].edge \in {"both", "rising", "falling"}
      BY <2>0, <1>watch DEF WatchState
    <3> QED BY <1>8, <3>1, <1>pads DEF WatchArms, PadState
  <2>3. bank' \in BankState
    BY <1>8, <1>bank DEF WatchArms, LockFree, Moves, BankState
  <2>4. consumer' \in [Consumer -> ConsumerState]
    BY <1>8, <1>consumer DEF WatchArms, LockFree, Moves, ConsumerState
  <2> QED BY <1>0, <1>8, <2>1, <2>2, <2>3, <2>4 DEF WatchArms, GpioTypeOK
<1>9. ASSUME NEW c \in Consumer, StopWatching(c)
      PROVE  GpioTypeOK'
  <2>1. consumer[c].pin \in Pin
    BY <1>9, ConsumersPin DEF StopWatching
  <2>2. /\ watch' \in [Pin -> WatchState] /\ pads' \in [Pin -> PadState]
        /\ irq' \in IrqState
    BY <1>9, <2>1, UnwatchedType DEF StopWatching, LevelInv
  <2>3. consumer' \in [Consumer -> ConsumerState]
    BY <1>9, <1>consumer DEF StopWatching, ConsumerState
  <2> QED BY <1>0, <1>9, <2>2, <2>3 DEF StopWatching, GpioTypeOK
<1>10. ASSUME NEW c \in Consumer, DispatchIdle(c)
      PROVE  GpioTypeOK'
  <2>1. consumer' \in [Consumer -> ConsumerState]
    BY <1>10, <1>consumer DEF DispatchIdle, LockFree, Moves, ConsumerState
  <2> QED BY <1>0, <1>10, <2>1 DEF DispatchIdle, GpioTypeOK
<1>11. ASSUME NEW c \in Consumer, StopReturns(c)
      PROVE  GpioTypeOK'
  <2>0. consumer[c].pin \in Pin
    BY <1>11, ConsumersPin DEF StopReturns
  <2>1. watch' \in [Pin -> WatchState]
    <3>1. [watch[consumer[c].pin] EXCEPT !.claimed = FALSE] \in WatchState
      BY <2>0, <1>watch DEF WatchState
    <3> QED BY <1>11, <2>0, <3>1, <1>watch DEF StopReturns, Moves
  <2>2. consumer' \in [Consumer -> ConsumerState]
    BY <1>11, <1>consumer DEF StopReturns, LockFree, Moves, ConsumerState
  <2> QED BY <1>0, <1>11, <2>1, <2>2 DEF StopReturns, GpioTypeOK
<1>12. ASSUME InterruptAcknowledges
      PROVE  GpioTypeOK'
  <2>1. irq' \in IrqState
    BY <1>12, <1>irq DEF InterruptAcknowledges, IrqState
  <2> QED BY <1>0, <1>12, <2>1 DEF InterruptAcknowledges, GpioTypeOK
<1>13. ASSUME InterruptQueues
      PROVE  GpioTypeOK'
  <2>1. irq' \in IrqState
    <3>1. irq.pending \cup irq.taken \in SUBSET Pin /\ irq.sem + 1 \in Int
      BY <1>irq DEF IrqState
    <3> QED BY <1>13, <3>1, <1>irq DEF InterruptQueues, IrqState
  <2> QED BY <1>0, <1>13, <2>1 DEF InterruptQueues, GpioTypeOK
<1>14. ASSUME WorkerWakes
      PROVE  GpioTypeOK'
  <2>1. irq' \in IrqState
    BY <1>14, <1>irq DEF WorkerWakes, IrqState
  <2>2. bank' \in BankState
    BY <1>14, <1>bank DEF WorkerWakes, BankState
  <2> QED BY <1>0, <1>14, <2>1, <2>2 DEF WorkerWakes, GpioTypeOK
<1>15. ASSUME CollectPending
      PROVE  GpioTypeOK'
  <2>1. watch' \in [Pin -> WatchState]
    <3>1. \A p \in Pin : [watch[p] EXCEPT !.pending = TRUE, !.due = FALSE] \in WatchState
      BY <1>watch DEF WatchState
    <3>2. \A p \in Pin : watch[p] \in WatchState
      BY <1>watch
    <3> QED BY <1>15, <3>1, <3>2 DEF CollectPending
  <2>2. irq' \in IrqState
    BY <1>15, <1>irq DEF CollectPending, LockFree, IrqState
  <2>3. bank' \in BankState
    BY <1>15, <1>bank DEF CollectPending, LockFree, BankState
  <2> QED BY <1>0, <1>15, <2>1, <2>2, <2>3 DEF CollectPending, GpioTypeOK
<1>16. ASSUME DispatchDue
      PROVE  GpioTypeOK'
  <2>1. watch' \in [Pin -> WatchState] /\ bank' \in BankState
    <3>1. CASE Due = {}
      BY <1>16, <3>1, <1>watch, <1>bank DEF DispatchDue, BankState
    <3>2. CASE Due # {}
      <4>1. PICK p \in Due, more \in {0, 1} :
               /\ watch' = [watch EXCEPT ![p].pending = FALSE, ![p].lastLevel = line[p],
                              ![p].dispatching = @ + more]
               /\ bank' \in {bank, [bank EXCEPT !.at = "handler", !.pin = p,
                                               !.context = watch[p].handler]}
        BY <1>16, <3>2 DEF DispatchDue
      <4>2. p \in Pin /\ line[p] \in BOOLEAN
        BY <4>1, <1>line DEF Due
      <4>3. watch[p].handler \in Consumer \cup {Nobody}
        BY <4>2, <1>watch DEF WatchState
      <4>4. watch' \in [Pin -> WatchState]
        <5>1. [watch[p] EXCEPT !.pending = FALSE, !.lastLevel = line[p],
                               !.dispatching = @ + more] \in WatchState
          <6>1. watch[p] \in WatchState
            BY <4>2, <1>watch
          <6>2. watch[p].dispatching + more \in Int
            BY <6>1 DEF WatchState
          <6>3. \A w \in WatchState, l \in BOOLEAN, k \in Int :
                   [w EXCEPT !.pending = FALSE, !.lastLevel = l,
                             !.dispatching = k] \in WatchState
            BY DEF WatchState
          <6> QED BY <4>2, <6>1, <6>2, <6>3
        <5> QED BY <4>1, <4>2, <5>1, <1>watch
      <4>5. bank' \in BankState
        BY <4>1, <4>2, <4>3, <1>bank DEF BankState
      <4> QED BY <4>4, <4>5
    <3> QED BY <3>1, <3>2
  <2> QED BY <1>0, <1>16, <2>1 DEF DispatchDue, GpioTypeOK
<1>17. ASSUME HandlerSteps
      PROVE  GpioTypeOK'
  <2>1. bank.pin \in Pin
    BY <1>17 DEF HandlerSteps, LevelInv, HandlerHasPin
  <2>2. CASE Unwatched(bank.pin) /\ UNCHANGED bank
    BY <1>17, <2>1, <2>2, UnwatchedType DEF HandlerSteps, LevelInv, GpioTypeOK
  <2>3. CASE ~(Unwatched(bank.pin) /\ UNCHANGED bank)
    <3>1. watch' \in [Pin -> WatchState]
      BY <1>17, <2>3, <2>1, <1>watch DEF HandlerSteps, WatchState
    <3>2. bank' \in BankState
      BY <1>17, <2>3, <1>bank DEF HandlerSteps, BankState
    <3> QED BY <1>17, <2>3, <3>1, <3>2 DEF HandlerSteps, LevelInv, GpioTypeOK
  <2> QED BY <2>2, <2>3
<1> QED BY <1>1, <1>2, <1>3, <1>4, <1>5, <1>6, <1>7, <1>8, <1>9, <1>10, <1>11, <1>12,
           <1>13, <1>14, <1>15, <1>16, <1>17 DEF GpioNext

\* A step of the worker leaves alone who has which pin
LEMMA WorkerFrame ==
    ASSUME LevelInv, UNCHANGED <<consumer, pads>>, bank'.lock = bank.lock,
           irq'.watched = irq.watched,
           \A p \in Pin : /\ watch'[p].claimed = watch[p].claimed
                          /\ watch'[p].watching = watch[p].watching
                          /\ watch'[p].handler = watch[p].handler
                          /\ watch'[p].edge = watch[p].edge
    PROVE  PinsOwned' /\ WatchesOwned' /\ LockInWatch' /\ WatchesArmed'
<1>1. PinsOwned'
  BY DEF LevelInv, PinsOwned
<1>2. WatchesOwned'
  BY DEF LevelInv, WatchesOwned
<1>3. LockInWatch'
  BY NobodyAssumption, ConsumersPin DEF LevelInv, LockInWatch, PinsOwned, GpioTypeOK, BankState
<1>4. WatchesArmed'
  BY DEF LevelInv, WatchesArmed, Arming
<1> QED BY <1>1, <1>2, <1>3, <1>4

LEMMA LineMovesStep ==
    ASSUME LevelInv, NEW p \in Pin, LineMoves(p)
    PROVE  LevelInv'
<1>0. GpioTypeOK'
  BY GpioTypeStep DEF GpioNext, LevelInv
<1>line. line \in [Pin -> BOOLEAN]
  BY DEF LevelInv, GpioTypeOK
<1>irq. irq \in IrqState
  BY DEF LevelInv, GpioTypeOK
<1>pads. pads \in [Pin -> PadState]
  BY DEF LevelInv, GpioTypeOK
<1>1. WatchesArmed'
  BY <1>irq, <1>pads
     DEF LineMoves, Triggers, EdgeMatches, LockFree, LevelInv, WatchesArmed,
         Arming, PinsOwned, WatchesOwned, LockInWatch, IrqState, PadState
<1>2. PendingIsWoken'
  BY <1>irq
     DEF LineMoves, Triggers, EdgeMatches, LockFree, LevelInv, PendingIsWoken,
         IrqState
<1>3. EdgesOnTheWay'
  BY <1>line, <1>irq, <1>pads
     DEF LineMoves, Triggers, EdgeMatches, LockFree, LevelInv, EdgesOnTheWay,
         Arming, LockInWatch, WatchesArmed, IrqState, PadState
<1>4. PinsOwned' /\ WatchesOwned' /\ LockInWatch' /\ HandlerHasPin'
  BY DEF LineMoves, LevelInv, PinsOwned, WatchesOwned, LockInWatch,
         HandlerHasPin
<1> QED BY <1>0, <1>1, <1>2, <1>3, <1>4 DEF LevelInv

LEMMA DebounceEndsStep ==
    ASSUME LevelInv, NEW p \in Pin, DebounceEnds(p)
    PROVE  LevelInv'
<1>0. GpioTypeOK'
  BY GpioTypeStep DEF GpioNext, LevelInv
<1>watch. watch \in [Pin -> WatchState]
  BY DEF LevelInv, GpioTypeOK
<1>1. PinsOwned' /\ WatchesOwned' /\ LockInWatch' /\ WatchesArmed'
  BY <1>watch, WorkerFrame DEF DebounceEnds, WatchState
<1>2. EdgesOnTheWay'
  BY <1>watch DEF DebounceEnds, LevelInv, EdgesOnTheWay, WatchState
<1>3. PendingIsWoken' /\ HandlerHasPin'
  BY DEF DebounceEnds, LevelInv, PendingIsWoken, HandlerHasPin
<1> QED BY <1>0, <1>1, <1>2, <1>3 DEF LevelInv

LEMMA AcquireAcpiStep ==
    ASSUME LevelInv, NEW c \in Consumer, NEW p \in Pin, AcquireAcpi(c, p)
    PROVE  LevelInv'
<1>0. GpioTypeOK'
  BY GpioTypeStep DEF GpioNext, LevelInv
<1>watch. watch \in [Pin -> WatchState]
  BY DEF LevelInv, GpioTypeOK
<1>consumer. consumer \in [Consumer -> ConsumerState]
  BY DEF LevelInv, GpioTypeOK
<1>1. PinsOwned'
  BY <1>watch, <1>consumer
     DEF AcquireAcpi, LockFree, LevelInv, PinsOwned, WatchState, ConsumerState
<1>2. WatchesOwned'
  BY <1>watch, <1>consumer
     DEF AcquireAcpi, LockFree, LevelInv, WatchesOwned, PinsOwned, WatchState,
         ConsumerState
<1>3. LockInWatch'
  BY <1>watch, <1>consumer
     DEF AcquireAcpi, LockFree, LevelInv, LockInWatch, PinsOwned,
         WatchesOwned, WatchState, ConsumerState
<1>4. WatchesArmed'
  BY <1>watch, <1>consumer
     DEF AcquireAcpi, LockFree, LevelInv, WatchesArmed, Arming, PinsOwned,
         WatchesOwned, LockInWatch, WatchState, ConsumerState
<1>5. EdgesOnTheWay'
  BY <1>watch
     DEF AcquireAcpi, LockFree, LevelInv, EdgesOnTheWay, Arming, LockInWatch,
         WatchesArmed, WatchState
<1>6. PendingIsWoken' /\ HandlerHasPin'
  BY DEF AcquireAcpi, LevelInv, PendingIsWoken, HandlerHasPin
<1> QED BY <1>0, <1>1, <1>2, <1>3, <1>4, <1>5, <1>6 DEF LevelInv

LEMMA ConfigureInputStep ==
    ASSUME LevelInv, NEW c \in Consumer, ConfigureInput(c)
    PROVE  LevelInv'
<1>0. GpioTypeOK'
  BY GpioTypeStep DEF GpioNext, LevelInv
<1>pads. pads \in [Pin -> PadState]
  BY DEF LevelInv, GpioTypeOK
<1>consumer. consumer \in [Consumer -> ConsumerState]
  BY DEF LevelInv, GpioTypeOK
<1>1. PinsOwned'
  BY <1>consumer
     DEF ConfigureInput, LockFree, Moves, LevelInv, PinsOwned, ConsumerState
<1>2. WatchesOwned'
  BY <1>consumer
     DEF ConfigureInput, LockFree, Moves, LevelInv, WatchesOwned, PinsOwned,
         ConsumerState
<1>3. LockInWatch'
  BY <1>consumer
     DEF ConfigureInput, LockFree, Moves, LevelInv, LockInWatch, PinsOwned,
         WatchesOwned, ConsumerState
<1>4. WatchesArmed'
  BY <1>pads, <1>consumer
     DEF ConfigureInput, LockFree, Moves, LevelInv, WatchesArmed, Arming,
         PinsOwned, WatchesOwned, LockInWatch, PadState, ConsumerState
<1>5. EdgesOnTheWay'
  BY <1>pads
     DEF ConfigureInput, LockFree, Moves, LevelInv, EdgesOnTheWay, Arming,
         LockInWatch, WatchesArmed, PadState
<1>6. PendingIsWoken' /\ HandlerHasPin'
  BY DEF ConfigureInput, LevelInv, PendingIsWoken, HandlerHasPin
<1> QED BY <1>0, <1>1, <1>2, <1>3, <1>4, <1>5, <1>6 DEF LevelInv

LEMMA ConfigureOutputStep ==
    ASSUME LevelInv, NEW c \in Consumer, ConfigureOutput(c)
    PROVE  LevelInv'
<1>0. GpioTypeOK'
  BY GpioTypeStep DEF GpioNext, LevelInv
<1>pads. pads \in [Pin -> PadState]
  BY DEF LevelInv, GpioTypeOK
<1>line. line \in [Pin -> BOOLEAN]
  BY DEF LevelInv, GpioTypeOK
<1>1. WatchesArmed'
  BY <1>pads
     DEF ConfigureOutput, LockFree, LevelInv, WatchesArmed, Arming, PinsOwned,
         WatchesOwned, LockInWatch, PadState
<1>2. EdgesOnTheWay'
  BY <1>pads, <1>line
     DEF ConfigureOutput, LockFree, LevelInv, EdgesOnTheWay, Arming,
         LockInWatch, WatchesArmed, PadState
<1>3. PinsOwned' /\ WatchesOwned' /\ LockInWatch' /\ PendingIsWoken' /\ HandlerHasPin'
  BY DEF ConfigureOutput, LevelInv, PinsOwned, WatchesOwned, LockInWatch,
         PendingIsWoken, HandlerHasPin
<1> QED BY <1>0, <1>1, <1>2, <1>3 DEF LevelInv

LEMMA WatchRefusedStep ==
    ASSUME LevelInv, NEW c \in Consumer, WatchRefused(c)
    PROVE  LevelInv'
<1>0. GpioTypeOK'
  BY GpioTypeStep DEF GpioNext, LevelInv
<1>consumer. consumer \in [Consumer -> ConsumerState]
  BY DEF LevelInv, GpioTypeOK
<1>1. PinsOwned'
  BY <1>consumer
     DEF WatchRefused, LockFree, Moves, LevelInv, PinsOwned, ConsumerState
<1>2. WatchesOwned'
  BY <1>consumer
     DEF WatchRefused, LockFree, Moves, LevelInv, WatchesOwned, PinsOwned,
         ConsumerState
<1>3. LockInWatch'
  BY <1>consumer
     DEF WatchRefused, LockFree, Moves, LevelInv, LockInWatch, PinsOwned,
         WatchesOwned, ConsumerState
<1>4. WatchesArmed'
  BY <1>consumer
     DEF WatchRefused, LockFree, Moves, LevelInv, WatchesArmed, Arming,
         PinsOwned, WatchesOwned, LockInWatch, ConsumerState
<1>5. PendingIsWoken' /\ HandlerHasPin' /\ EdgesOnTheWay'
  BY DEF WatchRefused, LevelInv, PendingIsWoken, HandlerHasPin, EdgesOnTheWay
<1> QED BY <1>0, <1>1, <1>2, <1>3, <1>4, <1>5 DEF LevelInv

LEMMA WatchReadsStep ==
    ASSUME LevelInv, NEW c \in Consumer, WatchReads(c)
    PROVE  LevelInv'
<1> DEFINE P == consumer[c].pin
<1>0. GpioTypeOK'
  BY GpioTypeStep DEF GpioNext, LevelInv
<1>pads. pads \in [Pin -> PadState]
  BY DEF LevelInv, GpioTypeOK
<1>irq. irq \in IrqState
  BY DEF LevelInv, GpioTypeOK
<1>bank. bank \in BankState
  BY DEF LevelInv, GpioTypeOK
<1>pin. P \in Pin /\ consumer[c].at = "watch"
  BY ConsumersPin DEF WatchReads
<1>watch. /\ \A p \in Pin : p # P => watch'[p] = watch[p]
          /\ watch'[P].claimed = watch[P].claimed
          /\ watch'[P].watching /\ watch'[P].handler = c
          /\ watch'[P].lastLevel = line[P]
  <2>1. PICK e \in Edge :
           watch' = [watch EXCEPT ![P].lastLevel = line[P], ![P].edge = e,
                                  ![P].pending = FALSE, ![P].watching = TRUE,
                                  ![P].handler = c]
    BY DEF WatchReads
  <2>2. watch \in [Pin -> WatchState]
    BY DEF LevelInv, GpioTypeOK
  <2>3. watch'[P] = [watch[P] EXCEPT !.lastLevel = line[P], !.edge = e, !.pending = FALSE,
                                     !.watching = TRUE, !.handler = c]
    BY <1>pin, <2>1, <2>2
  <2>4. watch[P] \in WatchState
    BY <1>pin, <2>2
  <2>5. \A p \in Pin : p # P => watch'[p] = watch[p]
    BY <2>1, <2>2
  <2> QED BY <2>3, <2>4, <2>5 DEF WatchState
<1>lock. bank.lock = Nobody /\ bank'.lock = c /\ bank'.at = bank.at /\ bank'.pin = bank.pin
  BY <1>bank DEF WatchReads, LockFree, BankState
<1>same. UNCHANGED <<line, consumer>>
  BY DEF WatchReads
<1> HIDE DEF P
<1>1. PinsOwned'
  <2>1. \A p \in Pin : watch'[p].claimed = watch[p].claimed
    BY <1>watch
  <2> QED BY <2>1, <1>same DEF LevelInv, PinsOwned
<1>2. WatchesOwned'
  BY <1>watch, <1>pin, <1>same DEF LevelInv, WatchesOwned, P
<1>3. LockInWatch'
  BY <1>watch, <1>pin, <1>same, <1>lock DEF LockInWatch, P
<1>4. WatchesArmed'
  <2> SUFFICES ASSUME NEW p \in Pin, watch'[p].watching, ~Arming(p)'
               PROVE  p \in irq'.watched /\ pads'[p].trigger = watch'[p].edge
    BY DEF WatchesArmed
  <2>1. p # P
    BY NobodyAssumption, <1>lock, <1>same, <1>pin DEF Arming, P
  <2>2. p \in irq.watched /\ pads[p].trigger = watch[p].edge
    BY <2>1, <1>lock, <1>watch DEF LevelInv, WatchesArmed, Arming
  <2>3. irq'.watched = irq.watched
    BY <1>irq DEF WatchReads, IrqState
  <2>4. pads'[p] = pads[p]
    BY <2>1, <1>pads DEF WatchReads, P
  <2> QED BY <2>1, <2>2, <2>3, <2>4, <1>watch
<1>5. PendingIsWoken'
  BY <1>irq, <1>bank
     DEF WatchReads, LockFree, LevelInv, PendingIsWoken, IrqState, BankState
<1>6. HandlerHasPin'
  BY <1>lock DEF LevelInv, HandlerHasPin
<1>7. EdgesOnTheWay'
  <2> SUFFICES ASSUME NEW p \in Pin, watch'[p].watching, watch'[p].edge = "both",
                      p # P
               PROVE  \/ watch'[p].lastLevel = line'[p] \/ pads'[p].missed
                      \/ p \in irq'.status \/ p \in irq'.taken \/ p \in irq'.pending
                      \/ watch'[p].pending
    BY <1>watch, <1>same DEF EdgesOnTheWay
  <2>1. irq'.status = irq.status \ {P} /\ irq'.taken = irq.taken /\ irq'.pending = irq.pending
    BY <1>irq DEF WatchReads, IrqState, P
  <2>2. pads'[p] = pads[p]
    BY <1>pads DEF WatchReads, P
  <2> QED BY <2>1, <2>2, <1>watch, <1>same DEF LevelInv, EdgesOnTheWay
<1> QED BY <1>0, <1>1, <1>2, <1>3, <1>4, <1>5, <1>6, <1>7 DEF LevelInv

LEMMA WatchArmsStep ==
    ASSUME LevelInv, NEW c \in Consumer, WatchArms(c)
    PROVE  LevelInv'
<1>0. GpioTypeOK'
  BY GpioTypeStep DEF GpioNext, LevelInv
<1>irq. irq \in IrqState
  BY DEF LevelInv, GpioTypeOK
<1>pads. pads \in [Pin -> PadState]
  BY DEF LevelInv, GpioTypeOK
<1>bank. bank \in BankState
  BY DEF LevelInv, GpioTypeOK
<1>consumer. consumer \in [Consumer -> ConsumerState]
  BY DEF LevelInv, GpioTypeOK
<1>1. PinsOwned'
  <2>1. \A d \in Consumer : /\ consumer'[d].pin = consumer[d].pin
                            /\ consumer'[d].at = "idle" => consumer[d].at = "idle"
                            /\ consumer[d].at = "idle" /\ d # c => consumer'[d].at = "idle"
    BY <1>consumer DEF WatchArms, Moves, ConsumerState
  <2>2. consumer[c].at # "idle" /\ UNCHANGED watch
    BY NobodyAssumption DEF WatchArms, LevelInv, LockInWatch
  <2> QED BY <2>1, <2>2 DEF LevelInv, PinsOwned
<1>2. WatchesOwned'
  <2>1. \A d \in Consumer : /\ consumer'[d].pin = consumer[d].pin
                            /\ consumer'[d].at \in {consumer[d].at, "holds"}
    BY <1>consumer DEF WatchArms, Moves, ConsumerState
  <2> QED BY <2>1 DEF WatchArms, LevelInv, WatchesOwned
<1>3. LockInWatch'
  BY <1>bank, <1>consumer
     DEF WatchArms, LockFree, Moves, LevelInv, LockInWatch, PinsOwned,
         WatchesOwned, BankState, ConsumerState
<1>4. WatchesArmed'
  BY <1>irq, <1>pads, <1>bank, <1>consumer
     DEF WatchArms, LockFree, Moves, LevelInv, WatchesArmed, Arming,
         PinsOwned, WatchesOwned, LockInWatch, IrqState, PadState, BankState,
         ConsumerState
<1>5. PendingIsWoken'
  BY <1>irq, <1>bank
     DEF WatchArms, LockFree, Moves, LevelInv, PendingIsWoken, IrqState,
         BankState
<1>6. HandlerHasPin'
  BY <1>bank
     DEF WatchArms, LockFree, Moves, LevelInv, HandlerHasPin, BankState
<1>7. EdgesOnTheWay'
  BY <1>irq, <1>pads
     DEF WatchArms, LockFree, Moves, LevelInv, EdgesOnTheWay, Arming,
         LockInWatch, WatchesArmed, IrqState, PadState
<1> QED BY <1>0, <1>1, <1>2, <1>3, <1>4, <1>5, <1>6, <1>7 DEF LevelInv

LEMMA StopWatchingStep ==
    ASSUME LevelInv, NEW c \in Consumer, StopWatching(c)
    PROVE  LevelInv'
<1> DEFINE P == consumer[c].pin
<1>0. GpioTypeOK'
  BY GpioTypeStep DEF GpioNext, LevelInv
<1>pin. P \in Pin /\ consumer[c].at = "holds"
  BY ConsumersPin DEF StopWatching
<1>points. /\ ~watch'[P].watching /\ watch'[P].claimed = watch[P].claimed
           /\ \A q \in Pin : q # P =>
                 /\ watch'[q] = watch[q] /\ pads'[q] = pads[q]
                 /\ q \in irq'.watched <=> q \in irq.watched
                 /\ q \in irq'.status <=> q \in irq.status
           /\ irq'.pending = irq.pending /\ irq'.sem = irq.sem /\ irq'.taken = irq.taken
  BY <1>pin, UnwatchedPoints DEF StopWatching, LevelInv
<1>consumer. /\ consumer'[c].pin = P /\ consumer'[c].at \in {"drain", "stopped"}
             /\ \A d \in Consumer : d # c => consumer'[d] = consumer[d]
             /\ \A d \in Consumer : consumer'[d].pin = consumer[d].pin
                  /\ (consumer'[d].at = "idle" <=> consumer[d].at = "idle")
  <2>1. consumer \in [Consumer -> ConsumerState]
    BY DEF LevelInv, GpioTypeOK
  <2> QED BY <1>pin, <2>1 DEF StopWatching, ConsumerState
<1>lock. bank.lock = Nobody
  BY DEF StopWatching, LockFree
<1>same. UNCHANGED <<line, bank>>
  BY DEF StopWatching
<1>owned. PinsOwned /\ WatchesOwned /\ WatchesArmed /\ PendingIsWoken /\ HandlerHasPin
          /\ EdgesOnTheWay
  BY DEF LevelInv
<1> HIDE DEF P
<1>1. PinsOwned'
  <2>1. \A p \in Pin : watch'[p].claimed = watch[p].claimed
    BY <1>points
  <2> QED BY <1>owned, <1>consumer, <2>1 DEF PinsOwned
<1>2. WatchesOwned'
  <2> SUFFICES ASSUME NEW p \in Pin, watch'[p].watching
               PROVE  /\ watch'[p].handler \in Consumer
                      /\ consumer'[watch'[p].handler].pin = p
                      /\ consumer'[watch'[p].handler].at \in {"holds", "watch"}
    BY DEF WatchesOwned
  <2>1. p # P /\ watch'[p] = watch[p]
    BY <1>points
  <2>2. watch[p].handler # c
    BY <1>owned, <2>1 DEF WatchesOwned, P
  <2> QED BY <1>owned, <1>consumer, <2>1, <2>2 DEF WatchesOwned
<1>3. LockInWatch'
  BY <1>lock, <1>same DEF LockInWatch
<1>4. WatchesArmed'
  BY <1>lock, <1>same, <1>points, <1>owned DEF WatchesArmed, Arming
<1>5. PendingIsWoken' /\ HandlerHasPin'
  BY <1>same, <1>points, <1>owned DEF PendingIsWoken, HandlerHasPin
<1>6. EdgesOnTheWay'
  BY <1>same, <1>points, <1>owned DEF EdgesOnTheWay
<1> QED BY <1>0, <1>1, <1>2, <1>3, <1>4, <1>5, <1>6 DEF LevelInv

LEMMA DispatchIdleStep ==
    ASSUME LevelInv, NEW c \in Consumer, DispatchIdle(c)
    PROVE  LevelInv'
<1>0. GpioTypeOK'
  BY GpioTypeStep DEF GpioNext, LevelInv
<1>consumer. consumer \in [Consumer -> ConsumerState]
  BY DEF LevelInv, GpioTypeOK
<1>1. PinsOwned'
  BY <1>consumer
     DEF DispatchIdle, LockFree, Moves, LevelInv, PinsOwned, ConsumerState
<1>2. WatchesOwned'
  BY <1>consumer
     DEF DispatchIdle, LockFree, Moves, LevelInv, WatchesOwned, PinsOwned,
         ConsumerState
<1>3. LockInWatch'
  BY <1>consumer
     DEF DispatchIdle, LockFree, Moves, LevelInv, LockInWatch, PinsOwned,
         WatchesOwned, ConsumerState
<1>4. WatchesArmed'
  BY <1>consumer
     DEF DispatchIdle, LockFree, Moves, LevelInv, WatchesArmed, Arming,
         PinsOwned, WatchesOwned, LockInWatch, ConsumerState
<1>5. PendingIsWoken' /\ HandlerHasPin' /\ EdgesOnTheWay'
  BY DEF DispatchIdle, LevelInv, PendingIsWoken, HandlerHasPin, EdgesOnTheWay
<1> QED BY <1>0, <1>1, <1>2, <1>3, <1>4, <1>5 DEF LevelInv

LEMMA StopReturnsStep ==
    ASSUME LevelInv, NEW c \in Consumer, StopReturns(c)
    PROVE  LevelInv'
<1>0. GpioTypeOK'
  BY GpioTypeStep DEF GpioNext, LevelInv
<1>watch. watch \in [Pin -> WatchState]
  BY DEF LevelInv, GpioTypeOK
<1>consumer. consumer \in [Consumer -> ConsumerState]
  BY DEF LevelInv, GpioTypeOK
<1>pin. consumer[c].pin \in Pin /\ consumer[c].at = "stopped"
  BY ConsumersPin DEF StopReturns
<1>points. /\ \A p \in Pin :
                 /\ watch'[p].watching = watch[p].watching
                 /\ watch'[p].handler = watch[p].handler
                 /\ watch'[p].edge = watch[p].edge
                 /\ watch'[p].lastLevel = watch[p].lastLevel
                 /\ watch'[p].pending = watch[p].pending
           /\ \A d \in Consumer : d # c => consumer'[d] = consumer[d]
           /\ \/ /\ consumer'[c].at = "idle"
                 /\ \A p \in Pin : p # consumer[c].pin => watch'[p] = watch[p]
              \/ /\ consumer'[c].at = "holds" /\ consumer'[c].pin = consumer[c].pin
                 /\ watch' = watch
  <2>1. CASE consumer[c].releases
    <3>1. /\ watch' = [watch EXCEPT ![consumer[c].pin].claimed = FALSE]
          /\ consumer' = [consumer EXCEPT ![c].at = "idle", ![c].pin = Nobody]
      BY <2>1 DEF StopReturns
    <3>2. consumer'[c].at = "idle" /\ \A d \in Consumer : d # c => consumer'[d] = consumer[d]
      BY <3>1, <1>consumer DEF ConsumerState
    <3> QED BY <3>1, <3>2, <1>watch DEF WatchState
  <2>2. CASE ~consumer[c].releases
    BY <2>2, <1>consumer DEF StopReturns, Moves, ConsumerState
  <2> QED BY <2>1, <2>2
<1>1. PinsOwned'
  BY <1>pin, <1>points DEF LevelInv, PinsOwned
<1>2. WatchesOwned'
  BY <1>pin, <1>points DEF LevelInv, WatchesOwned
<1>3. LockInWatch'
  BY DEF StopReturns, LockFree, LockInWatch
<1>4. WatchesArmed'
  BY <1>points, NobodyAssumption
     DEF StopReturns, LockFree, LevelInv, WatchesArmed, Arming
<1>5. EdgesOnTheWay'
  BY <1>watch
     DEF StopReturns, LockFree, Moves, LevelInv, EdgesOnTheWay, Arming,
         LockInWatch, WatchesArmed, WatchState
<1>6. PendingIsWoken' /\ HandlerHasPin'
  BY DEF StopReturns, LevelInv, PendingIsWoken, HandlerHasPin
<1> QED BY <1>0, <1>1, <1>2, <1>3, <1>4, <1>5, <1>6 DEF LevelInv

LEMMA InterruptAcknowledgesStep ==
    ASSUME LevelInv, InterruptAcknowledges
    PROVE  LevelInv'
<1>0. GpioTypeOK'
  BY GpioTypeStep DEF GpioNext, LevelInv
<1>irq. irq \in IrqState
  BY DEF LevelInv, GpioTypeOK
<1>1. WatchesArmed'
  BY <1>irq
     DEF InterruptAcknowledges, LevelInv, WatchesArmed, Arming, PinsOwned,
         WatchesOwned, LockInWatch, IrqState
<1>2. PendingIsWoken'
  BY <1>irq DEF InterruptAcknowledges, LevelInv, PendingIsWoken, IrqState
<1>3. EdgesOnTheWay'
  BY <1>irq
     DEF InterruptAcknowledges, LevelInv, EdgesOnTheWay, Arming, LockInWatch,
         WatchesArmed, IrqState
<1>4. PinsOwned' /\ WatchesOwned' /\ LockInWatch' /\ HandlerHasPin'
  BY DEF InterruptAcknowledges, LevelInv, PinsOwned, WatchesOwned,
         LockInWatch, HandlerHasPin
<1> QED BY <1>0, <1>1, <1>2, <1>3, <1>4 DEF LevelInv

LEMMA InterruptQueuesStep ==
    ASSUME LevelInv, InterruptQueues
    PROVE  LevelInv'
<1>0. GpioTypeOK'
  BY GpioTypeStep DEF GpioNext, LevelInv
<1>irq. irq \in IrqState
  BY DEF LevelInv, GpioTypeOK
<1>1. WatchesArmed'
  BY <1>irq
     DEF InterruptQueues, LevelInv, WatchesArmed, Arming, PinsOwned,
         WatchesOwned, LockInWatch, IrqState
<1>2. PendingIsWoken'
  BY <1>irq DEF InterruptQueues, LevelInv, PendingIsWoken, IrqState
<1>3. EdgesOnTheWay'
  BY <1>irq
     DEF InterruptQueues, LevelInv, EdgesOnTheWay, Arming, LockInWatch,
         WatchesArmed, IrqState
<1>4. PinsOwned' /\ WatchesOwned' /\ LockInWatch' /\ HandlerHasPin'
  BY DEF InterruptQueues, LevelInv, PinsOwned, WatchesOwned, LockInWatch,
         HandlerHasPin
<1> QED BY <1>0, <1>1, <1>2, <1>3, <1>4 DEF LevelInv

LEMMA WorkerWakesStep ==
    ASSUME LevelInv, WorkerWakes
    PROVE  LevelInv'
<1>0. GpioTypeOK'
  BY GpioTypeStep DEF GpioNext, LevelInv
<1>irq. irq \in IrqState
  BY DEF LevelInv, GpioTypeOK
<1>bank. bank \in BankState
  BY DEF LevelInv, GpioTypeOK
<1>1. LockInWatch'
  BY <1>bank
     DEF WorkerWakes, LevelInv, LockInWatch, PinsOwned, WatchesOwned,
         BankState
<1>2. WatchesArmed'
  BY <1>irq, <1>bank
     DEF WorkerWakes, LevelInv, WatchesArmed, Arming, PinsOwned, WatchesOwned,
         LockInWatch, IrqState, BankState
<1>3. PendingIsWoken'
  BY <1>irq, <1>bank
     DEF WorkerWakes, LevelInv, PendingIsWoken, IrqState, BankState
<1>4. HandlerHasPin'
  BY <1>bank DEF WorkerWakes, LevelInv, HandlerHasPin, BankState
<1>5. EdgesOnTheWay'
  BY <1>irq
     DEF WorkerWakes, LevelInv, EdgesOnTheWay, Arming, LockInWatch,
         WatchesArmed, IrqState
<1>6. PinsOwned' /\ WatchesOwned'
  BY DEF WorkerWakes, LevelInv, PinsOwned, WatchesOwned
<1> QED BY <1>0, <1>1, <1>2, <1>3, <1>4, <1>5, <1>6 DEF LevelInv

LEMMA CollectPendingStep ==
    ASSUME LevelInv, CollectPending
    PROVE  LevelInv'
<1>0. GpioTypeOK'
  BY GpioTypeStep DEF GpioNext, LevelInv
<1>type. watch \in [Pin -> WatchState]
  BY DEF LevelInv, GpioTypeOK
<1>irq. irq \in IrqState
  BY DEF LevelInv, GpioTypeOK
<1>bank. bank \in BankState
  BY DEF LevelInv, GpioTypeOK
<1>watch. \A p \in Pin :
             /\ watch'[p].claimed = watch[p].claimed
             /\ watch'[p].watching = watch[p].watching
             /\ watch'[p].handler = watch[p].handler
             /\ watch'[p].edge = watch[p].edge
             /\ watch'[p].lastLevel = watch[p].lastLevel
             /\ watch'[p].pending
                  <=> watch[p].pending \/ (p \in irq.pending /\ watch[p].watching)
  <2> SUFFICES ASSUME NEW p \in Pin
               PROVE  /\ watch'[p].claimed = watch[p].claimed
                      /\ watch'[p].watching = watch[p].watching
                      /\ watch'[p].handler = watch[p].handler
                      /\ watch'[p].edge = watch[p].edge
                      /\ watch'[p].lastLevel = watch[p].lastLevel
                      /\ watch'[p].pending
                           <=> watch[p].pending \/ (p \in irq.pending /\ watch[p].watching)
    OBVIOUS
  <2>1. watch[p] \in WatchState
    BY <1>type
  <2>2. watch'[p] = IF p \in irq.pending /\ watch[p].watching
                    THEN [watch[p] EXCEPT !.pending = TRUE, !.due = FALSE] ELSE watch[p]
    BY DEF CollectPending
  <2> QED BY <2>1, <2>2 DEF WatchState
<1>1. PinsOwned' /\ WatchesOwned' /\ LockInWatch' /\ WatchesArmed'
  <2>1. bank'.lock = bank.lock /\ irq'.watched = irq.watched
    BY <1>irq, <1>bank DEF CollectPending, IrqState, BankState
  <2> QED BY <1>watch, <2>1, WorkerFrame DEF CollectPending
<1>2. PendingIsWoken'
  BY <1>irq, <1>bank
     DEF CollectPending, LockFree, LevelInv, PendingIsWoken, IrqState,
         BankState
<1>3. HandlerHasPin'
  BY <1>bank DEF CollectPending, LockFree, LevelInv, HandlerHasPin, BankState
<1>4. EdgesOnTheWay'
  <2>1. irq'.status = irq.status /\ irq'.taken = irq.taken
    BY <1>irq DEF CollectPending, IrqState
  <2> QED BY <1>watch, <2>1 DEF CollectPending, LevelInv, EdgesOnTheWay
<1> QED BY <1>0, <1>1, <1>2, <1>3, <1>4 DEF LevelInv

LEMMA DispatchDueStep ==
    ASSUME LevelInv, DispatchDue
    PROVE  LevelInv'
<1>0. GpioTypeOK'
  BY GpioTypeStep DEF GpioNext, LevelInv
<1>type. watch \in [Pin -> WatchState]
  BY DEF LevelInv, GpioTypeOK
<1>bank. bank \in BankState
  BY DEF LevelInv, GpioTypeOK
<1>watch. \A p \in Pin :
             /\ watch'[p].claimed = watch[p].claimed
             /\ watch'[p].watching = watch[p].watching
             /\ watch'[p].handler = watch[p].handler
             /\ watch'[p].edge = watch[p].edge
             /\ watch'[p] = watch[p] \/ watch'[p].lastLevel = line[p]
  <2>1. CASE Due = {}
    BY <2>1 DEF DispatchDue
  <2>2. CASE Due # {}
    <3>1. PICK q \in Due, more \in {0, 1} :
             watch' = [watch EXCEPT ![q].pending = FALSE, ![q].lastLevel = line[q],
                                    ![q].dispatching = @ + more]
      BY <2>2 DEF DispatchDue
    <3>2. q \in Pin /\ watch[q] \in WatchState
      BY <3>1, <1>type DEF Due
    <3>3. watch'[q] = [watch[q] EXCEPT !.pending = FALSE, !.lastLevel = line[q],
                                       !.dispatching = @ + more]
      BY <3>1, <3>2, <1>type
    <3>4. \A p \in Pin : p # q => watch'[p] = watch[p]
      BY <3>1, <3>2, <1>type
    <3> QED BY <3>2, <3>3, <3>4 DEF WatchState
  <2> QED BY <2>1, <2>2
<1>lock. bank'.lock = bank.lock
  <2>1. \E p \in Pin \cup {Nobody}, n \in Consumer \cup {Nobody} :
           bank' \in {bank, [bank EXCEPT !.at = "wait"],
                      [bank EXCEPT !.at = "handler", !.pin = p, !.context = n]}
    <3>1. CASE Due = {}
      BY <3>1 DEF DispatchDue
    <3>2. CASE Due # {}
      <4>1. PICK p \in Due :
               bank' \in {bank, [bank EXCEPT !.at = "handler", !.pin = p,
                                            !.context = watch[p].handler]}
        BY <3>2 DEF DispatchDue
      <4>2. p \in Pin /\ watch[p].handler \in Consumer \cup {Nobody}
        BY <4>1, <1>type DEF Due, WatchState
      <4> QED BY <4>1, <4>2
    <3> QED BY <3>1, <3>2
  <2> QED BY <1>bank, <2>1 DEF BankState
<1>1. PinsOwned' /\ WatchesOwned' /\ LockInWatch' /\ WatchesArmed'
  BY <1>watch, <1>lock, WorkerFrame DEF DispatchDue
<1>2. PendingIsWoken'
  BY <1>bank
     DEF DispatchDue, LockFree, Due, EdgeMatches, LevelInv, PendingIsWoken,
         BankState
<1>3. HandlerHasPin'
  BY <1>bank
     DEF DispatchDue, LockFree, Due, EdgeMatches, LevelInv, HandlerHasPin,
         BankState
<1>4. EdgesOnTheWay'
  BY <1>watch DEF DispatchDue, LevelInv, EdgesOnTheWay
<1> QED BY <1>0, <1>1, <1>2, <1>3, <1>4 DEF LevelInv

LEMMA HandlerStepsStep ==
    ASSUME LevelInv, HandlerSteps
    PROVE  LevelInv'
<1>0. GpioTypeOK'
  BY GpioTypeStep DEF GpioNext, LevelInv
<1>type. watch \in [Pin -> WatchState]
  BY DEF LevelInv, GpioTypeOK
<1>pin. bank.pin \in Pin /\ bank.lock = Nobody
  BY DEF HandlerSteps, LockFree, LevelInv, HandlerHasPin
<1>same. UNCHANGED <<line, consumer>>
  BY DEF HandlerSteps
<1>1. CASE Unwatched(bank.pin) /\ UNCHANGED bank
  <2>points. /\ ~watch'[bank.pin].watching /\ watch'[bank.pin].claimed = watch[bank.pin].claimed
             /\ \A q \in Pin : q # bank.pin =>
                   /\ watch'[q] = watch[q] /\ pads'[q] = pads[q]
                   /\ q \in irq'.watched <=> q \in irq.watched
                   /\ q \in irq'.status <=> q \in irq.status
             /\ irq'.pending = irq.pending /\ irq'.sem = irq.sem /\ irq'.taken = irq.taken
    BY <1>1, <1>pin, UnwatchedPoints DEF LevelInv
  <2>1. PinsOwned'
    <3>1. \A p \in Pin : watch'[p].claimed = watch[p].claimed
      BY <2>points
    <3> QED BY <1>same, <3>1 DEF LevelInv, PinsOwned
  <2>2. WatchesOwned'
    BY <1>same, <2>points DEF LevelInv, WatchesOwned
  <2>3. LockInWatch'
    BY <1>1, <1>pin DEF LockInWatch
  <2>4. WatchesArmed'
    BY <1>1, <1>pin, <2>points DEF LevelInv, WatchesArmed, Arming
  <2>5. PendingIsWoken' /\ HandlerHasPin'
    BY <1>1, <2>points DEF LevelInv, PendingIsWoken, HandlerHasPin
  <2>6. EdgesOnTheWay'
    BY <1>same, <2>points DEF LevelInv, EdgesOnTheWay
  <2> QED BY <1>0, <2>1, <2>2, <2>3, <2>4, <2>5, <2>6 DEF LevelInv
<1>2. CASE ~(Unwatched(bank.pin) /\ UNCHANGED bank)
  <2>step. /\ watch' = [watch EXCEPT ![bank.pin].dispatching = @ - 1]
           /\ bank' = [bank EXCEPT !.at = "dispatch", !.pin = Nobody, !.context = Nobody]
           /\ UNCHANGED <<pads, irq>>
    BY <1>2 DEF HandlerSteps
  <2>watch. \A p \in Pin :
               /\ watch'[p].claimed = watch[p].claimed
               /\ watch'[p].watching = watch[p].watching
               /\ watch'[p].handler = watch[p].handler
               /\ watch'[p].edge = watch[p].edge
               /\ watch'[p].lastLevel = watch[p].lastLevel
               /\ watch'[p].pending = watch[p].pending
    BY <1>type, <1>pin, <2>step DEF WatchState
  <2>bank. bank \in BankState /\ bank.at = "handler" /\ irq \in IrqState
    BY DEF LevelInv, GpioTypeOK, HandlerSteps
  <2>lock. bank'.lock = bank.lock /\ bank'.at = "dispatch"
    BY <2>bank, <2>step DEF BankState
  <2>1. PinsOwned' /\ WatchesOwned' /\ LockInWatch' /\ WatchesArmed'
    BY <1>same, <2>step, <2>watch, <2>lock, WorkerFrame
  <2>2. PendingIsWoken' /\ HandlerHasPin'
    BY <2>bank, <2>step, <2>lock DEF LevelInv, PendingIsWoken, HandlerHasPin
  <2>3. EdgesOnTheWay'
    BY <1>same, <2>step, <2>watch DEF LevelInv, EdgesOnTheWay
  <2> QED BY <1>0, <2>1, <2>2, <2>3 DEF LevelInv
<1> QED BY <1>1, <1>2

-----------------------------------------------------------------------------
\* The types, for every pin and consumer, whatever a handler does
LEMMA LevelInvStep == LevelInv /\ [GpioNext]_gpioVars => LevelInv'
<1> SUFFICES ASSUME LevelInv, [GpioNext]_gpioVars
             PROVE  LevelInv'
  OBVIOUS
<1>1. ASSUME NEW p \in Pin, LineMoves(p) \/ DebounceEnds(p)
      PROVE  LevelInv'
  BY <1>1, LineMovesStep, DebounceEndsStep
<1>2. ASSUME NEW c \in Consumer, NEW p \in Pin, AcquireAcpi(c, p)
      PROVE  LevelInv'
  BY <1>2, AcquireAcpiStep
<1>3. ASSUME NEW c \in Consumer,
             \/ ConfigureInput(c) \/ ConfigureOutput(c)
             \/ WatchRefused(c) \/ WatchReads(c) \/ WatchArms(c)
             \/ StopWatching(c) \/ DispatchIdle(c) \/ StopReturns(c)
      PROVE  LevelInv'
  BY <1>3, ConfigureInputStep, ConfigureOutputStep, WatchRefusedStep, WatchReadsStep,
     WatchArmsStep, StopWatchingStep, DispatchIdleStep, StopReturnsStep
<1>4. CASE InterruptAcknowledges \/ InterruptQueues
  BY <1>4, InterruptAcknowledgesStep, InterruptQueuesStep
<1>5. CASE WorkerWakes \/ CollectPending \/ DispatchDue \/ HandlerSteps
  BY <1>5, WorkerWakesStep, CollectPendingStep, DispatchDueStep, HandlerStepsStep
<1>6. CASE UNCHANGED gpioVars
  BY <1>6 DEF gpioVars, LevelInv, GpioTypeOK, PinsOwned, WatchesOwned, LockInWatch,
              WatchesArmed, Arming, PendingIsWoken, HandlerHasPin, EdgesOnTheWay
<1> QED BY <1>1, <1>2, <1>3, <1>4, <1>5, <1>6 DEF GpioNext

THEOREM GpioTypeCorrect == GpioSpec => []GpioTypeOK
<1>1. GpioInit => LevelInv
  BY GpioInitInv
<1>2. LevelInv => GpioTypeOK
  BY DEF LevelInv
<1> QED BY <1>1, <1>2, LevelInvStep, PTL DEF GpioSpec

\* No edge is lost between the pad and the handler
THEOREM LevelFollowedCorrect == GpioSpec => []LevelFollowed
<1>1. GpioInit => LevelInv
  BY GpioInitInv
<1>2. LevelInv => LevelFollowed
  <2> SUFFICES ASSUME LevelInv, GpioAtRest, LockFree,
                      NEW p \in Pin, watch[p].watching, watch[p].edge = "both"
               PROVE  watch[p].lastLevel = line[p] \/ pads[p].missed
    BY DEF LevelFollowed
  <2>1. p \in irq.watched
    BY DEF LevelInv, WatchesArmed, Arming, LockFree
  <2>2. p \notin irq.status /\ p \notin irq.taken /\ ~watch[p].pending
    BY <2>1 DEF GpioAtRest
  <2>3. irq.pending = {}
    BY DEF GpioAtRest, LevelInv, PendingIsWoken
  <2> QED BY <2>2, <2>3 DEF LevelInv, EdgesOnTheWay
<1> QED BY <1>1, <1>2, LevelInvStep, PTL DEF GpioSpec

-----------------------------------------------------------------------------
\* A step that leaves the handler, its count and its consumer's watch alone
LEMMA HandlerFrame ==
    ASSUME HandlerCounted,
           bank'.at = bank.at, bank'.pin = bank.pin, bank'.context = bank.context,
           \A p \in Pin : watch'[p].dispatching = watch[p].dispatching,
           bank.at = "handler" =>
              /\ bank.pin \in Pin /\ consumer'[bank.context].pin = bank.pin
              /\ consumer'[bank.context].at \in {"holds", "watch", "drain"}
              /\ consumer'[bank.context].at # "drain" => watch'[bank.pin].watching
    PROVE  HandlerCounted'
BY DEF HandlerCounted

\* A handler that leaves its pin alone is counted
LEMMA HandlerCountedStep ==
    ASSUME CallbackMay = {}, LevelInv, HandlerCounted, GpioNext
    PROVE  HandlerCounted'
<1>watch. watch \in [Pin -> WatchState]
  BY DEF LevelInv, GpioTypeOK
<1>bank. bank \in BankState
  BY DEF LevelInv, GpioTypeOK
<1>consumer. consumer \in [Consumer -> ConsumerState]
  BY DEF LevelInv, GpioTypeOK
<1>0. bank.at = "handler" =>
         /\ bank.pin \in Pin /\ bank.context \in Consumer
         /\ consumer[bank.context].pin = bank.pin
         /\ consumer[bank.context].at \in {"holds", "watch", "drain"}
         /\ consumer[bank.context].at # "drain" => watch[bank.pin].watching
         /\ watch[bank.pin].dispatching > 0
  BY DEF HandlerCounted, LevelInv, HandlerHasPin
<1>1. ASSUME NEW p \in Pin, LineMoves(p)
      PROVE  HandlerCounted'
  BY <1>0, <1>1, HandlerFrame DEF LineMoves
<1>2. ASSUME NEW p \in Pin, DebounceEnds(p)
      PROVE  HandlerCounted'
  <2>1. \A q \in Pin : /\ watch'[q].dispatching = watch[q].dispatching
                       /\ watch'[q].watching = watch[q].watching
    BY <1>2, <1>watch DEF DebounceEnds, WatchState
  <2> QED BY <1>0, <1>2, <2>1, HandlerFrame DEF DebounceEnds
<1>3. ASSUME NEW c \in Consumer, NEW p \in Pin, AcquireAcpi(c, p)
      PROVE  HandlerCounted'
  <2>1. \A q \in Pin : /\ watch'[q].dispatching = watch[q].dispatching
                       /\ watch'[q].watching = watch[q].watching
    BY <1>3, <1>watch DEF AcquireAcpi, WatchState
  <2>2. consumer[c].at = "idle" /\ \A d \in Consumer : d # c => consumer'[d] = consumer[d]
    BY <1>3, <1>consumer DEF AcquireAcpi
  <2> QED BY <1>0, <1>3, <2>1, <2>2, HandlerFrame DEF AcquireAcpi
<1>4. ASSUME NEW c \in Consumer, ConfigureInput(c)
      PROVE  HandlerCounted'
  <2>1. consumer[c].at = "holds"
    BY <1>4 DEF ConfigureInput
  <2>2. /\ \A d \in Consumer : d # c => consumer'[d] = consumer[d]
        /\ consumer'[c].pin = consumer[c].pin /\ consumer'[c].at \in {"holds", "watch"}
    BY <1>4, <1>consumer DEF ConfigureInput, Moves, ConsumerState
  <2> QED BY <1>0, <1>4, <2>1, <2>2, HandlerFrame DEF ConfigureInput
<1>5. ASSUME NEW c \in Consumer, ConfigureOutput(c)
      PROVE  HandlerCounted'
  BY <1>0, <1>5, HandlerFrame DEF ConfigureOutput
<1>6. ASSUME NEW c \in Consumer, WatchRefused(c)
      PROVE  HandlerCounted'
  <2>1. consumer[c].at = "watch"
    BY <1>6 DEF WatchRefused
  <2>2. /\ \A d \in Consumer : d # c => consumer'[d] = consumer[d]
        /\ consumer'[c].pin = consumer[c].pin /\ consumer'[c].at \in {"holds", "watch"}
    BY <1>6, <1>consumer DEF WatchRefused, Moves, ConsumerState
  <2> QED BY <1>0, <1>6, <2>1, <2>2, HandlerFrame DEF WatchRefused
<1>7. ASSUME NEW c \in Consumer, WatchReads(c)
      PROVE  HandlerCounted'
  <2>1. consumer[c].pin \in Pin
    BY <1>7, ConsumersPin DEF WatchReads
  <2>2. PICK e \in Edge :
           watch' = [watch EXCEPT ![consumer[c].pin].lastLevel = line[consumer[c].pin],
                                  ![consumer[c].pin].edge = e,
                                  ![consumer[c].pin].pending = FALSE,
                                  ![consumer[c].pin].watching = TRUE,
                                  ![consumer[c].pin].handler = c]
    BY <1>7 DEF WatchReads
  <2>3. watch'[consumer[c].pin] =
           [watch[consumer[c].pin] EXCEPT !.lastLevel = line[consumer[c].pin], !.edge = e,
              !.pending = FALSE, !.watching = TRUE, !.handler = c]
    BY <2>1, <2>2, <1>watch
  <2>4. watch[consumer[c].pin] \in WatchState
    BY <2>1, <1>watch
  <2>5. \A q \in Pin : q # consumer[c].pin => watch'[q] = watch[q]
    BY <2>2, <1>watch
  <2>6. \A q \in Pin : /\ watch'[q].dispatching = watch[q].dispatching
                       /\ watch[q].watching => watch'[q].watching
    BY <2>3, <2>4, <2>5 DEF WatchState
  <2>7. bank'.at = bank.at /\ bank'.pin = bank.pin /\ bank'.context = bank.context
    BY <1>7, <1>bank DEF WatchReads, BankState
  <2> QED BY <1>0, <1>7, <2>6, <2>7, HandlerFrame DEF WatchReads
<1>8. ASSUME NEW c \in Consumer, WatchArms(c)
      PROVE  HandlerCounted'
  <2>1. consumer[c].at = "watch"
    BY <1>8, NobodyAssumption DEF WatchArms, LevelInv, LockInWatch
  <2>2. /\ \A d \in Consumer : d # c => consumer'[d] = consumer[d]
        /\ consumer'[c].pin = consumer[c].pin /\ consumer'[c].at \in {"holds", "watch"}
    BY <1>8, <1>consumer DEF WatchArms, Moves, ConsumerState
  <2>3. bank'.at = bank.at /\ bank'.pin = bank.pin /\ bank'.context = bank.context
    BY <1>8, <1>bank DEF WatchArms, BankState
  <2> QED BY <1>0, <1>8, <2>1, <2>2, <2>3, HandlerFrame DEF WatchArms
<1>9. ASSUME NEW c \in Consumer, StopWatching(c)
      PROVE  HandlerCounted'
  <2>1. consumer[c].pin \in Pin /\ consumer[c].at = "holds"
    BY <1>9, ConsumersPin DEF StopWatching
  <2>2. /\ \A q \in Pin : q # consumer[c].pin => watch'[q] = watch[q]
        /\ watch'[consumer[c].pin].dispatching = watch[consumer[c].pin].dispatching
    BY <1>9, <2>1, UnwatchedPoints DEF StopWatching, LevelInv
  <2>3. /\ \A d \in Consumer : d # c => consumer'[d] = consumer[d]
        /\ consumer'[c].pin = consumer[c].pin
        /\ watch[consumer[c].pin].watching => consumer'[c].at = "drain"
    BY <1>9, <1>consumer DEF StopWatching, ConsumerState
  <2>4. bank.at = "handler" /\ bank.context # c => bank.pin # consumer[c].pin
    BY <1>0, <2>1 DEF LevelInv, PinsOwned
  <2> QED BY <1>0, <1>9, <2>1, <2>2, <2>3, <2>4, HandlerFrame DEF StopWatching
<1>10. ASSUME NEW c \in Consumer, DispatchIdle(c)
       PROVE  HandlerCounted'
  <2>1. bank.at = "handler" => bank.context # c
    BY <1>0, <1>10 DEF DispatchIdle
  <2>2. \A d \in Consumer : d # c => consumer'[d] = consumer[d]
    BY <1>10, <1>consumer DEF DispatchIdle, Moves
  <2> QED BY <1>0, <1>10, <2>1, <2>2, HandlerFrame DEF DispatchIdle
<1>11. ASSUME NEW c \in Consumer, StopReturns(c)
       PROVE  HandlerCounted'
  <2>1. consumer[c].pin \in Pin /\ consumer[c].at = "stopped"
    BY <1>11, ConsumersPin DEF StopReturns
  <2>2. \A d \in Consumer : d # c => consumer'[d] = consumer[d]
    BY <1>11, <1>consumer DEF StopReturns, Moves
  <2>3. \A q \in Pin : /\ watch'[q].dispatching = watch[q].dispatching
                       /\ watch'[q].watching = watch[q].watching
    BY <1>11, <2>1, <1>watch DEF StopReturns, WatchState
  <2> QED BY <1>0, <1>11, <2>1, <2>2, <2>3, HandlerFrame DEF StopReturns
<1>12. ASSUME InterruptAcknowledges \/ InterruptQueues
       PROVE  HandlerCounted'
  BY <1>0, <1>12, HandlerFrame DEF InterruptAcknowledges, InterruptQueues
<1>13. ASSUME WorkerWakes
       PROVE  HandlerCounted'
  BY <1>13, <1>bank DEF WorkerWakes, HandlerCounted, BankState
<1>14. ASSUME CollectPending
       PROVE  HandlerCounted'
  <2>1. \A q \in Pin : watch'[q].dispatching = watch[q].dispatching
    <3> TAKE q \in Pin
    <3>1. watch[q] \in WatchState
      BY <1>watch
    <3> QED BY <1>14, <3>1 DEF CollectPending, WatchState
  <2>2. bank'.at # "handler"
    BY <1>14, <1>bank DEF CollectPending, BankState
  <2> QED BY <2>1, <2>2 DEF HandlerCounted
<1>15. ASSUME DispatchDue
       PROVE  HandlerCounted'
  <2>1. CASE Due = {}
    BY <1>15, <2>1, <1>bank DEF DispatchDue, HandlerCounted, BankState
  <2>2. CASE Due # {}
    <3>1. PICK p \in Due :
             LET matches == EdgeMatches(watch[p].edge, watch[p].lastLevel, line[p])
             IN  /\ watch' = [watch EXCEPT ![p].pending = FALSE, ![p].lastLevel = line[p],
                                ![p].dispatching = @ + (IF matches THEN 1 ELSE 0)]
                 /\ bank' = IF matches
                            THEN [bank EXCEPT !.at = "handler", !.pin = p,
                                              !.context = watch[p].handler]
                            ELSE bank
      BY <1>15, <2>2 DEF DispatchDue
    <3> DEFINE more == IF EdgeMatches(watch[p].edge, watch[p].lastLevel, line[p])
                       THEN 1 ELSE 0
    <3>2. p \in Pin /\ watch[p] \in WatchState /\ watch[p].watching
      BY <1>watch DEF Due
    <3>3. watch'[p] = [watch[p] EXCEPT !.pending = FALSE, !.lastLevel = line[p],
                                       !.dispatching = @ + more]
      BY <3>1, <3>2, <1>watch
    <3>4. \A q \in Pin : q # p => watch'[q] = watch[q]
      BY <3>1, <1>watch
    <3>5. /\ watch'[p].dispatching = watch[p].dispatching + more
          /\ watch'[p].watching
      BY <3>2, <3>3 DEF WatchState
    <3>6. watch[p].dispatching \in Int /\ watch[p].dispatching >= 0
      BY <3>2 DEF HandlerCounted, WatchState
    <3>7. bank.at = "dispatch" /\ UNCHANGED consumer
      BY <1>15 DEF DispatchDue
    <3>8. CASE EdgeMatches(watch[p].edge, watch[p].lastLevel, line[p])
      <4>1. bank'.pin = p /\ bank'.context = watch[p].handler
        BY <3>1, <3>8, <1>bank DEF BankState
      <4>2. /\ watch[p].handler \in Consumer /\ consumer[watch[p].handler].pin = p
            /\ consumer[watch[p].handler].at \in {"holds", "watch"}
        BY <3>2 DEF LevelInv, WatchesOwned
      <4>3. watch'[p].dispatching > 0
        BY <3>5, <3>6, <3>8
      <4>4. \A q \in Pin : watch'[q].dispatching >= 0
        BY <3>4, <3>5, <3>6 DEF HandlerCounted
      <4> QED BY <3>5, <3>7, <4>1, <4>2, <4>3, <4>4 DEF HandlerCounted
    <3>9. CASE ~EdgeMatches(watch[p].edge, watch[p].lastLevel, line[p])
      <4>1. bank' = bank
        BY <3>1, <3>9
      <4>2. \A q \in Pin : watch'[q].dispatching >= 0
        BY <3>4, <3>5, <3>6, <3>9 DEF HandlerCounted
      <4> QED BY <3>7, <4>1, <4>2 DEF HandlerCounted
    <3> QED BY <3>8, <3>9
  <2> QED BY <2>1, <2>2
<1>16. ASSUME HandlerSteps
       PROVE  HandlerCounted'
  <2>1. /\ watch' = [watch EXCEPT ![bank.pin].dispatching = @ - 1]
        /\ bank' = [bank EXCEPT !.at = "dispatch", !.pin = Nobody, !.context = Nobody]
    BY <1>16 DEF HandlerSteps
  <2>2. bank'.at = "dispatch" /\ bank.at = "handler" /\ bank.pin \in Pin
    BY <1>0, <1>16, <2>1, <1>bank DEF HandlerSteps, BankState
  <2>3. watch[bank.pin].dispatching \in Int /\ watch[bank.pin].dispatching > 0
    BY <1>0, <2>2, <1>watch DEF WatchState
  <2>4. watch'[bank.pin].dispatching = watch[bank.pin].dispatching - 1
    BY <2>1, <2>2, <1>watch DEF WatchState
  <2>5. \A q \in Pin : q # bank.pin => watch'[q] = watch[q]
    BY <2>1, <1>watch
  <2>6. \A q \in Pin : watch'[q].dispatching >= 0
    BY <2>3, <2>4, <2>5 DEF HandlerCounted
  <2> QED BY <2>2, <2>6 DEF HandlerCounted
<1> QED BY <1>1, <1>2, <1>3, <1>4, <1>5, <1>6, <1>7, <1>8, <1>9, <1>10, <1>11, <1>12,
           <1>13, <1>14, <1>15, <1>16 DEF GpioNext

\* When handlers leave their own pin alone, none of them runs after StopWatching
\* has returned
THEOREM StoppedIsQuietCorrect ==
    ASSUME CallbackMay = {}
    PROVE  GpioSpec => []StoppedIsQuiet
<1> DEFINE Inv == LevelInv /\ HandlerCounted
<1>1. GpioInit => Inv
  BY GpioInitInv
<1>2. Inv /\ [GpioNext]_gpioVars => Inv'
  <2>1. ASSUME Inv, UNCHANGED gpioVars
        PROVE  HandlerCounted'
    BY <2>1 DEF gpioVars, HandlerCounted
  <2> QED BY <2>1, LevelInvStep, HandlerCountedStep
<1>3. Inv => StoppedIsQuiet
  BY DEF HandlerCounted, StoppedIsQuiet
<1> QED BY <1>1, <1>2, <1>3, PTL DEF GpioSpec

----------------------------------------------------------------------------
(* The keyboard.                                                           *)

Byte == [byte : 0 .. 255, scan : BOOLEAN]
KeyEvent == [key : 0 .. 255, down : BOOLEAN]
EcState == [held : SUBSET Key, buffer : Seq(Byte), owed : Int, scanning : BOOLEAN,
            armed : BOOLEAN, wasReset : BOOLEAN]
DecoderState == [extended : 0 .. 2, release : BOOLEAN, collision : SUBSET Collisions,
                 decoding : BOOLEAN, reinit : BOOLEAN]
SlotState == [mode : BOOLEAN, tokens : Int, byte : 0 .. 255]
KeysState == [ring : Seq(KeyEvent), down : SUBSET (0 .. 255), lost : BOOLEAN]
OpensState == [count : Int, reader : SUBSET Opener]
OpenerState == [at : {"closed", "bring", "arm", "open", "stop", "down"},
                read : {"no", "top", "ring", "doze", "asleep", "reinit", "rearm"},
                command : {"no", "first", "second", "ack1", "ack2"}, tries : Int]

\* What the variables hold
KeyboardTypes ==
    /\ ec \in EcState
    /\ decoder \in DecoderState
    /\ slot \in SlotState
    /\ keys \in KeysState
    /\ opens \in OpensState
    /\ user \in [Opener -> OpenerState]

LEMMA CodeOfByte ==
    ASSUME NEW b \in 0 .. 255
    PROVE  /\ b % 128 \in 0 .. 127
           /\ b < 128 => b % 128 = b
           /\ b >= 128 => b % 128 = b - 128
OBVIOUS

LEMMA KeyboardInitTypes ==
    ASSUME KeyboardInit
    PROVE  KeyboardTypes
<1>1. ec \in EcState /\ decoder \in DecoderState /\ slot \in SlotState
  BY DEF KeyboardInit, EcState, DecoderState, SlotState, ResetDecoder
<1>2. keys \in KeysState /\ opens \in OpensState /\ user \in [Opener -> OpenerState]
  BY DEF KeyboardInit, KeysState, OpensState, OpenerState
<1> QED BY <1>1, <1>2 DEF KeyboardTypes

\* The bytes of a key
LEMMA ScanCodeBytes ==
    ASSUME NEW key \in 1 .. 255, NEW down \in BOOLEAN
    PROVE  /\ ScanCode(key, down) \in Seq(Byte)
           /\ key < 128 => ScanCode(key, down) =
                 <<[byte |-> IF down THEN key ELSE key + 128, scan |-> TRUE]>>
           /\ key >= 128 => ScanCode(key, down) =
                 <<[byte |-> PrefixE0, scan |-> TRUE],
                   [byte |-> IF down THEN key - 128 ELSE key, scan |-> TRUE]>>
<1>1. PICK code : code = key % 128
  OBVIOUS
<1>2. /\ key < 128 => code = key
      /\ key >= 128 => code = key - 128
  BY <1>1, CodeOfByte
<1>3. PICK sent : sent = code + (IF down THEN 0 ELSE 128)
  OBVIOUS
<1>4. /\ key < 128 => sent = IF down THEN key ELSE key + 128
      /\ key >= 128 => sent = IF down THEN key - 128 ELSE key
  BY <1>2, <1>3
<1>5. ScanCode(key, down) = IF key >= 128 THEN <<ScanByte(PrefixE0), ScanByte(sent)>>
                                          ELSE <<ScanByte(sent)>>
  BY <1>1, <1>3 DEF ScanCode
<1>6. sent \in 0 .. 255
  BY <1>4
<1>7. ScanByte(PrefixE0) \in Byte /\ ScanByte(sent) \in Byte
  BY <1>6 DEF ScanByte, Byte, PrefixE0
<1>8. ScanCode(key, down) \in Seq(Byte)
  BY <1>5, <1>7
<1>9. ASSUME key < 128
      PROVE  ScanCode(key, down) =
                <<[byte |-> IF down THEN key ELSE key + 128, scan |-> TRUE]>>
  <2>1. ScanCode(key, down) = <<ScanByte(sent)>>
    BY <1>5, <1>9
  <2>2. sent = IF down THEN key ELSE key + 128
    BY <1>4, <1>9
  <2> QED BY <2>1, <2>2 DEF ScanByte
<1>10. ASSUME key >= 128
       PROVE  ScanCode(key, down) =
                 <<[byte |-> PrefixE0, scan |-> TRUE],
                   [byte |-> IF down THEN key - 128 ELSE key, scan |-> TRUE]>>
  <2>1. ScanCode(key, down) = <<ScanByte(PrefixE0), ScanByte(sent)>>
    BY <1>5, <1>10
  <2>2. sent = IF down THEN key - 128 ELSE key
    BY <1>4, <1>10
  <2> QED BY <2>1, <2>2 DEF ScanByte
<1> QED BY <1>8, <1>9, <1>10

LEMMA UserChanges ==
    ASSUME NEW u \in [Opener -> OpenerState], NEW c \in Opener
    PROVE  /\ \A at \in {"closed", "bring", "arm", "open", "stop", "down"} :
                 [u EXCEPT ![c].at = at] \in [Opener -> OpenerState]
           /\ \A read \in {"no", "top", "ring", "doze", "asleep", "reinit", "rearm"} :
                 [u EXCEPT ![c].read = read] \in [Opener -> OpenerState]
           /\ \A command \in {"no", "first", "second", "ack1", "ack2"}, tries \in Int :
                 [u EXCEPT ![c].command = command, ![c].tries = tries] \in [Opener -> OpenerState]
           /\ \A command \in {"no", "first", "second", "ack1", "ack2"} :
                 [u EXCEPT ![c].command = command] \in [Opener -> OpenerState]
BY DEF OpenerState

LEMMA DecoderChanges ==
    ASSUME NEW d \in DecoderState
    PROVE  /\ \A e \in 0 .. 2 : [d EXCEPT !.extended = e, !.release = FALSE] \in DecoderState
           /\ [d EXCEPT !.extended = 0, !.release = FALSE] \in DecoderState
           /\ \A c \in SUBSET Collisions :
                 [d EXCEPT !.extended = 0, !.release = FALSE, !.collision = c] \in DecoderState
           /\ \A r \in BOOLEAN : [d EXCEPT !.release = r] \in DecoderState
           /\ \A r \in BOOLEAN : [d EXCEPT !.decoding = r] \in DecoderState
           /\ \A r \in BOOLEAN : [d EXCEPT !.reinit = r] \in DecoderState
           /\ \A r, q \in BOOLEAN : [d EXCEPT !.decoding = r, !.reinit = q] \in DecoderState
<1>1. \A e \in 0 .. 2 : [d EXCEPT !.extended = e, !.release = FALSE] \in DecoderState
  BY DEF DecoderState
<1>2. [d EXCEPT !.extended = 0, !.release = FALSE] \in DecoderState
  <2>1. PICK e \in 0 .. 2 : e = 0
    OBVIOUS
  <2> QED BY <1>1, <2>1
<1>3. \A c \in SUBSET Collisions :
         [d EXCEPT !.extended = 0, !.release = FALSE, !.collision = c] \in DecoderState
  <2>1. \A e \in 0 .. 2, r \in BOOLEAN, c \in SUBSET Collisions :
           [d EXCEPT !.extended = e, !.release = r, !.collision = c] \in DecoderState
    BY DEF DecoderState
  <2>2. PICK e \in 0 .. 2 : e = 0
    OBVIOUS
  <2>3. PICK r \in BOOLEAN : r = FALSE
    OBVIOUS
  <2> QED BY <2>1, <2>2, <2>3
<1>4. \A r \in BOOLEAN : [d EXCEPT !.release = r] \in DecoderState
  BY DEF DecoderState
<1>5. \A r \in BOOLEAN : [d EXCEPT !.decoding = r] \in DecoderState
  BY DEF DecoderState
<1>6. \A r, q \in BOOLEAN : [d EXCEPT !.decoding = r, !.reinit = q] \in DecoderState
  BY DEF DecoderState
<1>7. \A r \in BOOLEAN : [d EXCEPT !.reinit = r] \in DecoderState
  BY DEF DecoderState
<1> QED BY <1>1, <1>2, <1>3, <1>4, <1>5, <1>6, <1>7

LEMMA NotifyOneTypes ==
    ASSUME KeyboardTypes, NotifyOne
    PROVE  user' \in [Opener -> OpenerState]
<1>1. CASE Sleepers = {}
  BY <1>1 DEF NotifyOne, KeyboardTypes
<1>2. CASE Sleepers # {}
  <2>1. PICK c \in Sleepers : user' = [user EXCEPT ![c].read = "ring"]
    BY <1>2 DEF NotifyOne
  <2> QED BY <2>1, UserChanges DEF Sleepers, KeyboardTypes
<1> QED BY <1>1, <1>2

LEMMA EnqueueKeyTypes ==
    ASSUME KeyboardTypes, NEW k \in 0 .. 255, NEW down \in BOOLEAN, EnqueueKey(k, down)
    PROVE  keys' \in KeysState /\ user' \in [Opener -> OpenerState]
<1>1. CASE Len(keys.ring) < KeyRingSize
  <2>1. [key |-> k, down |-> down] \in KeyEvent
    BY DEF KeyEvent
  <2>2. keys' = [keys EXCEPT !.ring = Append(keys.ring, [key |-> k, down |-> down])] /\ NotifyOne
    BY <1>1 DEF EnqueueKey
  <2>3. Append(keys.ring, [key |-> k, down |-> down]) \in Seq(KeyEvent)
    BY <2>1 DEF KeyboardTypes, KeysState
  <2>4. keys' \in KeysState
    BY <2>2, <2>3 DEF KeyboardTypes, KeysState
  <2> QED BY <2>2, <2>4, NotifyOneTypes
<1>2. CASE ~(Len(keys.ring) < KeyRingSize)
  <2>1. keys' = [keys EXCEPT !.lost = TRUE] /\ UNCHANGED user
    BY <1>2 DEF EnqueueKey
  <2> QED BY <2>1 DEF KeyboardTypes, KeysState
<1> QED BY <1>1, <1>2

LEMMA DecodeByteTypes ==
    ASSUME KeyboardTypes, NEW b \in 0 .. 255, DecodeByte(b)
    PROVE  /\ decoder' \in DecoderState
           /\ keys' \in KeysState
           /\ user' \in [Opener -> OpenerState]
<1> DEFINE code == b % 128
           collides == decoder.extended = 0 /\ code \in Collisions
           stray == collides /\ b >= 128 /\ code \notin decoder.collision
           key == IF decoder.extended = 1 THEN code + 128 ELSE code
           done == [decoder EXCEPT
                      !.extended = 0, !.release = FALSE,
                      !.collision = IF ~collides THEN @
                                    ELSE IF b >= 128 THEN @ \ {code} ELSE @ \cup {code}]
<1>0. decoder \in DecoderState /\ keys \in KeysState /\ user \in [Opener -> OpenerState]
  BY DEF KeyboardTypes
<1>1. code \in 0 .. 127 /\ key \in 0 .. 255
  BY CodeOfByte
<1>2. done \in DecoderState
  <2>1. PICK c : c = IF ~collides THEN decoder.collision
                    ELSE IF b >= 128 THEN decoder.collision \ {code}
                         ELSE decoder.collision \cup {code}
    OBVIOUS
  <2>2. c \in SUBSET Collisions
    BY <1>0, <2>1 DEF DecoderState
  <2>3. done = [decoder EXCEPT !.extended = 0, !.release = FALSE, !.collision = c]
    BY <2>1, Zenon
  <2> HIDE DEF done
  <2> QED BY <1>0, <2>2, <2>3, DecoderChanges
<1>3. CASE b \in {PrefixE0, PrefixE1}
  <2>1. decoder' = [decoder EXCEPT !.extended = IF b = PrefixE0 THEN 1 ELSE 2,
                                   !.release = FALSE] /\ Ignored
    BY <1>3 DEF DecodeByte
  <2>2. PICK e \in 0 .. 2 : e = IF b = PrefixE0 THEN 1 ELSE 2
    OBVIOUS
  <2>3. decoder' \in DecoderState
    BY <1>0, <2>1, <2>2, DecoderChanges
  <2> QED BY <1>0, <2>1, <2>3 DEF Ignored
<1>4. CASE b \notin {PrefixE0, PrefixE1} /\ decoder.extended = 2
  <2>1. decoder' = [decoder EXCEPT !.extended = 0, !.release = FALSE] /\ Ignored
    BY <1>4 DEF DecodeByte
  <2>2. decoder' \in DecoderState
    BY <1>0, <2>1, DecoderChanges
  <2> QED BY <1>0, <2>1, <2>2 DEF Ignored
<1>5. CASE b \notin {PrefixE0, PrefixE1} /\ decoder.extended # 2
  <2>1. \/ UNCHANGED decoder /\ Ignored
        \/ /\ decoder' = [done EXCEPT !.decoding = FALSE, !.reinit = TRUE]
           /\ NotifyOne /\ UNCHANGED keys
        \/ decoder' = [decoder EXCEPT !.release = TRUE] /\ Ignored
        \/ decoder' = done /\ Ignored
        \/ decoder' = done /\ EnqueueKey(key, ~(b >= 128 \/ decoder.release))
    BY <1>5 DEF DecodeByte
  <2> HIDE DEF key, done
  <2>2. CASE UNCHANGED decoder /\ Ignored
    BY <1>0, <2>2 DEF Ignored
  <2>3. CASE /\ decoder' = [done EXCEPT !.decoding = FALSE, !.reinit = TRUE]
             /\ NotifyOne /\ UNCHANGED keys
    <3>1. decoder' \in DecoderState
      BY <1>2, <2>3 DEF DecoderState
    <3> QED BY <1>0, <2>3, <3>1, NotifyOneTypes
  <2>4. CASE decoder' = [decoder EXCEPT !.release = TRUE] /\ Ignored
    BY <1>0, <2>4 DEF Ignored, DecoderState
  <2>5. CASE decoder' = done /\ Ignored
    BY <1>0, <1>2, <2>5 DEF Ignored
  <2>6. CASE decoder' = done /\ EnqueueKey(key, ~(b >= 128 \/ decoder.release))
    <3>1. PICK d \in BOOLEAN : d = ~(b >= 128 \/ decoder.release)
      BY Zenon
    <3> QED BY <1>1, <1>2, <2>6, <3>1, EnqueueKeyTypes
  <2> QED BY <2>1, <2>2, <2>3, <2>4, <2>5, <2>6
<1> QED BY <1>3, <1>4, <1>5

\* The EC, by what its record becomes
LEMMA EcChanges ==
    ASSUME NEW e \in EcState
    PROVE  /\ \A b \in Seq(Byte), h \in SUBSET Key :
                 [e EXCEPT !.buffer = b, !.held = h] \in EcState
           /\ \A b \in Seq(Byte) : [e EXCEPT !.buffer = b] \in EcState
           /\ \A b \in Seq(Byte), n \in Int : [e EXCEPT !.owed = n, !.buffer = b] \in EcState
           /\ \A b \in Seq(Byte), n \in Int, r \in BOOLEAN :
                 [e EXCEPT !.buffer = b, !.owed = n, !.wasReset = r] \in EcState
           /\ \A a \in BOOLEAN : [e EXCEPT !.armed = a] \in EcState
           /\ \A n \in Int : [e EXCEPT !.owed = n] \in EcState
           /\ \A b \in Seq(Byte), n \in Int, s, w \in BOOLEAN :
                 [e EXCEPT !.buffer = b, !.owed = n, !.scanning = s, !.wasReset = w] \in EcState
           /\ \A b \in Seq(Byte), n \in Int, a, s \in BOOLEAN :
                 [e EXCEPT !.armed = a, !.scanning = s, !.buffer = b, !.owed = n] \in EcState
           /\ \A b \in Seq(Byte), n \in Int, a, s, w \in BOOLEAN :
                 [e EXCEPT !.armed = a, !.buffer = b, !.owed = n, !.scanning = s,
                           !.wasReset = w] \in EcState
<1>1. \A b \in Seq(Byte), h \in SUBSET Key : [e EXCEPT !.buffer = b, !.held = h] \in EcState
  BY DEF EcState
<1>2. \A b \in Seq(Byte) : [e EXCEPT !.buffer = b] \in EcState
  BY DEF EcState
<1>3. \A b \in Seq(Byte), n \in Int : [e EXCEPT !.owed = n, !.buffer = b] \in EcState
  BY DEF EcState
<1>4. \A b \in Seq(Byte), n \in Int, r \in BOOLEAN :
         [e EXCEPT !.buffer = b, !.owed = n, !.wasReset = r] \in EcState
  BY DEF EcState
<1>5. \A a \in BOOLEAN : [e EXCEPT !.armed = a] \in EcState
  BY DEF EcState
<1>6. \A n \in Int : [e EXCEPT !.owed = n] \in EcState
  BY DEF EcState
<1>7. \A b \in Seq(Byte), n \in Int, s, w \in BOOLEAN :
         [e EXCEPT !.buffer = b, !.owed = n, !.scanning = s, !.wasReset = w] \in EcState
  BY DEF EcState
<1>8. \A b \in Seq(Byte), n \in Int, a, s \in BOOLEAN :
         [e EXCEPT !.armed = a, !.scanning = s, !.buffer = b, !.owed = n] \in EcState
  BY DEF EcState
<1>9. \A b \in Seq(Byte), n \in Int, a, s, w \in BOOLEAN :
         [e EXCEPT !.armed = a, !.buffer = b, !.owed = n, !.scanning = s, !.wasReset = w] \in EcState
  BY DEF EcState
<1> QED BY <1>1, <1>2, <1>3, <1>4, <1>5, <1>6, <1>7, <1>8, <1>9

LEMMA KeysChanges ==
    ASSUME NEW k \in KeysState
    PROVE  /\ \A l \in BOOLEAN : [k EXCEPT !.lost = l] \in KeysState
           /\ \A r \in Seq(KeyEvent), d \in SUBSET (0 .. 255) :
                 [k EXCEPT !.ring = r, !.down = d] \in KeysState
BY DEF KeysState

LEMMA DrainedTypes ==
    ASSUME KeyboardTypes, Drained
    PROVE  keys' \in KeysState
<1>1. PICK l \in BOOLEAN : l = (keys.lost \/ \E i \in DOMAIN ec.buffer : ec.buffer[i].scan)
  BY Zenon
<1>2. keys' = [keys EXCEPT !.lost = l]
  BY <1>1 DEF Drained
<1> QED BY <1>2, KeysChanges DEF KeyboardTypes

\* What each action leaves
LEMMA EcActionTypes ==
    ASSUME KeyboardTypes,
           (\E k \in Key : Types(k)) \/ TypesPause \/ AnswersByte \/ SpontaneousReset
    PROVE  KeyboardTypes'
<1>0. /\ ec \in EcState /\ decoder \in DecoderState /\ slot \in SlotState
      /\ keys \in KeysState /\ opens \in OpensState /\ user \in [Opener -> OpenerState]
      /\ ec.buffer \in Seq(Byte) /\ ec.held \in SUBSET Key /\ ec.owed \in Int
  BY DEF KeyboardTypes, EcState
<1>1. ASSUME NEW k \in Key, Types(k)
      PROVE  KeyboardTypes'
  <2>1. PICK down \in BOOLEAN : down = (k \notin ec.held)
    BY Zenon
  <2>2. k \in 1 .. 255
    BY KeyboardAssumption DEF KeyboardAssumption
  <2>3. PICK b \in Seq(Byte) : b = ec.buffer \o ScanCode(k, down)
    <3>1. PICK sent \in Seq(Byte) : sent = ScanCode(k, down)
      BY <2>2, ScanCodeBytes
    <3>2. ec.buffer \o sent \in Seq(Byte)
      BY <1>0, ConcatProperties
    <3> QED BY <3>1, <3>2
  <2>4. PICK h \in SUBSET Key : h = IF down THEN ec.held \cup {k} ELSE ec.held \ {k}
    BY <1>0
  <2>5. ec' = [ec EXCEPT !.buffer = b, !.held = h]
    BY <1>1, <2>1, <2>3, <2>4 DEF Types
  <2>6. ec' \in EcState
    BY <1>0, <2>5, EcChanges
  <2> QED BY <1>0, <1>1, <2>6 DEF Types, KeyboardTypes
<1>2. ASSUME TypesPause
      PROVE  KeyboardTypes'
  <2>1. PICK b : b = [i \in 1 .. 6 |->
                        ScanByte(<<PrefixE1, 29, 69, PrefixE1, 157, 197>>[i])]
    OBVIOUS
  <2>2. \A i \in 1 .. 6 : <<PrefixE1, 29, 69, PrefixE1, 157, 197>>[i] \in 0 .. 255
    BY DEF PrefixE1
  <2>3. \A i \in 1 .. 6 : b[i] \in Byte
    BY <2>1, <2>2 DEF ScanByte, Byte
  <2>4. b \in Seq(Byte)
    BY <2>1, <2>3, IsASeq
  <2>5. ec' = [ec EXCEPT !.buffer = b]
    BY <1>2, <2>1 DEF TypesPause
  <2>6. ec' \in EcState
    BY <1>0, <2>4, <2>5, EcChanges
  <2> QED BY <1>0, <1>2, <2>6 DEF TypesPause, KeyboardTypes
<1>3. ASSUME AnswersByte
      PROVE  KeyboardTypes'
  <2>1. PICK answer \in {Ack, Resend} :
           ec' = [ec EXCEPT !.owed = @ - 1, !.buffer = Append(@, Response(answer))]
    BY <1>3 DEF AnswersByte
  <2>2. Response(answer) \in Byte
    BY <2>1 DEF Response, Byte, Ack, Resend
  <2>3. PICK b : b = Append(ec.buffer, Response(answer))
    OBVIOUS
  <2>. b \in Seq(Byte)
    BY <1>0, <2>2, <2>3, AppendProperties
  <2>4. PICK n \in Int : n = ec.owed - 1
    BY <1>0
  <2>5. ec' = [ec EXCEPT !.owed = n, !.buffer = b]
    BY <2>1, <2>3, <2>4
  <2>6. ec' \in EcState
    BY <1>0, <2>5, EcChanges
  <2> QED BY <1>0, <1>3, <2>6 DEF AnswersByte, KeyboardTypes
<1>4. ASSUME SpontaneousReset
      PROVE  KeyboardTypes'
  <2>1. Response(SelfTestPassed) \in Byte
    BY DEF Response, Byte, SelfTestPassed
  <2>2. PICK b : b = <<Response(SelfTestPassed)>>
    OBVIOUS
  <2>. b \in Seq(Byte)
    BY <2>1, <2>2
  <2>. PICK n : n = 0
    OBVIOUS
  <2>. PICK r : r = TRUE
    OBVIOUS
  <2>. n \in Int /\ r \in BOOLEAN
    OBVIOUS
  <2>3. ec' = [ec EXCEPT !.buffer = b, !.owed = n, !.wasReset = r]
    BY <1>4, <2>2 DEF SpontaneousReset
  <2>4. ec' \in EcState
    BY <1>0, <2>3, EcChanges
  <2>5. keys' \in KeysState
    BY <1>0, <1>4, KeysChanges DEF SpontaneousReset
  <2> QED BY <1>0, <1>4, <2>4, <2>5 DEF SpontaneousReset, KeyboardTypes
<1> QED BY <1>1, <1>2, <1>3, <1>4

LEMMA InterruptTypes ==
    ASSUME KeyboardTypes, KeyboardInterrupt
    PROVE  KeyboardTypes'
<1>0. /\ ec \in EcState /\ decoder \in DecoderState /\ slot \in SlotState
      /\ keys \in KeysState /\ opens \in OpensState /\ user \in [Opener -> OpenerState]
      /\ ec.buffer \in Seq(Byte)
  BY DEF KeyboardTypes, EcState
<1>1. ec.buffer # <<>>
  BY DEF KeyboardInterrupt
<1>2. Head(ec.buffer) \in Byte /\ Tail(ec.buffer) \in Seq(Byte)
  BY <1>0, <1>1
<1>3. PICK b \in 0 .. 255 : b = Head(ec.buffer).byte
  BY <1>2 DEF Byte
<1>4. ec' = [ec EXCEPT !.buffer = Tail(ec.buffer)]
  BY DEF KeyboardInterrupt
<1>5. ec' \in EcState
  BY <1>0, <1>2, <1>4, EcChanges
<1>6. PICK l \in BOOLEAN : l = (keys.lost \/ Head(ec.buffer).scan)
  BY Zenon
<1>7. [keys EXCEPT !.lost = l] \in KeysState
  BY <1>0, KeysChanges
<1>8. CASE slot.mode
  <2>1. /\ slot' = [slot EXCEPT !.byte = b, !.tokens = @ + 1]
        /\ keys' = [keys EXCEPT !.lost = l] /\ UNCHANGED <<decoder, user, opens>>
    BY <1>3, <1>6, <1>8 DEF KeyboardInterrupt
  <2>2. PICK n \in Int : n = slot.tokens + 1
    BY <1>0 DEF SlotState
  <2>3. slot' = [slot EXCEPT !.byte = b, !.tokens = n]
    BY <2>1, <2>2
  <2>4. slot' \in SlotState
    BY <1>0, <2>3 DEF SlotState
  <2> QED BY <1>0, <1>5, <1>7, <2>1, <2>4 DEF KeyboardTypes
<1>9. CASE ~slot.mode /\ decoder.decoding
  <2>1. DecodeByte(b) /\ UNCHANGED <<slot, opens>>
    BY <1>3, <1>9 DEF KeyboardInterrupt
  <2>2. decoder' \in DecoderState /\ keys' \in KeysState /\ user' \in [Opener -> OpenerState]
    BY <2>1, DecodeByteTypes
  <2> QED BY <1>0, <1>5, <2>1, <2>2 DEF KeyboardTypes
<1>10. CASE ~slot.mode /\ ~decoder.decoding
  <2>1. keys' = [keys EXCEPT !.lost = l] /\ UNCHANGED <<slot, opens, decoder, user>>
    BY <1>6, <1>10 DEF KeyboardInterrupt
  <2> QED BY <1>0, <1>5, <1>7, <2>1 DEF KeyboardTypes
<1> QED BY <1>8, <1>9, <1>10

LEMMA DeviceTypes ==
    ASSUME KeyboardTypes, NEW c \in Opener,
           \/ Opens(c) \/ BringUpDevice(c) \/ ArmDevice(c)
           \/ Closes(c) \/ StopDecoding(c) \/ TearDownDevice(c)
    PROVE  KeyboardTypes'
<1>0. /\ ec \in EcState /\ decoder \in DecoderState /\ slot \in SlotState
      /\ keys \in KeysState /\ opens \in OpensState /\ user \in [Opener -> OpenerState]
      /\ opens.count \in Int /\ opens.reader \in SUBSET Opener /\ <<>> \in Seq(Byte)
  BY DEF KeyboardTypes, OpensState
<1>1. ASSUME Opens(c)
      PROVE  KeyboardTypes'
  <2>1. PICK at \in {"bring", "open"} :
           at = IF opens.count = 0 /\ ~decoder.decoding THEN "bring" ELSE "open"
    OBVIOUS
  <2>2. user' = [user EXCEPT ![c].at = at]
    BY <1>1, <2>1 DEF Opens, Goes
  <2>3. PICK n \in Int : n = opens.count + 1
    BY <1>0
  <2>4. opens' = [opens EXCEPT !.count = n]
    BY <1>1, <2>3 DEF Opens
  <2>5. opens' \in OpensState
    BY <1>0, <2>4 DEF OpensState
  <2>6. user' \in [Opener -> OpenerState]
    BY <1>0, <2>2, UserChanges
  <2> QED BY <1>0, <1>1, <2>5, <2>6 DEF Opens, KeyboardTypes
<1>2. ASSUME BringUpDevice(c)
      PROVE  KeyboardTypes'
  <2>1. ec' \in EcState
    <3>1. PICK b, n, s, w : b = <<>> /\ n = 0 /\ s = TRUE /\ w = FALSE
      BY Zenon
    <3>. b \in Seq(Byte)
      BY <1>0, <3>1
    <3>. n \in Int
      BY <3>1
    <3>. s \in BOOLEAN /\ w \in BOOLEAN
      BY <3>1, Zenon
    <3>2. ec' = [ec EXCEPT !.buffer = b, !.owed = n, !.scanning = s, !.wasReset = w]
      BY <1>2, <3>1 DEF BringUpDevice
    <3> QED BY <1>0, <3>2, EcChanges
  <2>2. user' \in [Opener -> OpenerState]
    BY <1>0, <1>2, UserChanges DEF BringUpDevice, Goes
  <2>3. keys' \in KeysState
    BY <1>2, DrainedTypes DEF BringUpDevice
  <2> QED BY <1>0, <1>2, <2>1, <2>2, <2>3 DEF BringUpDevice, KeyboardTypes
<1>3. ASSUME ArmDevice(c)
      PROVE  KeyboardTypes'
  <2>1. ec' \in EcState
    BY <1>0, <1>3, EcChanges DEF ArmDevice
  <2>2. user' \in [Opener -> OpenerState]
    BY <1>0, <1>3, UserChanges DEF ArmDevice, Goes
  <2>3. decoder' \in DecoderState
    BY <1>0, <1>3, DecoderChanges DEF ArmDevice
  <2> QED BY <1>0, <1>3, <2>1, <2>2, <2>3 DEF ArmDevice, KeyboardTypes
<1>4. ASSUME Closes(c)
      PROVE  KeyboardTypes'
  <2>1. PICK at \in {"stop", "closed"} : at = IF opens.count = 1 THEN "stop" ELSE "closed"
    OBVIOUS
  <2>2. user' = [user EXCEPT ![c].at = at]
    BY <1>4, <2>1 DEF Closes, Goes
  <2>3. user' \in [Opener -> OpenerState]
    BY <1>0, <2>2, UserChanges
  <2>4. opens' \in OpensState
    BY <1>0, <1>4 DEF Closes, OpensState
  <2> QED BY <1>0, <1>4, <2>3, <2>4 DEF Closes, KeyboardTypes
<1>5. ASSUME StopDecoding(c)
      PROVE  KeyboardTypes'
  <2>1. user' \in [Opener -> OpenerState]
    BY <1>0, <1>5, UserChanges DEF StopDecoding, Goes
  <2>2. decoder' \in DecoderState
    BY <1>0, <1>5, DecoderChanges DEF StopDecoding
  <2> QED BY <1>0, <1>5, <2>1, <2>2 DEF StopDecoding, KeyboardTypes
<1>6. ASSUME TearDownDevice(c)
      PROVE  KeyboardTypes'
  <2>1. ec' \in EcState
    <3>1. PICK b, n, a : b = <<>> /\ n = 0 /\ a = FALSE
      BY Zenon
    <3>. b \in Seq(Byte)
      BY <1>0, <3>1
    <3>. n \in Int
      BY <3>1
    <3>. a \in BOOLEAN
      BY <3>1, Zenon
    <3>2. ec' = [ec EXCEPT !.armed = a, !.scanning = a, !.buffer = b, !.owed = n]
      BY <1>6, <3>1 DEF TearDownDevice
    <3> QED BY <1>0, <3>2, EcChanges
  <2>2. user' \in [Opener -> OpenerState]
    BY <1>0, <1>6, UserChanges DEF TearDownDevice, Goes
  <2>3. keys' \in KeysState
    BY <1>6, DrainedTypes DEF TearDownDevice
  <2>4. decoder' \in DecoderState
    BY <1>0, <1>6, DecoderChanges DEF TearDownDevice
  <2> QED BY <1>0, <1>6, <2>1, <2>2, <2>3, <2>4 DEF TearDownDevice, KeyboardTypes
<1> QED BY <1>1, <1>2, <1>3, <1>4, <1>5, <1>6

LEMMA ReadTypes ==
    ASSUME KeyboardTypes, NEW c \in Opener,
           \/ ReadKey(c) \/ ReadLooks(c) \/ ReadTakes(c) \/ ReadFindsNone(c)
           \/ ReadSleeps(c) \/ ReinitDevice(c) \/ RearmDevice(c)
    PROVE  KeyboardTypes'
<1>0. /\ ec \in EcState /\ decoder \in DecoderState /\ slot \in SlotState
      /\ keys \in KeysState /\ opens \in OpensState /\ user \in [Opener -> OpenerState]
      /\ opens.reader \in SUBSET Opener /\ <<>> \in Seq(Byte)
      /\ keys.ring \in Seq(KeyEvent) /\ keys.down \in SUBSET (0 .. 255)
  BY DEF KeyboardTypes, OpensState, KeysState
<1>1. ASSUME ReadKey(c)
      PROVE  KeyboardTypes'
  <2>1. user' \in [Opener -> OpenerState]
    BY <1>0, <1>1, UserChanges DEF ReadKey, Reading
  <2>2. opens' \in OpensState
    BY <1>0, <1>1 DEF ReadKey, OpensState
  <2> QED BY <1>0, <1>1, <2>1, <2>2 DEF ReadKey, KeyboardTypes
<1>2. ASSUME ReadLooks(c)
      PROVE  KeyboardTypes'
  <2>1. PICK read \in {"reinit", "ring"} :
           read = IF decoder.reinit /\ ~decoder.decoding THEN "reinit" ELSE "ring"
    OBVIOUS
  <2>2. user' = [user EXCEPT ![c].read = read]
    BY <1>2, <2>1 DEF ReadLooks, Reading
  <2>3. user' \in [Opener -> OpenerState]
    BY <1>0, <2>2, UserChanges
  <2> QED BY <1>0, <1>2, <2>3 DEF ReadLooks, KeyboardTypes
<1>3. ASSUME ReadTakes(c)
      PROVE  KeyboardTypes'
  <2>1. user' \in [Opener -> OpenerState]
    BY <1>0, <1>3, UserChanges DEF ReadTakes, Reading
  <2>2. keys.ring # <<>>
    BY <1>3 DEF ReadTakes
  <2>3. PICK e : e = Head(keys.ring)
    OBVIOUS
  <2>. e \in KeyEvent
    BY <1>0, <2>2, <2>3
  <2>4. PICK d \in SUBSET (0 .. 255) :
           d = IF e.down THEN keys.down \cup {e.key} ELSE keys.down \ {e.key}
    BY <1>0, <2>3 DEF KeyEvent
  <2>5. PICK r : r = Tail(keys.ring)
    OBVIOUS
  <2>. r \in Seq(KeyEvent)
    BY <1>0, <2>2, <2>5
  <2>6. keys' = [keys EXCEPT !.ring = r, !.down = d]
    BY <1>3, <2>3, <2>4, <2>5 DEF ReadTakes
  <2>7. keys' \in KeysState
    BY <1>0, <2>6, KeysChanges
  <2> QED BY <1>0, <1>3, <2>1, <2>7 DEF ReadTakes, KeyboardTypes
<1>4. ASSUME ReadFindsNone(c)
      PROVE  KeyboardTypes'
  <2>1. user' \in [Opener -> OpenerState]
    BY <1>0, <1>4, UserChanges DEF ReadFindsNone, Reading
  <2> QED BY <1>0, <1>4, <2>1 DEF ReadFindsNone, KeyboardTypes
<1>5. ASSUME ReadSleeps(c)
      PROVE  KeyboardTypes'
  <2>1. user' \in [Opener -> OpenerState]
    BY <1>0, <1>5, UserChanges DEF ReadSleeps, Reading
  <2> QED BY <1>0, <1>5, <2>1 DEF ReadSleeps, KeyboardTypes
<1>6. ASSUME ReinitDevice(c)
      PROVE  KeyboardTypes'
  <2>1. user' \in [Opener -> OpenerState]
    BY <1>0, <1>6, UserChanges DEF ReinitDevice, Reading
  <2>2. ec' \in EcState
    <3>1. PICK b, n, s, w : b = <<>> /\ n = 0 /\ s = TRUE /\ w = FALSE
      BY Zenon
    <3>. b \in Seq(Byte)
      BY <1>0, <3>1
    <3>. n \in Int
      BY <3>1
    <3>. s \in BOOLEAN /\ w \in BOOLEAN
      BY <3>1, Zenon
    <3>2. ec' = [ec EXCEPT !.armed = w, !.buffer = b, !.owed = n, !.scanning = s, !.wasReset = w]
      BY <1>6, <3>1 DEF ReinitDevice
    <3> QED BY <1>0, <3>2, EcChanges
  <2>3. keys' \in KeysState
    BY <1>6, DrainedTypes DEF ReinitDevice
  <2>4. decoder' = [ResetDecoder EXCEPT !.reinit = TRUE]
    BY <1>6 DEF ReinitDevice
  <2>5. ResetDecoder \in DecoderState
    BY DEF ResetDecoder, DecoderState
  <2>6. PICK r \in BOOLEAN : r = TRUE
    OBVIOUS
  <2>. decoder' \in DecoderState
    BY <2>4, <2>5, <2>6, DecoderChanges
  <2> QED BY <1>0, <1>6, <2>1, <2>2, <2>3 DEF ReinitDevice, KeyboardTypes
<1>7. ASSUME RearmDevice(c)
      PROVE  KeyboardTypes'
  <2>1. user' \in [Opener -> OpenerState]
    BY <1>0, <1>7, UserChanges DEF RearmDevice, Reading
  <2>2. ec' \in EcState
    BY <1>0, <1>7, EcChanges DEF RearmDevice
  <2>3. decoder' \in DecoderState
    BY <1>0, <1>7, DecoderChanges DEF RearmDevice
  <2> QED BY <1>0, <1>7, <2>1, <2>2, <2>3 DEF RearmDevice, KeyboardTypes
<1> QED BY <1>1, <1>2, <1>3, <1>4, <1>5, <1>6, <1>7

LEMMA EndsByteTypes ==
    ASSUME KeyboardTypes, NEW c \in Opener, NEW consumed \in Int, EndsByte(c, consumed)
    PROVE  slot' \in SlotState /\ user' \in [Opener -> OpenerState]
<1>1. PICK n \in Int : n = slot.tokens - consumed
  BY DEF KeyboardTypes, SlotState
<1>2. slot' = [slot EXCEPT !.mode = FALSE, !.tokens = n]
  BY <1>1 DEF EndsByte
<1>3. slot' \in SlotState
  BY <1>2 DEF KeyboardTypes, SlotState
<1>4. PICK command \in {"second", "no"} :
         command = IF user[c].command = "ack1" THEN "second" ELSE "no"
  OBVIOUS
<1>5. PICK tries \in Int : tries = 0
  OBVIOUS
<1>6. user' = [user EXCEPT ![c].tries = tries, ![c].command = command]
  BY <1>4, <1>5 DEF EndsByte, KeyboardTypes, OpenerState
<1>7. user' \in [Opener -> OpenerState]
  BY <1>6 DEF KeyboardTypes, OpenerState
<1> QED BY <1>3, <1>7

LEMMA CommandTypes ==
    ASSUME KeyboardTypes, NEW c \in Opener,
           SetLeds(c) \/ WritesByte(c) \/ TakesAnswer(c) \/ AnswerTimesOut(c)
    PROVE  KeyboardTypes'
<1>0. /\ ec \in EcState /\ decoder \in DecoderState /\ slot \in SlotState
      /\ keys \in KeysState /\ opens \in OpensState /\ user \in [Opener -> OpenerState]
  BY DEF KeyboardTypes
<1>1. ASSUME SetLeds(c)
      PROVE  KeyboardTypes'
  <2>1. PICK n \in Int : n = 0
    OBVIOUS
  <2>2. user' = [user EXCEPT ![c].command = "first", ![c].tries = n]
    BY <1>1, <2>1 DEF SetLeds
  <2>3. user' \in [Opener -> OpenerState]
    BY <1>0, <2>2, UserChanges
  <2> QED BY <1>0, <1>1, <2>3 DEF SetLeds, KeyboardTypes
<1>2. ASSUME WritesByte(c)
      PROVE  KeyboardTypes'
  <2>1. PICK n \in Int : n = ec.owed + 1
    BY <1>0 DEF EcState
  <2>2. ec' = [ec EXCEPT !.owed = n]
    BY <1>2, <2>1 DEF WritesByte
  <2>3. ec' \in EcState
    BY <1>0, <2>2, EcChanges
  <2>4. slot' = [slot EXCEPT !.mode = TRUE]
    BY <1>2 DEF WritesByte
  <2>5. slot' \in SlotState
    BY <1>0, <2>4 DEF SlotState
  <2>6. PICK tries \in Int : tries = user[c].tries + 1
    BY <1>0 DEF OpenerState
  <2>7. PICK command \in {"ack1", "ack2"} :
           command = IF user[c].command = "first" THEN "ack1" ELSE "ack2"
    OBVIOUS
  <2>8. user' = [user EXCEPT ![c].tries = tries, ![c].command = command]
    BY <1>0, <1>2, <2>6, <2>7 DEF WritesByte, OpenerState
  <2>9. user' \in [Opener -> OpenerState]
    BY <1>0, <2>8 DEF OpenerState
  <2> QED BY <1>0, <1>2, <2>3, <2>5, <2>9 DEF WritesByte, KeyboardTypes
<1>3. ASSUME TakesAnswer(c)
      PROVE  KeyboardTypes'
  <2>1. CASE slot.byte = Resend /\ user[c].tries < 2
    <3>1. PICK n \in Int : n = slot.tokens - 1
      BY <1>0 DEF SlotState
    <3>2. slot' = [slot EXCEPT !.tokens = n]
      BY <1>3, <2>1, <3>1 DEF TakesAnswer
    <3>3. slot' \in SlotState
      BY <1>0, <3>2 DEF SlotState
    <3>4. PICK command \in {"first", "second"} :
             command = IF user[c].command = "ack1" THEN "first" ELSE "second"
      OBVIOUS
    <3>5. user' = [user EXCEPT ![c].command = command]
      BY <1>0, <1>3, <2>1, <3>4 DEF TakesAnswer
    <3>6. user' \in [Opener -> OpenerState]
      BY <1>0, <3>5, UserChanges
    <3> QED BY <1>0, <1>3, <3>3, <3>6 DEF TakesAnswer, KeyboardTypes
  <2>2. CASE ~(slot.byte = Resend /\ user[c].tries < 2)
    <3>1. EndsByte(c, 1)
      BY <1>3, <2>2 DEF TakesAnswer
    <3> QED BY <1>0, <1>3, <3>1, EndsByteTypes DEF TakesAnswer, KeyboardTypes
  <2> QED BY <2>1, <2>2
<1>4. ASSUME AnswerTimesOut(c)
      PROVE  KeyboardTypes'
  <2>1. EndsByte(c, 0)
    BY <1>4 DEF AnswerTimesOut
  <2> QED BY <1>0, <1>4, <2>1, EndsByteTypes DEF AnswerTimesOut, KeyboardTypes
<1> QED BY <1>1, <1>2, <1>3, <1>4

LEMMA KeyboardTypesStep ==
    ASSUME KeyboardTypes, [KeyboardNext]_keyboardVars
    PROVE  KeyboardTypes'
<1>1. CASE UNCHANGED keyboardVars
  BY <1>1 DEF keyboardVars, KeyboardTypes
<1>2. CASE KeyboardNext
  BY <1>2, EcActionTypes, InterruptTypes, DeviceTypes, ReadTypes, CommandTypes, Zenon
     DEF KeyboardNext
<1> QED BY <1>1, <1>2

NoneOf(ring, n, k) == \A i \in 1 .. n : ring[i].key # k
LatestDown(ring, n, k) ==
    \E i \in 1 .. n : /\ ring[i].key = k /\ ring[i].down
                     /\ \A j \in 1 .. n : ring[j].key = k => j <= i

LEMMA KeyAfter ==
    ASSUME NEW ring, NEW n, DOMAIN ring = 1 .. n, NEW down, NEW k \in 0 .. 255
    PROVE  k \in KeysAfter(ring, down) <=>
              (NoneOf(ring, n, k) /\ k \in down) \/ LatestDown(ring, n, k)
BY DEF KeysAfter, NoneOf, LatestDown

LEMMA KeysAfterAppend ==
    ASSUME NEW ring \in Seq(KeyEvent), NEW down \in SUBSET (0 .. 255), NEW e \in KeyEvent
    PROVE  KeysAfter(Append(ring, e), down) =
              IF e.down THEN KeysAfter(ring, down) \cup {e.key}
                        ELSE KeysAfter(ring, down) \ {e.key}
<1> DEFINE n == Len(ring)
           longer == Append(ring, e)
<1>1. n \in Nat /\ DOMAIN ring = 1 .. n /\ DOMAIN longer = 1 .. (n + 1)
  OBVIOUS
<1>2. longer[n + 1] = e /\ \A i \in 1 .. n : longer[i] = ring[i]
  OBVIOUS
<1>3. e.key \in 0 .. 255
  BY DEF KeyEvent
<1>4. KeysAfter(longer, down) \subseteq 0 .. 255 /\ KeysAfter(ring, down) \subseteq 0 .. 255
  BY DEF KeysAfter
<1> HIDE DEF n, longer
<1>5. ASSUME NEW k \in 0 .. 255, k # e.key
      PROVE  k \in KeysAfter(longer, down) <=> k \in KeysAfter(ring, down)
  <2>1. (\A i \in 1 .. (n + 1) : longer[i].key # k) <=> (\A i \in 1 .. n : ring[i].key # k)
    <3>1. ASSUME \A i \in 1 .. n : ring[i].key # k, NEW i \in 1 .. (n + 1)
          PROVE  longer[i].key # k
      <4>1. i = n + 1 \/ i \in 1 .. n
        BY <1>1
      <4> QED BY <1>2, <1>5, <3>1, <4>1
    <3>2. ASSUME \A i \in 1 .. (n + 1) : longer[i].key # k, NEW i \in 1 .. n
          PROVE  ring[i].key # k
      <4>1. i \in 1 .. (n + 1)
        BY <1>1
      <4> QED BY <1>2, <3>2, <4>1
    <3> QED BY <3>1, <3>2
  <2>2. ASSUME LatestDown(longer, n + 1, k)
        PROVE  LatestDown(ring, n, k)
    <3>1. PICK i \in 1 .. (n + 1) :
             /\ longer[i].key = k /\ longer[i].down
             /\ \A j \in 1 .. (n + 1) : longer[j].key = k => j <= i
      BY <2>2 DEF LatestDown, NoneOf
    <3>2. i # n + 1
      BY <1>2, <1>5, <3>1
    <3>3. i \in 1 .. n /\ \A j \in 1 .. n : j \in 1 .. (n + 1)
      BY <1>1, <3>2
    <3>4. \A j \in 1 .. n : ring[j].key = k => j <= i
      BY <1>2, <3>1, <3>3
    <3> QED BY <1>2, <3>1, <3>3, <3>4 DEF LatestDown, NoneOf
  <2>3. ASSUME LatestDown(ring, n, k)
        PROVE  LatestDown(longer, n + 1, k)
    <3>1. PICK i \in 1 .. n :
             /\ ring[i].key = k /\ ring[i].down
             /\ \A j \in 1 .. n : ring[j].key = k => j <= i
      BY <2>3 DEF LatestDown, NoneOf
    <3>2. ASSUME NEW j \in 1 .. (n + 1), longer[j].key = k
          PROVE  j <= i
      <4>1. j # n + 1
        BY <1>2, <1>5, <3>2
      <4>2. j \in 1 .. n
        BY <1>1, <4>1
      <4>3. ring[j].key = k
        BY <1>2, <3>2, <4>2
      <4> QED BY <3>1, <4>2, <4>3
    <3>3. i \in 1 .. (n + 1)
      BY <1>1
    <3> QED BY <1>2, <3>1, <3>2, <3>3 DEF LatestDown, NoneOf
  <2>4. k \in KeysAfter(longer, down) <=>
           (NoneOf(longer, n + 1, k) /\ k \in down) \/ LatestDown(longer, n + 1, k)
    BY <1>1, KeyAfter
  <2>5. k \in KeysAfter(ring, down) <=>
           (NoneOf(ring, n, k) /\ k \in down) \/ LatestDown(ring, n, k)
    BY <1>1, KeyAfter
  <2>6. NoneOf(longer, n + 1, k) <=> NoneOf(ring, n, k)
    BY <2>1 DEF NoneOf
  <2>7. LatestDown(longer, n + 1, k) <=> LatestDown(ring, n, k)
    BY <2>2, <2>3 DEF LatestDown
  <2> QED BY <2>4, <2>5, <2>6, <2>7
<1>6. e.key \in KeysAfter(longer, down) <=> e.down
  <2>1. n + 1 \in 1 .. (n + 1) /\ \A i \in 1 .. (n + 1) : i <= n + 1
    BY <1>1
  <2>2. ASSUME e.down
        PROVE  e.key \in KeysAfter(longer, down)
    <3>1. PICK m : m = n + 1
      OBVIOUS
    <3>2. DOMAIN longer = 1 .. m /\ longer[m] = e /\ m \in 1 .. m /\ \A i \in 1 .. m : i <= m
      BY <1>1, <1>2, <2>1, <3>1
    <3>3. LatestDown(longer, m, e.key)
      BY <2>2, <3>2 DEF LatestDown
    <3> QED BY <1>3, <3>2, <3>3, KeyAfter
  <2>3. ASSUME e.key \in KeysAfter(longer, down)
        PROVE  e.down
    <3>1. PICK i \in 1 .. (n + 1) :
             /\ longer[i].key = e.key /\ longer[i].down
             /\ \A j \in 1 .. (n + 1) : longer[j].key = e.key => j <= i
      <4>1. PICK m : m = n + 1
        OBVIOUS
      <4>2. DOMAIN longer = 1 .. m /\ longer[m] = e /\ m \in 1 .. m
        BY <1>1, <1>2, <2>1, <4>1
      <4>3. ~NoneOf(longer, m, e.key)
        BY <4>2 DEF NoneOf
      <4>4. LatestDown(longer, m, e.key)
        BY <1>3, <2>3, <4>2, <4>3, KeyAfter
      <4> QED BY <4>1, <4>4 DEF LatestDown
    <3>2. i = n + 1
      BY <1>1, <1>2, <2>1, <3>1
    <3> QED BY <1>2, <3>1, <3>2
  <2> QED BY <2>2, <2>3
<1> DEFINE After == IF e.down THEN KeysAfter(ring, down) \cup {e.key}
                              ELSE KeysAfter(ring, down) \ {e.key}
<1>7. After \subseteq 0 .. 255
  BY <1>3, <1>4
<1>8. \A k \in 0 .. 255 : k \in KeysAfter(longer, down) <=> k \in After
  BY <1>5, <1>6
<1>9. KeysAfter(longer, down) = After
  <2> HIDE DEF After
  <2> QED BY <1>4, <1>7, <1>8
<1> QED BY <1>9 DEF longer

\* What is down once an event was read
Taken(e, down) == IF e.down THEN down \cup {e.key} ELSE down \ {e.key}

LEMMA KeysAfterTail ==
    ASSUME NEW ring \in Seq(KeyEvent), NEW down \in SUBSET (0 .. 255), ring # <<>>, NEW then,
           then = Taken(Head(ring), down)
    PROVE  KeysAfter(Tail(ring), then) = KeysAfter(ring, down)
<1> DEFINE n == Len(ring)
           rest == Tail(ring)
           e == Head(ring)
<1>1. n \in Nat /\ n >= 1 /\ DOMAIN ring = 1 .. n /\ DOMAIN rest = 1 .. (n - 1)
  OBVIOUS
<1>2. ring[1] = e /\ \A i \in 1 .. (n - 1) : rest[i] = ring[i + 1]
  OBVIOUS
<1>3. e.key \in 0 .. 255
  <2>1. e \in KeyEvent
    OBVIOUS
  <2> QED BY <2>1 DEF KeyEvent
<1>4. KeysAfter(rest, then) \subseteq 0 .. 255 /\ KeysAfter(ring, down) \subseteq 0 .. 255
  BY DEF KeysAfter
<1>5. then = IF e.down THEN down \cup {e.key} ELSE down \ {e.key}
  BY DEF Taken
<1> HIDE DEF n, rest, e
<1>6. ASSUME NEW k \in 0 .. 255
      PROVE  k \in KeysAfter(rest, then) <=> k \in KeysAfter(ring, down)
  <2>0. \A j \in 2 .. n : j - 1 \in 1 .. (n - 1) /\ rest[j - 1] = ring[j]
    <3>1. ASSUME NEW j \in 2 .. n
          PROVE  j - 1 \in 1 .. (n - 1) /\ (j - 1) + 1 = j
      BY <1>1
    <3> QED BY <1>2, <3>1
  <2>00. \A i \in 1 .. (n - 1) : i + 1 \in 2 .. n /\ i + 1 \in 1 .. n
    BY <1>1
  <2>1. k \in KeysAfter(rest, then) <=> (NoneOf(rest, n - 1, k) /\ k \in then) \/ LatestDown(rest, n - 1, k)
    <3>1. PICK m : m = n - 1
      OBVIOUS
    <3>2. DOMAIN rest = 1 .. m
      BY <1>1, <3>1
    <3>3. k \in KeysAfter(rest, then) <=>
             (NoneOf(rest, m, k) /\ k \in then) \/ LatestDown(rest, m, k)
      BY <3>2, KeyAfter
    <3> QED BY <3>1, <3>3
  <2>2. k \in KeysAfter(ring, down) <=> (NoneOf(ring, n, k) /\ k \in down) \/ LatestDown(ring, n, k)
    BY <1>1, KeyAfter
  <2>3. ASSUME LatestDown(rest, n - 1, k)
        PROVE  LatestDown(ring, n, k)
    <3>1. PICK i \in 1 .. (n - 1) :
             /\ rest[i].key = k /\ rest[i].down
             /\ \A j \in 1 .. (n - 1) : rest[j].key = k => j <= i
      BY <2>3 DEF LatestDown, NoneOf
    <3>2. ring[i + 1].key = k /\ ring[i + 1].down /\ i + 1 \in 1 .. n
      BY <1>2, <2>00, <3>1
    <3>3. ASSUME NEW j \in 1 .. n, ring[j].key = k
          PROVE  j <= i + 1
      <4>1. CASE j = 1
        BY <1>1, <4>1
      <4>2. CASE j # 1
        <5>1. j \in 2 .. n
          BY <1>1, <4>2
        <5>2. j - 1 <= i
          BY <2>0, <3>1, <3>3, <5>1
        <5> QED BY <1>1, <5>2
      <4> QED BY <4>1, <4>2
    <3> QED BY <3>2, <3>3 DEF LatestDown, NoneOf
  <2>4. ASSUME LatestDown(ring, n, k), ~NoneOf(rest, n - 1, k)
        PROVE  LatestDown(rest, n - 1, k)
    <3>1. PICK i \in 1 .. n :
             /\ ring[i].key = k /\ ring[i].down
             /\ \A j \in 1 .. n : ring[j].key = k => j <= i
      BY <2>4 DEF LatestDown, NoneOf
    <3>2. PICK m \in 1 .. (n - 1) : rest[m].key = k
      BY <2>4 DEF LatestDown, NoneOf
    <3>3. m + 1 <= i
      BY <1>2, <2>00, <3>1, <3>2
    <3>4. i \in 2 .. n
      BY <1>1, <3>3
    <3>5. rest[i - 1].key = k /\ rest[i - 1].down /\ i - 1 \in 1 .. (n - 1)
      BY <2>0, <3>1, <3>4
    <3>6. ASSUME NEW j \in 1 .. (n - 1), rest[j].key = k
          PROVE  j <= i - 1
      <4>1. j + 1 <= i
        BY <1>2, <2>00, <3>1, <3>6
      <4> QED BY <1>1, <4>1
    <3> QED BY <3>5, <3>6 DEF LatestDown, NoneOf
  <2>5. ASSUME NoneOf(rest, n - 1, k), k # e.key
        PROVE  NoneOf(ring, n, k)
    <3>1. ASSUME NEW j \in 1 .. n
          PROVE  ring[j].key # k
      <4>1. j = 1 \/ j \in 2 .. n
        BY <1>1
      <4> QED BY <1>2, <2>0, <2>5, <4>1 DEF LatestDown, NoneOf
    <3> QED BY <3>1 DEF LatestDown, NoneOf
  <2>6. ASSUME NoneOf(rest, n - 1, k), k = e.key
        PROVE  LatestDown(ring, n, k) <=> e.down
    <3>1. 1 \in 1 .. n
      BY <1>1
    <3>2. \A j \in 1 .. n : ring[j].key = k => j = 1
      <4>1. ASSUME NEW j \in 1 .. n, j # 1
            PROVE  ring[j].key # k
        <5>1. j \in 2 .. n
          BY <1>1, <4>1
        <5> QED BY <2>0, <2>6, <5>1 DEF LatestDown, NoneOf
      <4> QED BY <4>1
    <3>3. ASSUME e.down
          PROVE  LatestDown(ring, n, k)
      <4>1. \A j \in 1 .. n : ring[j].key = k => j <= 1
        BY <3>2
      <4> QED BY <1>2, <2>6, <3>1, <3>3, <4>1 DEF LatestDown, NoneOf
    <3>4. ASSUME LatestDown(ring, n, k)
          PROVE  e.down
      BY <1>2, <3>2, <3>4 DEF LatestDown, NoneOf
    <3> QED BY <3>3, <3>4
  <2>7. NoneOf(ring, n, k) => NoneOf(rest, n - 1, k) /\ k # e.key
    <3>1. 1 \in 1 .. n
      BY <1>1
    <3> QED BY <1>2, <2>00, <3>1 DEF LatestDown, NoneOf
  <2>8. LatestDown(rest, n - 1, k) => ~NoneOf(rest, n - 1, k)
    BY DEF LatestDown, NoneOf
  <2>9. LatestDown(ring, n, k) => ~NoneOf(ring, n, k)
    BY DEF LatestDown, NoneOf
  <2>10. k # e.key => (k \in then <=> k \in down)
    BY <1>5
  <2>11. k = e.key => (k \in then <=> e.down)
    BY <1>5
  <2> QED BY <2>1, <2>2, <2>3, <2>4, <2>5, <2>6, <2>7, <2>8, <2>9, <2>10, <2>11
<1> QED BY <1>4, <1>6 DEF rest

\* What the decoder knows and has reported before a byte, and after it, when
\* the byte is an answer, a prefix, the end of a prefixed part of Pause, or a key
Unfinished(extended, a) == [extended |-> extended, collision |-> a.collision, down |-> a.down]

KeyByte(key, down) ==
    IF key < 128 THEN IF down THEN key ELSE key + 128
                 ELSE IF down THEN key - 128 ELSE key

ReadsKey(key, down, a, x, b) ==
    /\ a.extended = (IF key < 128 THEN 0 ELSE 1)
    /\ x.byte = KeyByte(key, down)
    /\ key \in Collisions /\ ~down => key \in a.collision
    /\ b = [extended |-> 0,
            collision |-> IF key \notin Collisions THEN a.collision
                          ELSE IF down THEN a.collision \cup {key} ELSE a.collision \ {key},
            down |-> IF down THEN a.down \cup {key} ELSE a.down \ {key}]

Reads(a, x, b) ==
    IF ~x.scan THEN x.byte \in {Ack, Resend} /\ a.extended = 0 /\ b = a
    ELSE \/ /\ a.extended = 0 /\ x.byte \in {PrefixE0, PrefixE1}
            /\ b = Unfinished(IF x.byte = PrefixE0 THEN 1 ELSE 2, a)
         \/ a.extended = 2 /\ x.byte \in {29, 157} /\ b = Unfinished(0, a)
         \/ \E key \in Key \cup {69}, down \in BOOLEAN : ReadsKey(key, down, a, x, b)

\* The bytes of a buffer lead from a to z
Leads(st, buffer, a, z) ==
    /\ st[0] = a /\ st[Len(buffer)] = z
    /\ \A i \in 1 .. Len(buffer) : Reads(st[i - 1], buffer[i], st[i])
Path(buffer, a, z) == \E st : Leads(st, buffer, a, z)

LEMMA PathEmpty ==
    ASSUME NEW a
    PROVE  Path(<<>>, a, a) /\ \A z : Path(<<>>, a, z) => z = a
<1>1. Leads([i \in {0} |-> a], <<>>, a, a)
  BY DEF Leads
<1>2. \A z : Path(<<>>, a, z) => z = a
  BY DEF Path, Leads
<1> QED BY <1>1, <1>2 DEF Path

LEMMA PathAppend ==
    ASSUME NEW buffer \in Seq(Byte), NEW x \in Byte, NEW a, NEW z, NEW w,
           Path(buffer, a, z), Reads(z, x, w)
    PROVE  Path(Append(buffer, x), a, w)
<1>1. PICK st : Leads(st, buffer, a, z)
  BY DEF Path
<1>2. PICK n \in Nat : n = Len(buffer)
  OBVIOUS
<1>3. PICK longer : longer = Append(buffer, x)
  OBVIOUS
<1>4. Len(longer) = n + 1 /\ longer[n + 1] = x /\ \A i \in 1 .. n : longer[i] = buffer[i]
  BY <1>2, <1>3
<1>5. PICK next : next = [i \in 0 .. (n + 1) |-> IF i = n + 1 THEN w ELSE st[i]]
  OBVIOUS
<1>6. next[n + 1] = w /\ \A i \in 0 .. n : next[i] = st[i]
  BY <1>5
<1>7. /\ st[0] = a /\ st[n] = z
      /\ \A i \in 1 .. n : Reads(st[i - 1], buffer[i], st[i])
  BY <1>1, <1>2 DEF Leads
<1>8. ASSUME NEW i \in 1 .. (n + 1)
      PROVE  Reads(next[i - 1], longer[i], next[i])
  <2>1. CASE i = n + 1
    <3>1. i - 1 = n /\ n \in 0 .. n
      BY <2>1
    <3>2. next[i - 1] = z /\ next[i] = w /\ longer[i] = x
      BY <1>4, <1>6, <1>7, <2>1, <3>1
    <3> QED BY <3>2
  <2>2. CASE i # n + 1
    <3>1. i \in 1 .. n /\ i - 1 \in 0 .. n /\ i \in 0 .. n
      BY <2>2
    <3>2. next[i - 1] = st[i - 1] /\ next[i] = st[i] /\ longer[i] = buffer[i]
      BY <1>4, <1>6, <3>1
    <3>3. Reads(st[i - 1], buffer[i], st[i])
      BY <1>7, <3>1
    <3> QED BY <3>2, <3>3
  <2> QED BY <2>1, <2>2
<1>9. 0 \in 0 .. n
  OBVIOUS
<1>10. Leads(next, longer, a, w)
  BY <1>4, <1>6, <1>7, <1>8, <1>9 DEF Leads
<1> QED BY <1>3, <1>10 DEF Path

LEMMA PathTail ==
    ASSUME NEW buffer \in Seq(Byte), buffer # <<>>, NEW a, NEW z, Path(buffer, a, z)
    PROVE  \E w : Reads(a, Head(buffer), w) /\ Path(Tail(buffer), w, z)
<1>1. PICK st : Leads(st, buffer, a, z)
  BY DEF Path
<1>2. PICK n \in Nat : n = Len(buffer)
  OBVIOUS
<1>3. PICK rest : rest = Tail(buffer)
  OBVIOUS
<1>4. n >= 1 /\ Len(rest) = n - 1 /\ \A i \in 1 .. (n - 1) : rest[i] = buffer[i + 1]
  BY <1>2, <1>3
<1>5. Head(buffer) = buffer[1]
  OBVIOUS
<1>6. PICK next : next = [i \in 0 .. (n - 1) |-> st[i + 1]]
  OBVIOUS
<1>7. /\ st[0] = a /\ st[n] = z
      /\ \A i \in 1 .. n : Reads(st[i - 1], buffer[i], st[i])
  BY <1>1, <1>2 DEF Leads
<1>8. \A i \in 0 .. (n - 1) : next[i] = st[i + 1]
  BY <1>6
<1>9. ASSUME NEW i \in 1 .. (n - 1)
      PROVE  Reads(next[i - 1], rest[i], next[i])
  <2>1. i - 1 \in 0 .. (n - 1) /\ i \in 0 .. (n - 1) /\ i + 1 \in 1 .. n
        /\ (i - 1) + 1 = i /\ (i + 1) - 1 = i
    BY <1>4
  <2>2. Reads(st[(i + 1) - 1], buffer[i + 1], st[i + 1])
    BY <1>7, <2>1
  <2>3. next[i - 1] = st[i] /\ next[i] = st[i + 1] /\ rest[i] = buffer[i + 1]
    BY <1>4, <1>8, <2>1
  <2> QED BY <2>1, <2>2, <2>3
<1>10. next[0] = st[1] /\ next[n - 1] = st[n]
  <2>1. 0 \in 0 .. (n - 1) /\ n - 1 \in 0 .. (n - 1) /\ (n - 1) + 1 = n /\ 0 + 1 = 1
    BY <1>4
  <2> QED BY <1>8, <2>1
<1>11. Leads(next, rest, st[1], z)
  BY <1>4, <1>7, <1>9, <1>10 DEF Leads
<1>12. Reads(st[0], buffer[1], st[1])
  <2>1. 1 \in 1 .. n /\ 1 - 1 = 0
    BY <1>4
  <2> QED BY <1>7, <2>1
<1> QED BY <1>3, <1>5, <1>7, <1>11, <1>12 DEF Path

\* Answers change nothing
LEMMA PathQuiet ==
    ASSUME NEW buffer \in Seq(Byte), NEW a, NEW z, Path(buffer, a, z),
           \A i \in DOMAIN buffer : ~buffer[i].scan
    PROVE  z = a
<1>1. PICK st : Leads(st, buffer, a, z)
  BY DEF Path
<1>2. PICK n \in Nat : n = Len(buffer)
  OBVIOUS
<1>3. /\ st[0] = a /\ st[n] = z
      /\ \A i \in 1 .. n : Reads(st[i - 1], buffer[i], st[i])
  BY <1>1, <1>2 DEF Leads
<1>4. \A i \in 1 .. n : ~buffer[i].scan
  BY <1>2
<1>5. \A i \in 1 .. n : st[i] = st[i - 1]
  BY <1>3, <1>4 DEF Reads
<1> DEFINE T == {i \in 0 .. n : st[i] # a}
<1>6. CASE T = {}
  <2>1. n \in 0 .. n
    OBVIOUS
  <2> QED BY <1>3, <1>6, <2>1
<1>7. CASE T # {}
  <2>1. T \subseteq Nat
    OBVIOUS
  <2> HIDE DEF T
  <2>2. PICK i \in T : \A m \in T : i <= m
    BY <1>7, <2>1, LeastNatural
  <2>3. i \in 0 .. n /\ st[i] # a
    BY DEF T
  <2>4. i # 0
    BY <1>3, <2>3
  <2>5. i \in 1 .. n /\ i - 1 \in 0 .. n
    BY <2>3, <2>4
  <2>6. st[i - 1] # a
    BY <1>5, <2>3, <2>5
  <2>7. i - 1 \in T
    BY <2>5, <2>6 DEF T
  <2> QED BY <2>2, <2>5, <2>7
<1> QED BY <1>6, <1>7

\* The bytes of the protocol, and the keys none of whose own is one, but for a
\* release that the driver tells apart by the press it has seen
Protocol == {PrefixE0, PrefixE1, PrefixF0, Ack, Resend, SelfTestPassed, Overrun}
Clear(key) == IF key >= 128 THEN key \notin Protocol
                            ELSE key + 128 \in Protocol => key \in Collisions

Now == [extended |-> decoder.extended, collision |-> decoder.collision, down |-> Reported]
Sent(held) == [extended |-> 0, collision |-> held \cap Collisions, down |-> held]

\* Nothing is asked of a keyboard that a key was dropped of
KeyboardInv ==
    ~keys.lost =>
        /\ decoder.release = FALSE
        /\ decoder.reinit = FALSE
        /\ \A c \in Opener : user[c].read \notin {"reinit", "rearm"}
        /\ Path(ec.buffer, Now, Sent(ec.held))

LEMMA KeyboardInitInv ==
    ASSUME KeyboardInit
    PROVE  KeyboardInv
<1>1. decoder.release = FALSE /\ decoder.reinit = FALSE /\ decoder.extended = 0
      /\ decoder.collision = {}
  BY DEF KeyboardInit, ResetDecoder
<1>2. \A c \in Opener : user[c].read \notin {"reinit", "rearm"}
  BY DEF KeyboardInit
<1>3. ec.buffer = <<>> /\ ec.held = {} /\ keys.ring = <<>> /\ keys.down = {}
  BY DEF KeyboardInit
<1>4. Reported = {}
  BY <1>3 DEF Reported, KeysAfter
<1>5. Now = Sent(ec.held)
  BY <1>1, <1>3, <1>4 DEF Now, Sent
<1>6. Path(ec.buffer, Now, Sent(ec.held))
  BY <1>3, <1>5, PathEmpty
<1> QED BY <1>1, <1>2, <1>6 DEF KeyboardInv

LEMMA CollisionsArePlain ==
    Collisions = {90, 94, 42, 127, 113, 114} /\ \A key \in Collisions : key < 128
BY DEF Collisions

\* A key that is pressed or released
LEMMA SentAfter ==
    ASSUME NEW held \in SUBSET Key, NEW k \in Key, k \in 1 .. 255, NEW down \in BOOLEAN,
           down = (k \notin held), NEW after,
           after = IF down THEN held \cup {k} ELSE held \ {k}
    PROVE  /\ k < 128 => Reads(Sent(held), [byte |-> KeyByte(k, down), scan |-> TRUE], Sent(after))
           /\ k >= 128 =>
                 LET mid == Unfinished(1, Sent(held))
                 IN  /\ Reads(Sent(held), [byte |-> PrefixE0, scan |-> TRUE], mid)
                     /\ Reads(mid, [byte |-> KeyByte(k, down), scan |-> TRUE], Sent(after))
<1>1. after \cap Collisions =
         IF k \notin Collisions THEN held \cap Collisions
         ELSE IF down THEN (held \cap Collisions) \cup {k} ELSE (held \cap Collisions) \ {k}
  OBVIOUS
<1>2. k \in Collisions /\ ~down => k \in held \cap Collisions
  OBVIOUS
<1>3. Sent(after) = [extended |-> 0,
                     collision |-> IF k \notin Collisions THEN held \cap Collisions
                                   ELSE IF down THEN (held \cap Collisions) \cup {k}
                                   ELSE (held \cap Collisions) \ {k},
                     down |-> IF down THEN held \cup {k} ELSE held \ {k}]
  BY <1>1 DEF Sent
<1>4. ASSUME NEW a, a.extended = (IF k < 128 THEN 0 ELSE 1),
             a.collision = held \cap Collisions, a.down = held,
             NEW x, x.byte = KeyByte(k, down), x.scan = TRUE
      PROVE  Reads(a, x, Sent(after))
  <2>1. ReadsKey(k, down, a, x, Sent(after))
    BY <1>2, <1>3, <1>4 DEF ReadsKey
  <2> QED BY <1>4, <2>1 DEF Reads
<1>5. ASSUME k < 128
      PROVE  Reads(Sent(held), [byte |-> KeyByte(k, down), scan |-> TRUE], Sent(after))
  <2>1. PICK a : a = Sent(held)
    OBVIOUS
  <2>2. PICK x : x = [byte |-> KeyByte(k, down), scan |-> TRUE]
    OBVIOUS
  <2>3. a.extended = 0 /\ a.collision = held \cap Collisions /\ a.down = held
    BY <2>1 DEF Sent
  <2>4. x.byte = KeyByte(k, down) /\ x.scan = TRUE
    BY <2>2
  <2>5. Reads(a, x, Sent(after))
    BY <1>4, <1>5, <2>3, <2>4
  <2> QED BY <2>1, <2>2, <2>5
<1>6. ASSUME k >= 128
      PROVE  LET mid == Unfinished(1, Sent(held))
             IN  /\ Reads(Sent(held), [byte |-> PrefixE0, scan |-> TRUE], mid)
                 /\ Reads(mid, [byte |-> KeyByte(k, down), scan |-> TRUE], Sent(after))
  <2>1. PICK a : a = Unfinished(1, Sent(held))
    OBVIOUS
  <2>2. PICK x : x = [byte |-> KeyByte(k, down), scan |-> TRUE]
    OBVIOUS
  <2>3. a.extended = 1 /\ a.collision = held \cap Collisions /\ a.down = held
    BY <2>1 DEF Sent, Unfinished
  <2>4. x.byte = KeyByte(k, down) /\ x.scan = TRUE
    BY <2>2
  <2>. a.extended = (IF k < 128 THEN 0 ELSE 1)
    BY <1>6, <2>3
  <2>5. Reads(a, x, Sent(after))
    BY <1>4, <2>3, <2>4
  <2>6. Reads(Sent(held), [byte |-> PrefixE0, scan |-> TRUE], a)
    BY <2>1 DEF Reads, Sent, PrefixE0
  <2> QED BY <2>1, <2>2, <2>5, <2>6
<1> QED BY <1>5, <1>6

\* What the invariant says of a state without a dropped key
LEMMA KeyboardFacts ==
    ASSUME KeyboardTypes, KeyboardInv, ~keys.lost
    PROVE  /\ decoder.release = FALSE /\ decoder.reinit = FALSE
           /\ \A c \in Opener : user[c].read \notin {"reinit", "rearm"}
           /\ Path(ec.buffer, Now, Sent(ec.held))
           /\ ec.buffer \in Seq(Byte) /\ ec.held \in SUBSET Key
BY DEF KeyboardInv, KeyboardTypes, EcState

LEMMA TypesInv ==
    ASSUME KeyboardTypes, KeyboardInv, NEW k \in Key, Types(k)
    PROVE  KeyboardInv'
<1>0. UNCHANGED <<decoder, slot, keys, opens, user>> /\ ~keys.lost
  BY DEF Types
<1>1. PICK down \in BOOLEAN : down = (k \notin ec.held)
  BY Zenon
<1>2. PICK after : after = IF down THEN ec.held \cup {k} ELSE ec.held \ {k}
  OBVIOUS
<1>3. ec'.buffer = ec.buffer \o ScanCode(k, down) /\ ec'.held = after
  BY <1>1, <1>2 DEF Types, KeyboardTypes, EcState
<1>4. k \in 1 .. 255
  BY KeyboardAssumption DEF KeyboardAssumption
<1>5. PICK buffer \in Seq(Byte) : buffer = ec.buffer
  BY <1>0, KeyboardFacts
<1>6. Path(buffer, Now, Sent(ec.held)) /\ ec.held \in SUBSET Key
  BY <1>0, <1>5, KeyboardFacts
<1>7. Path(ec'.buffer, Now, Sent(after))
  <2>1. PICK code : code = [byte |-> KeyByte(k, down), scan |-> TRUE]
    OBVIOUS
  <2>2. KeyByte(k, down) \in 0 .. 255
    BY <1>4 DEF KeyByte
  <2>. code \in Byte
    BY <2>1, <2>2 DEF Byte
  <2>3. CASE k < 128
    <3>1. ScanCode(k, down) = <<code>>
      BY <1>4, <2>1, <2>3, ScanCodeBytes DEF KeyByte
    <3>2. ec'.buffer = Append(buffer, code)
      BY <1>3, <1>5, <3>1, AppendIsConcat
    <3>3. Reads(Sent(ec.held), code, Sent(after))
      BY <1>1, <1>2, <1>4, <1>6, <2>1, <2>3, SentAfter
    <3> QED BY <1>6, <3>2, <3>3, PathAppend
  <2>4. CASE k >= 128
    <3>1. PICK prefix : prefix = [byte |-> PrefixE0, scan |-> TRUE]
      OBVIOUS
    <3>. prefix \in Byte
      BY <3>1 DEF Byte, PrefixE0
    <3>2. ScanCode(k, down) = <<prefix, code>>
      <4>1. KeyByte(k, down) = IF down THEN k - 128 ELSE k
        BY <1>4, <2>4 DEF KeyByte
      <4>2. ScanCode(k, down) = <<[byte |-> PrefixE0, scan |-> TRUE],
                                  [byte |-> IF down THEN k - 128 ELSE k, scan |-> TRUE]>>
        BY <1>4, <2>4, ScanCodeBytes
      <4> QED BY <2>1, <3>1, <4>1, <4>2
    <3>3. PICK half : half = Append(buffer, prefix)
      OBVIOUS
    <3>. half \in Seq(Byte)
      BY <3>3, AppendProperties
    <3>4. ec'.buffer = Append(half, code)
      <4>1. buffer \o <<prefix, code>> = Append(Append(buffer, prefix), code)
        OBVIOUS
      <4> QED BY <1>3, <1>5, <3>2, <3>3, <4>1
    <3>5. PICK mid : Reads(Sent(ec.held), prefix, mid) /\ Reads(mid, code, Sent(after))
      <4>1. PICK mid : mid = Unfinished(1, Sent(ec.held))
        OBVIOUS
      <4>2. Reads(Sent(ec.held), prefix, mid) /\ Reads(mid, code, Sent(after))
        BY <1>1, <1>2, <1>4, <1>6, <2>1, <2>4, <3>1, <4>1, SentAfter
      <4> QED BY <4>2
    <3>6. Path(half, Now, mid)
      BY <1>6, <3>3, <3>5, PathAppend
    <3> QED BY <3>4, <3>5, <3>6, PathAppend
  <2> QED BY <1>4, <2>3, <2>4
<1>8. Now' = Now
  BY <1>0 DEF Now, Reported
<1> QED BY <1>0, <1>3, <1>7, <1>8, KeyboardFacts DEF KeyboardInv

LEMMA TypesPauseInv ==
    ASSUME KeyboardTypes, KeyboardInv, TypesPause
    PROVE  KeyboardInv'
<1>0. UNCHANGED <<decoder, slot, keys, opens, user>> /\ ~keys.lost /\ ec.buffer = <<>> /\ ec.held = {}
  BY DEF TypesPause
<1>1. PICK b : b = [i \in 1 .. 6 |-> ScanByte(<<PrefixE1, 29, 69, PrefixE1, 157, 197>>[i])]
  OBVIOUS
<1>2. ec'.buffer = b /\ ec'.held = {}
  BY <1>0, <1>1 DEF TypesPause, KeyboardTypes, EcState
<1>3. /\ b[1] = ScanByte(225) /\ b[2] = ScanByte(29) /\ b[3] = ScanByte(69)
      /\ b[4] = ScanByte(225) /\ b[5] = ScanByte(157) /\ b[6] = ScanByte(197)
  BY <1>1 DEF PrefixE1
<1>4. Len(b) = 6
  BY <1>1
<1>5. Path(<<>>, Now, Sent({}))
  BY <1>0, KeyboardFacts
<1>6. Now = Sent({})
  BY <1>5, PathEmpty
<1> DEFINE a == Sent({})
           p == Unfinished(2, a)
           q == [extended |-> 0, collision |-> {}, down |-> {69}]
           r == Unfinished(2, q)
<1>7. /\ a = [extended |-> 0, collision |-> {}, down |-> {}]
      /\ p = [extended |-> 2, collision |-> {}, down |-> {}]
      /\ r = [extended |-> 2, collision |-> {}, down |-> {69}]
  BY DEF Sent, Unfinished
<1>8. Reads(a, ScanByte(225), p) /\ Reads(q, ScanByte(225), r)
  BY <1>7 DEF Reads, ScanByte, PrefixE1, PrefixE0
<1>9. Reads(p, ScanByte(29), a) /\ Reads(r, ScanByte(157), q)
  BY <1>7 DEF Reads, ScanByte, Unfinished
<1>10. Reads(a, ScanByte(69), q)
  <2>1. ReadsKey(69, TRUE, a, ScanByte(69), q)
    BY <1>7 DEF ReadsKey, ScanByte, KeyByte, Collisions
  <2> QED BY <2>1 DEF Reads, ScanByte
<1>11. Reads(q, ScanByte(197), a)
  <2>1. ReadsKey(69, FALSE, q, ScanByte(197), a)
    BY <1>7 DEF ReadsKey, ScanByte, KeyByte, Collisions
  <2> QED BY <2>1 DEF Reads, ScanByte
<1> HIDE DEF a, p, q, r
<1>12. PICK st : st = [i \in 0 .. 6 |-> IF i \in {0, 2, 6} THEN a ELSE IF i = 1 THEN p
                                        ELSE IF i = 4 THEN r ELSE q]
  OBVIOUS
<1>13. st[0] = a /\ st[1] = p /\ st[2] = a /\ st[3] = q /\ st[4] = r /\ st[5] = q /\ st[6] = a
  BY <1>12
<1>14. ASSUME NEW i \in 1 .. 6
       PROVE  Reads(st[i - 1], b[i], st[i])
  <2>1. CASE i = 1
    BY <1>3, <1>8, <1>13, <2>1
  <2>2. CASE i = 2
    BY <1>3, <1>9, <1>13, <2>2
  <2>3. CASE i = 3
    BY <1>3, <1>10, <1>13, <2>3
  <2>4. CASE i = 4
    BY <1>3, <1>8, <1>13, <2>4
  <2>5. CASE i = 5
    BY <1>3, <1>9, <1>13, <2>5
  <2>6. CASE i = 6
    BY <1>3, <1>11, <1>13, <2>6
  <2> QED BY <2>1, <2>2, <2>3, <2>4, <2>5, <2>6
<1>15. Leads(st, b, a, a)
  BY <1>4, <1>13, <1>14 DEF Leads
<1>16. Path(b, Sent({}), Sent({}))
  BY <1>15 DEF Path, a
<1>17. Now' = Now
  BY <1>0 DEF Now, Reported
<1> QED BY <1>0, <1>2, <1>6, <1>16, <1>17, KeyboardFacts DEF KeyboardInv

LEMMA AnswersByteInv ==
    ASSUME KeyboardTypes, KeyboardInv, AnswersByte
    PROVE  KeyboardInv'
<1>0. UNCHANGED <<decoder, slot, keys, opens, user>>
  BY DEF AnswersByte
<1>1. SUFFICES ASSUME ~keys.lost
               PROVE  KeyboardInv'
  BY <1>0 DEF KeyboardInv
<1>2. PICK answer \in {Ack, Resend} :
         ec' = [ec EXCEPT !.owed = @ - 1, !.buffer = Append(@, Response(answer))]
  BY DEF AnswersByte
<1>3. PICK x : x = Response(answer)
  OBVIOUS
<1>4. x \in Byte
  BY <1>2, <1>3 DEF Response, Byte, Ack, Resend
<1>5. ec'.buffer = Append(ec.buffer, x) /\ ec'.held = ec.held
  BY <1>2, <1>3 DEF KeyboardTypes, EcState
<1>6. Reads(Sent(ec.held), x, Sent(ec.held))
  BY <1>2, <1>3 DEF Reads, Response, Sent
<1>7. Path(ec.buffer, Now, Sent(ec.held)) /\ ec.buffer \in Seq(Byte)
  BY <1>1, KeyboardFacts
<1>8. Path(ec'.buffer, Now, Sent(ec.held))
  BY <1>4, <1>5, <1>6, <1>7, PathAppend
<1>9. Now' = Now
  BY <1>0 DEF Now, Reported
<1> QED BY <1>0, <1>1, <1>5, <1>8, <1>9, KeyboardFacts DEF KeyboardInv

LEMMA SpontaneousResetInv ==
    ASSUME KeyboardTypes, SpontaneousReset
    PROVE  KeyboardInv'
BY DEF SpontaneousReset, KeyboardTypes, KeysState, KeyboardInv

----------------------------------------------------------------------------
\* A step that leaves what was decoded and what waits in the buffer
SameKeys ==
    /\ ec'.buffer = ec.buffer /\ ec'.held = ec.held
    /\ decoder'.extended = decoder.extended /\ decoder'.release = decoder.release
    /\ decoder'.collision = decoder.collision
    /\ keys' = keys

LEMMA SameKeysInv ==
    ASSUME KeyboardTypes, KeyboardInv, SameKeys,
           ~keys.lost => decoder'.reinit = FALSE,
           ~keys.lost => \A c \in Opener : user'[c].read \notin {"reinit", "rearm"}
    PROVE  KeyboardInv'
<1>1. Now' = Now
  BY DEF Now, Reported, SameKeys
<1>2. SUFFICES ASSUME ~keys.lost
               PROVE  KeyboardInv'
  BY DEF KeyboardInv, SameKeys
<1> QED BY <1>1, <1>2, KeyboardFacts DEF KeyboardInv, SameKeys

\* A buffer that is drained either loses a key or held answers alone
LEMMA DrainInv ==
    ASSUME KeyboardTypes, KeyboardInv, Drained, ec'.buffer = <<>>, ec'.held = ec.held,
           ~keys.lost =>
              /\ decoder'.extended \in {0, decoder.extended}
              /\ decoder'.release = FALSE /\ decoder'.reinit = FALSE
              /\ decoder'.collision = decoder.collision
              /\ \A c \in Opener : user'[c].read \notin {"reinit", "rearm"}
    PROVE  KeyboardInv'
<1>1. SUFFICES ASSUME ~keys'.lost
               PROVE  KeyboardInv'
  BY DEF KeyboardInv
<1>2. /\ ~keys.lost /\ \A i \in DOMAIN ec.buffer : ~ec.buffer[i].scan
      /\ keys'.ring = keys.ring /\ keys'.down = keys.down
  BY <1>1 DEF Drained, KeyboardTypes, KeysState
<1>3. Path(ec.buffer, Now, Sent(ec.held)) /\ ec.buffer \in Seq(Byte)
  BY <1>2, KeyboardFacts
<1>4. Sent(ec.held) = Now
  BY <1>2, <1>3, PathQuiet
<1>5. decoder.extended = 0
  BY <1>4 DEF Sent, Now
<1>6. decoder'.extended = 0
  BY <1>2, <1>5
<1>7. Now' = Now
  BY <1>2, <1>5, <1>6 DEF Now, Reported
<1>8. Path(<<>>, Sent(ec.held), Sent(ec.held))
  BY PathEmpty
<1>9. Path(ec'.buffer, Now', Sent(ec'.held))
  BY <1>4, <1>7, <1>8
<1> QED BY <1>2, <1>9 DEF KeyboardInv

----------------------------------------------------------------------------
(* The interrupt.                                                          *)

\* The decoder and what it has reported after a step
Decodes(w) ==
    \/ keys'.lost
    \/ /\ decoder'.extended = w.extended /\ decoder'.collision = w.collision
       /\ decoder'.release = FALSE /\ decoder'.reinit = FALSE /\ ~keys'.lost
       /\ KeysAfter(keys'.ring, keys'.down) = w.down
       /\ \A c \in Opener : user'[c].read \notin {"reinit", "rearm"}

QuietDecoder ==
    /\ ~keys.lost /\ decoder.release = FALSE /\ decoder.reinit = FALSE
    /\ \A c \in Opener : user[c].read \notin {"reinit", "rearm"}

LEMMA IgnoredDecodes ==
    ASSUME KeyboardTypes, QuietDecoder, Ignored, NEW extended,
           \/ UNCHANGED decoder /\ extended = decoder.extended
           \/ \E e \in {0, 1, 2} : /\ decoder' = [decoder EXCEPT !.extended = e, !.release = FALSE]
                                   /\ extended = e
    PROVE  Decodes(Unfinished(extended, Now))
<1>1. /\ decoder'.extended = extended /\ decoder'.collision = decoder.collision
      /\ decoder'.release = FALSE /\ decoder'.reinit = FALSE
  BY DEF QuietDecoder, KeyboardTypes, DecoderState
<1>2. UNCHANGED <<keys, user>>
  BY DEF Ignored
<1>3. PICK w : w = Unfinished(extended, Now)
  OBVIOUS
<1>4. w.extended = extended /\ w.collision = decoder.collision
      /\ w.down = KeysAfter(keys.ring, keys.down)
  BY <1>3 DEF Unfinished, Now, Reported
<1>5. Decodes(w)
  BY <1>1, <1>2, <1>4 DEF Decodes, QuietDecoder
<1> QED BY <1>3, <1>5

LEMMA EnqueuedDecodes ==
    ASSUME KeyboardTypes, QuietDecoder, NEW key \in 0 .. 255, NEW down \in BOOLEAN,
           EnqueueKey(key, down), NEW w,
           decoder'.extended = w.extended, decoder'.collision = w.collision,
           decoder'.release = FALSE, decoder'.reinit = FALSE,
           w.down = IF down THEN Reported \cup {key} ELSE Reported \ {key}
    PROVE  Decodes(w)
<1>1. CASE Len(keys.ring) < KeyRingSize
  <2>1. PICK e : e = [key |-> key, down |-> down]
    OBVIOUS
  <2>2. e \in KeyEvent /\ e.key = key /\ e.down = down
    BY <2>1 DEF KeyEvent
  <2>3. keys' = [keys EXCEPT !.ring = Append(keys.ring, e)] /\ NotifyOne
    BY <1>1, <2>1 DEF EnqueueKey
  <2>4. keys.ring \in Seq(KeyEvent) /\ keys.down \in SUBSET (0 .. 255)
    BY DEF KeyboardTypes, KeysState
  <2>5. keys'.ring = Append(keys.ring, e) /\ keys'.down = keys.down /\ keys'.lost = keys.lost
    BY <2>3 DEF KeyboardTypes, KeysState
  <2>6. KeysAfter(keys'.ring, keys'.down) = w.down
    BY <2>2, <2>4, <2>5, KeysAfterAppend DEF Reported
  <2>7. \A c \in Opener : user'[c].read \notin {"reinit", "rearm"}
    <3>1. CASE Sleepers = {}
      BY <2>3, <3>1 DEF NotifyOne, QuietDecoder
    <3>2. CASE Sleepers # {}
      <4>1. PICK c \in Opener : user' = [user EXCEPT ![c].read = "ring"]
        BY <2>3, <3>2 DEF NotifyOne, Sleepers
      <4> QED BY <4>1 DEF QuietDecoder, KeyboardTypes, OpenerState
    <3> QED BY <3>1, <3>2
  <2> QED BY <2>5, <2>6, <2>7 DEF Decodes, QuietDecoder
<1>2. CASE ~(Len(keys.ring) < KeyRingSize)
  BY <1>2 DEF EnqueueKey, Decodes, KeyboardTypes, KeysState
<1> QED BY <1>1, <1>2

\* What is no byte of the protocol or comes from a key that was pressed
\* passes the questions of the decoder
Plain(key, down, b, code, pressed) ==
    /\ b \in 0 .. 255 /\ code \in 0 .. 127
    /\ b \notin {PrefixE0, PrefixE1, PrefixF0}
    /\ key \in Collisions /\ b >= 128 => code \in pressed
    /\ b \in {SelfTestPassed, Ack, Resend, Overrun} => key \in Collisions
    /\ b >= 128 <=> ~down
    /\ code = IF key < 128 THEN key ELSE key - 128
    /\ key \in Collisions <=> key < 128 /\ code \in Collisions

LEMMA KeyByteIsKey ==
    ASSUME NEW key \in 1 .. 255, Clear(key), NEW down \in BOOLEAN, NEW pressed,
           key \in Collisions /\ ~down => key \in pressed
    PROVE  Plain(key, down, KeyByte(key, down), KeyByte(key, down) % 128, pressed)
<1>0. PICK b : b = KeyByte(key, down)
  OBVIOUS
<1>00. PICK code : code = b % 128
  OBVIOUS
<1>1. b \in 0 .. 255 /\ (b >= 128 <=> ~down)
  BY <1>0 DEF KeyByte
<1>2. code \in 0 .. 127 /\ code = IF b < 128 THEN b ELSE b - 128
  BY <1>00, <1>1, CodeOfByte
<1>3. code = IF key < 128 THEN key ELSE key - 128
  BY <1>0, <1>1, <1>2 DEF KeyByte
<1>4. key \in Collisions <=> key < 128 /\ code \in Collisions
  BY <1>3, CollisionsArePlain
<1>5. key \in Collisions /\ b >= 128 => code \in pressed
  BY <1>1, <1>3, CollisionsArePlain
<1>6. b \in Protocol => b >= 128
  BY DEF Protocol, PrefixE0, PrefixE1, PrefixF0, Ack, Resend, SelfTestPassed, Overrun
<1>7. ASSUME b \in Protocol
      PROVE  key < 128 /\ key \in Collisions /\ b = key + 128
  BY <1>0, <1>1, <1>6, <1>7 DEF KeyByte, Clear
<1>8. b \notin {PrefixE0, PrefixE1, PrefixF0}
  BY <1>7 DEF Collisions, PrefixE0, PrefixE1, PrefixF0, Protocol
<1>9. b \in {SelfTestPassed, Ack, Resend, Overrun} => key \in Collisions
  BY <1>7 DEF Protocol
<1> QED BY <1>0, <1>00, <1>1, <1>2, <1>3, <1>4, <1>5, <1>8, <1>9 DEF Plain

LEMMA KeyDecodes ==
    ASSUME KeyboardTypes, QuietDecoder, NEW key \in 1 .. 255, Clear(key), NEW down \in BOOLEAN,
           NEW b, DecodeByte(b), NEW x, x.byte = b, NEW w, ReadsKey(key, down, Now, x, w)
    PROVE  Decodes(w)
<1> DEFINE code == b % 128
           isBreak == b >= 128
           collides == decoder.extended = 0 /\ code \in Collisions
           stray == collides /\ isBreak /\ code \notin decoder.collision
           sent == IF decoder.extended = 1 THEN code + 128 ELSE code
           done == [decoder EXCEPT
                      !.extended = 0, !.release = FALSE,
                      !.collision = IF ~collides THEN @
                                    ELSE IF isBreak THEN @ \ {code} ELSE @ \cup {code}]
<1>1. /\ Now.extended = decoder.extended /\ Now.collision = decoder.collision
      /\ Now.down = Reported
  BY DEF Now
<1>2. /\ decoder.extended = (IF key < 128 THEN 0 ELSE 1)
      /\ b = KeyByte(key, down)
      /\ w = [extended |-> 0,
              collision |-> IF key \notin Collisions THEN decoder.collision
                            ELSE IF down THEN decoder.collision \cup {key}
                            ELSE decoder.collision \ {key},
              down |-> IF down THEN Reported \cup {key} ELSE Reported \ {key}]
  BY <1>1 DEF ReadsKey
<1>3. key \in Collisions /\ ~down => key \in decoder.collision
  BY <1>1 DEF ReadsKey
<1>4. collides <=> key < 128 /\ code \in Collisions
  BY <1>2
<1>5. /\ b \in 0 .. 255 /\ code \in 0 .. 127
      /\ b \notin {PrefixE0, PrefixE1, PrefixF0}
      /\ ~stray
      /\ ~(b \in {SelfTestPassed, Ack, Resend, Overrun} /\ ~collides)
      /\ isBreak <=> ~down
      /\ code = IF key < 128 THEN key ELSE key - 128
      /\ collides <=> key \in Collisions
  <2>1. Plain(key, down, b, code, decoder.collision)
    BY <1>2, <1>3, KeyByteIsKey
  <2> HIDE DEF code
  <2>2. collides <=> key \in Collisions
    BY <1>4, <2>1 DEF Plain
  <2> HIDE DEF collides
  <2> QED BY <2>1, <2>2 DEF Plain
<1>6. decoder.extended # 2
  BY <1>2
<1>7. decoder' = done /\ EnqueueKey(sent, ~(isBreak \/ decoder.release))
  BY <1>5, <1>6 DEF DecodeByte
<1>8. sent = key
  BY <1>2, <1>5
<1>9. down = ~(isBreak \/ decoder.release)
  BY <1>5 DEF QuietDecoder
<1>10. EnqueueKey(key, down)
  BY <1>7, <1>8, <1>9
<1>11. /\ decoder'.extended = 0 /\ decoder'.release = FALSE /\ decoder'.reinit = FALSE
       /\ decoder'.collision = IF ~collides THEN decoder.collision
                               ELSE IF isBreak THEN decoder.collision \ {code}
                               ELSE decoder.collision \cup {code}
  BY <1>7 DEF QuietDecoder, KeyboardTypes, DecoderState
<1>12. decoder'.collision = IF key \notin Collisions THEN decoder.collision
                            ELSE IF down THEN decoder.collision \cup {key}
                            ELSE decoder.collision \ {key}
  <2>1. key \in Collisions => code = key
    BY <1>5, CollisionsArePlain
  <2> HIDE DEF collides, code, isBreak
  <2> QED BY <1>5, <1>11, <2>1
<1>13. /\ decoder'.extended = w.extended /\ decoder'.collision = w.collision
       /\ w.down = IF down THEN Reported \cup {key} ELSE Reported \ {key}
  BY <1>2, <1>11, <1>12
<1>14. key \in 0 .. 255
  OBVIOUS
<1> HIDE DEF done, sent, collides, code, isBreak, stray
<1> QED BY <1>10, <1>11, <1>13, <1>14, EnqueuedDecodes

LEMMA ByteDecodes ==
    ASSUME KeyboardTypes, QuietDecoder, \A key \in Key : Clear(key),
           NEW x \in Byte, DecodeByte(x.byte), NEW w, Reads(Now, x, w)
    PROVE  Decodes(w)
<1>0. Now.extended = decoder.extended
  BY DEF Now
<1>1. x.byte \in 0 .. 255
  BY DEF Byte
<1>2. CASE ~x.scan
  <2>1. x.byte \in {Ack, Resend} /\ decoder.extended = 0 /\ w = Now
    BY <1>0, <1>2 DEF Reads
  <2>2. x.byte % 128 = x.byte - 128 /\ x.byte \notin {PrefixE0, PrefixE1, PrefixF0, SelfTestPassed, Overrun}
    BY <1>1, <2>1, CodeOfByte
       DEF Ack, Resend, PrefixE0, PrefixE1, PrefixF0, SelfTestPassed, Overrun
  <2>3. x.byte % 128 \notin Collisions
    BY <2>1, <2>2 DEF Ack, Resend, Collisions
  <2>4. UNCHANGED decoder /\ Ignored
    BY <2>1, <2>2, <2>3 DEF DecodeByte
  <2>5. Decodes(Unfinished(decoder.extended, Now))
    BY <2>4, IgnoredDecodes
  <2>6. Unfinished(decoder.extended, Now) = Now
    BY DEF Unfinished, Now
  <2> QED BY <2>1, <2>5, <2>6
<1>3. CASE /\ x.scan /\ Now.extended = 0 /\ x.byte \in {PrefixE0, PrefixE1}
           /\ w = Unfinished(IF x.byte = PrefixE0 THEN 1 ELSE 2, Now)
  <2>1. PICK e : e = IF x.byte = PrefixE0 THEN 1 ELSE 2
    OBVIOUS
  <2>2. e \in {0, 1, 2}
    BY <2>1
  <2>3. decoder' = [decoder EXCEPT !.extended = e, !.release = FALSE] /\ Ignored
    BY <1>3, <2>1 DEF DecodeByte
  <2>4. Decodes(Unfinished(e, Now))
    BY <2>2, <2>3, IgnoredDecodes
  <2> QED BY <1>3, <2>1, <2>4
<1>4. CASE x.scan /\ Now.extended = 2 /\ x.byte \in {29, 157} /\ w = Unfinished(0, Now)
  <2>1. PICK e : e = 0
    OBVIOUS
  <2>2. e \in {0, 1, 2} /\ x.byte \notin {PrefixE0, PrefixE1}
    BY <1>4, <2>1 DEF PrefixE0, PrefixE1
  <2>3. decoder' = [decoder EXCEPT !.extended = e, !.release = FALSE] /\ Ignored
    BY <1>0, <1>4, <2>1, <2>2 DEF DecodeByte
  <2>4. Decodes(Unfinished(e, Now))
    BY <2>2, <2>3, IgnoredDecodes
  <2> QED BY <1>4, <2>1, <2>4
<1>5. CASE x.scan /\ \E key \in Key \cup {69}, down \in BOOLEAN : ReadsKey(key, down, Now, x, w)
  <2>1. PICK key \in Key \cup {69}, down \in BOOLEAN : ReadsKey(key, down, Now, x, w)
    BY <1>5
  <2>2. key \in 1 .. 255
    BY <2>1, KeyboardAssumption DEF KeyboardAssumption
  <2>3. Clear(69)
    BY DEF Clear, Protocol, PrefixE0, PrefixE1, PrefixF0, Ack, Resend, SelfTestPassed, Overrun
  <2>4. Clear(key)
    BY <2>1, <2>3
  <2> QED BY <2>1, <2>2, <2>4, KeyDecodes
<1> QED BY <1>2, <1>3, <1>4, <1>5 DEF Reads

LEMMA InterruptInv ==
    ASSUME KeyboardTypes, KeyboardInv, \A key \in Key : Clear(key), KeyboardInterrupt
    PROVE  KeyboardInv'
<1>1. ec.buffer \in Seq(Byte) /\ ec.buffer # <<>>
  BY DEF KeyboardTypes, EcState, KeyboardInterrupt
<1>2. PICK x : x = Head(ec.buffer)
  OBVIOUS
<1>3. x \in Byte
  BY <1>1, <1>2
<1>4. ec'.buffer = Tail(ec.buffer) /\ ec'.held = ec.held
  BY DEF KeyboardInterrupt, KeyboardTypes, EcState
<1>5. SUFFICES ASSUME ~keys'.lost
               PROVE  KeyboardInv'
  BY DEF KeyboardInv
<1>6. CASE slot.mode \/ ~decoder.decoding
  <2>1. keys' = [keys EXCEPT !.lost = keys.lost \/ x.scan] /\ UNCHANGED <<decoder, user>>
    BY <1>2, <1>6 DEF KeyboardInterrupt
  <2>2. ~keys.lost /\ ~x.scan /\ keys'.ring = keys.ring /\ keys'.down = keys.down
    BY <1>5, <2>1 DEF KeyboardTypes, KeysState
  <2>3. Path(ec.buffer, Now, Sent(ec.held))
    BY <2>2, KeyboardFacts
  <2>4. PICK w : Reads(Now, x, w) /\ Path(Tail(ec.buffer), w, Sent(ec.held))
    BY <1>1, <1>2, <2>3, PathTail
  <2>5. w = Now
    BY <2>2, <2>4 DEF Reads
  <2>6. Now' = Now
    BY <2>1, <2>2 DEF Now, Reported
  <2>7. Path(ec'.buffer, Now', Sent(ec'.held))
    BY <1>4, <2>4, <2>5, <2>6
  <2> QED BY <2>1, <2>2, <2>7, KeyboardFacts DEF KeyboardInv
<1>7. CASE ~slot.mode /\ decoder.decoding
  <2>1. DecodeByte(x.byte)
    BY <1>2, <1>7 DEF KeyboardInterrupt
  <2>2. ~keys.lost
    <3>1. keys'.lost \/ keys'.lost = keys.lost
      <4>1. Ignored \/ UNCHANGED keys \/ \E key, down : EnqueueKey(key, down)
        BY <2>1 DEF DecodeByte
      <4> QED BY <4>1 DEF Ignored, EnqueueKey, KeyboardTypes, KeysState
    <3> QED BY <1>5, <3>1
  <2>3. Path(ec.buffer, Now, Sent(ec.held)) /\ QuietDecoder
    BY <2>2, KeyboardFacts DEF QuietDecoder
  <2>4. PICK w : Reads(Now, x, w) /\ Path(Tail(ec.buffer), w, Sent(ec.held))
    BY <1>1, <1>2, <2>3, PathTail
  <2>5. Decodes(w)
    BY <1>3, <2>1, <2>3, <2>4, ByteDecodes
  <2>6. /\ decoder'.extended = w.extended /\ decoder'.collision = w.collision
        /\ KeysAfter(keys'.ring, keys'.down) = w.down
    BY <1>5, <2>5 DEF Decodes
  <2>7. Now' = [extended |-> w.extended, collision |-> w.collision, down |-> w.down]
    BY <2>6 DEF Now, Reported
  <2>8. w = [extended |-> w.extended, collision |-> w.collision, down |-> w.down]
    BY <2>4 DEF Reads, ReadsKey, Unfinished, Now
  <2>9. Path(ec'.buffer, Now', Sent(ec'.held))
    BY <1>4, <2>4, <2>7, <2>8
  <2> QED BY <1>5, <2>5, <2>9 DEF Decodes, KeyboardInv
<1> QED BY <1>6, <1>7

----------------------------------------------------------------------------
(* The steps of those that have it open.                                   *)

\* A thread that is brought, woken or stopped does not set the device up again
LEMMA UserStays ==
    ASSUME KeyboardTypes, NEW c \in Opener, NEW read \in {"no", "top", "ring", "doze", "asleep"},
           \A d \in Opener : user[d].read \notin {"reinit", "rearm"},
           \/ \E at : user' = [user EXCEPT ![c].at = at]
           \/ user' = [user EXCEPT ![c].read = read]
           \/ UNCHANGED user
    PROVE  \A d \in Opener : user'[d].read \notin {"reinit", "rearm"}
<1>0. user \in [Opener -> OpenerState]
  BY DEF KeyboardTypes
<1>1. CASE \E at : user' = [user EXCEPT ![c].at = at]
  BY <1>0, <1>1 DEF OpenerState
<1>2. CASE user' = [user EXCEPT ![c].read = read]
  BY <1>0, <1>2 DEF OpenerState
<1>3. CASE UNCHANGED user
  BY <1>3
<1> QED BY <1>1, <1>2, <1>3

LEMMA DeviceInv ==
    ASSUME KeyboardTypes, KeyboardInv, NEW c \in Opener,
           \/ Opens(c) \/ BringUpDevice(c) \/ ArmDevice(c)
           \/ Closes(c) \/ StopDecoding(c) \/ TearDownDevice(c)
    PROVE  KeyboardInv'
<1>1. ASSUME ~keys.lost
      PROVE  \A d \in Opener : user'[d].read \notin {"reinit", "rearm"}
  <2>1. \E at : user' = [user EXCEPT ![c].at = at]
    BY DEF Opens, BringUpDevice, ArmDevice, Closes, StopDecoding, TearDownDevice, Goes
  <2>2. \A d \in Opener : user[d].read \notin {"reinit", "rearm"}
    BY <1>1, KeyboardFacts
  <2> QED BY <2>1, <2>2, UserStays
<1>2. ~keys.lost => decoder.release = FALSE /\ decoder.reinit = FALSE
  BY KeyboardFacts
<1>3. CASE Opens(c) \/ Closes(c)
  <2>1. SameKeys /\ decoder'.reinit = decoder.reinit
    BY <1>3 DEF Opens, Closes, SameKeys
  <2> QED BY <1>1, <1>2, <2>1, SameKeysInv
<1>4. CASE ArmDevice(c)
  <2>1. SameKeys /\ decoder'.reinit = decoder.reinit
    BY <1>4 DEF ArmDevice, SameKeys, KeyboardTypes, EcState, DecoderState
  <2> QED BY <1>1, <1>2, <2>1, SameKeysInv
<1>5. CASE StopDecoding(c)
  <2>1. SameKeys /\ decoder'.reinit = decoder.reinit
    BY <1>5 DEF StopDecoding, SameKeys, KeyboardTypes, EcState, DecoderState
  <2> QED BY <1>1, <1>2, <2>1, SameKeysInv
<1>6. CASE BringUpDevice(c)
  <2>1. ec'.buffer = <<>> /\ ec'.held = ec.held
    BY <1>6 DEF BringUpDevice, KeyboardTypes, EcState
  <2>2. Drained /\ UNCHANGED decoder
    BY <1>6 DEF BringUpDevice
  <2>3. ~keys.lost =>
           /\ decoder'.extended \in {0, decoder.extended}
           /\ decoder'.release = FALSE /\ decoder'.reinit = FALSE
           /\ decoder'.collision = decoder.collision
           /\ \A d \in Opener : user'[d].read \notin {"reinit", "rearm"}
    BY <1>1, <1>2, <2>2
  <2> QED BY <2>1, <2>2, <2>3, DrainInv
<1>7. CASE TearDownDevice(c)
  <2>1. ec'.buffer = <<>> /\ ec'.held = ec.held
    BY <1>7 DEF TearDownDevice, KeyboardTypes, EcState
  <2>2. Drained /\ decoder' = [decoder EXCEPT !.extended = 0, !.release = FALSE]
    BY <1>7 DEF TearDownDevice
  <2>3. ~keys.lost =>
           /\ decoder'.extended \in {0, decoder.extended}
           /\ decoder'.release = FALSE /\ decoder'.reinit = FALSE
           /\ decoder'.collision = decoder.collision
           /\ \A d \in Opener : user'[d].read \notin {"reinit", "rearm"}
    BY <1>1, <1>2, <2>2 DEF KeyboardTypes, DecoderState
  <2> QED BY <2>1, <2>2, <2>3, DrainInv
<1> QED BY <1>3, <1>4, <1>5, <1>6, <1>7

LEMMA ReadInv ==
    ASSUME KeyboardTypes, KeyboardInv, NEW c \in Opener,
           \/ ReadKey(c) \/ ReadLooks(c) \/ ReadTakes(c) \/ ReadFindsNone(c)
           \/ ReadSleeps(c) \/ ReinitDevice(c) \/ RearmDevice(c)
    PROVE  KeyboardInv'
<1>1. ~keys.lost =>
         /\ decoder.release = FALSE /\ decoder.reinit = FALSE
         /\ \A d \in Opener : user[d].read \notin {"reinit", "rearm"}
  BY KeyboardFacts
<1>2. CASE ReadKey(c) \/ ReadFindsNone(c) \/ ReadSleeps(c) \/ ReadLooks(c)
  <2>1. SameKeys /\ decoder'.reinit = decoder.reinit
    BY <1>2 DEF ReadKey, ReadFindsNone, ReadSleeps, ReadLooks, SameKeys
  <2>2. ASSUME ~keys.lost
        PROVE  \E read \in {"no", "top", "ring", "doze", "asleep"} :
                  user' = [user EXCEPT ![c].read = read]
    <3>1. CASE ReadKey(c)
      BY <3>1 DEF ReadKey, Reading
    <3>2. CASE ReadFindsNone(c)
      BY <3>2 DEF ReadFindsNone, Reading
    <3>3. CASE ReadSleeps(c)
      BY <3>3 DEF ReadSleeps, Reading
    <3>4. CASE ReadLooks(c)
      BY <1>1, <2>2, <3>4 DEF ReadLooks, Reading
    <3> QED BY <1>2, <3>1, <3>2, <3>3, <3>4
  <2>3. ~keys.lost => \A d \in Opener : user'[d].read \notin {"reinit", "rearm"}
    BY <1>1, <2>2, UserStays
  <2> QED BY <1>1, <2>1, <2>3, SameKeysInv
<1>3. CASE ReadTakes(c)
  <2>1. keys.ring \in Seq(KeyEvent) /\ keys.ring # <<>> /\ keys.down \in SUBSET (0 .. 255)
    BY <1>3 DEF ReadTakes, KeyboardTypes, KeysState
  <2>2. PICK then : then = Taken(Head(keys.ring), keys.down)
    OBVIOUS
  <2>3. keys' = [keys EXCEPT !.ring = Tail(keys.ring), !.down = then]
    BY <1>3, <2>2 DEF ReadTakes, Taken
  <2>4. keys'.ring = Tail(keys.ring) /\ keys'.down = then /\ keys'.lost = keys.lost
    BY <2>3 DEF KeyboardTypes, KeysState
  <2>5. KeysAfter(keys'.ring, keys'.down) = KeysAfter(keys.ring, keys.down)
    BY <2>1, <2>2, <2>4, KeysAfterTail
  <2>6. UNCHANGED <<ec, decoder>> /\ user' = [user EXCEPT ![c].read = "no"]
    BY <1>3 DEF ReadTakes, Reading
  <2>7. Now' = Now
    BY <2>5, <2>6 DEF Now, Reported
  <2>8. SUFFICES ASSUME ~keys.lost
                 PROVE  KeyboardInv'
    BY <2>4 DEF KeyboardInv
  <2>9. \A d \in Opener : user'[d].read \notin {"reinit", "rearm"}
    BY <1>1, <2>6, <2>8, UserStays
  <2> QED BY <2>6, <2>7, <2>8, <2>9, KeyboardFacts DEF KeyboardInv
<1>4. CASE ReinitDevice(c)
  <2>1. keys.lost
    BY <1>1, <1>4 DEF ReinitDevice
  <2>2. keys'.lost
    BY <1>4, <2>1 DEF ReinitDevice, Drained, KeyboardTypes, KeysState
  <2> QED BY <2>2 DEF KeyboardInv
<1>5. CASE RearmDevice(c)
  <2>1. keys.lost
    BY <1>1, <1>5 DEF RearmDevice
  <2> QED BY <1>5, <2>1 DEF RearmDevice, KeyboardInv
<1> QED BY <1>2, <1>3, <1>4, <1>5

LEMMA CommandInv ==
    ASSUME KeyboardTypes, KeyboardInv, NEW c \in Opener,
           SetLeds(c) \/ WritesByte(c) \/ TakesAnswer(c) \/ AnswerTimesOut(c)
    PROVE  KeyboardInv'
<1>1. SameKeys /\ decoder'.reinit = decoder.reinit
  <2>1. CASE WritesByte(c)
    BY <2>1 DEF WritesByte, SameKeys, KeyboardTypes, EcState
  <2>2. CASE SetLeds(c) \/ TakesAnswer(c) \/ AnswerTimesOut(c)
    BY <2>2 DEF SetLeds, TakesAnswer, AnswerTimesOut, SameKeys
  <2> QED BY <2>1, <2>2
<1>2. ~keys.lost =>
         decoder.reinit = FALSE /\ \A d \in Opener : user[d].read \notin {"reinit", "rearm"}
  BY KeyboardFacts
<1>3. \A d \in Opener : user'[d].read = user[d].read
  <2>1. CASE SetLeds(c)
    BY <2>1 DEF SetLeds, KeyboardTypes, OpenerState
  <2>2. CASE WritesByte(c)
    BY <2>2 DEF WritesByte, KeyboardTypes, OpenerState
  <2>3. CASE TakesAnswer(c)
    BY <2>3 DEF TakesAnswer, EndsByte, KeyboardTypes, OpenerState
  <2>4. CASE AnswerTimesOut(c)
    BY <2>4 DEF AnswerTimesOut, EndsByte, KeyboardTypes, OpenerState
  <2> QED BY <2>1, <2>2, <2>3, <2>4
<1> QED BY <1>1, <1>2, <1>3, SameKeysInv

LEMMA KeyboardInvStep ==
    ASSUME KeyboardTypes, KeyboardInv, \A key \in Key : Clear(key), [KeyboardNext]_keyboardVars
    PROVE  KeyboardInv'
<1>1. CASE UNCHANGED keyboardVars
  <2>1. Now' = Now
    BY <1>1 DEF keyboardVars, Now, Reported
  <2> QED BY <1>1, <2>1 DEF keyboardVars, KeyboardInv
<1>2. CASE KeyboardNext
  BY <1>2, TypesInv, TypesPauseInv, AnswersByteInv, SpontaneousResetInv, InterruptInv,
     DeviceInv, ReadInv, CommandInv, Zenon DEF KeyboardNext
<1> QED BY <1>1, <1>2

----------------------------------------------------------------------------
\* Every variable keeps its type
THEOREM KeyboardTypeCorrect == KeyboardSpec => []KeyboardTypes
<1>1. KeyboardInit => KeyboardTypes
  BY KeyboardInitTypes
<1>2. KeyboardTypes /\ [KeyboardNext]_keyboardVars => KeyboardTypes'
  BY KeyboardTypesStep
<1> QED BY <1>1, <1>2, PTL DEF KeyboardSpec

\* As long as no byte of a key was dropped, what was reported once the buffer
\* is empty is what is held, for any keys none of whose bytes is one of the
\* protocol but for the releases that the driver knows
THEOREM KeysAgreeCorrect ==
    ASSUME \A key \in Key : Clear(key)
    PROVE  KeyboardSpec => []KeysAgree
<1> DEFINE Inv == KeyboardTypes /\ KeyboardInv
<1>1. KeyboardInit => Inv
  BY KeyboardInitTypes, KeyboardInitInv
<1>2. Inv /\ [KeyboardNext]_keyboardVars => Inv'
  <2>1. \A key \in Key : Clear(key)
    OBVIOUS
  <2> QED BY <2>1, KeyboardTypesStep, KeyboardInvStep
<1>3. Inv => KeysAgree
  <2> SUFFICES ASSUME Inv, ~keys.lost, ec.buffer = <<>>
               PROVE  Reported = ec.held
    BY DEF KeysAgree
  <2>1. Path(<<>>, Now, Sent(ec.held))
    BY KeyboardFacts
  <2>2. Sent(ec.held) = Now
    BY <2>1, PathEmpty
  <2> QED BY <2>2 DEF Sent, Now
<1> QED BY <1>1, <1>2, <1>3, PTL DEF KeyboardSpec

----------------------------------------------------------------------------
(* The touchpad: what a fold computes, step by step.                       *)

\* What holds of 0 and of every successor up to len holds of len
LEMMA CountingUp ==
    ASSUME NEW len \in Nat, NEW T, 0 \in T, \A n \in 1 .. len : n - 1 \in T => n \in T
    PROVE  len \in T
<1> SUFFICES ASSUME len \notin T PROVE FALSE
  OBVIOUS
<1> DEFINE S == {n \in 0 .. len : n \notin T}
<1>1. S # {} /\ S \subseteq Nat
  OBVIOUS
<1> HIDE DEF S
<1>2. PICK n \in S : \A m \in S : n <= m
  BY <1>1, LeastNatural
<1> USE DEF S
<1>3. n \in 1 .. len /\ n - 1 \in 0 .. len
  BY <1>2
<1>4. n - 1 \in T
  BY <1>2, <1>3
<1> QED  BY <1>2, <1>3, <1>4

LEMMA LastOfRange ==
    ASSUME NEW s, NEW n \in Nat, s \subseteq 1 .. n, n \in s
    PROVE  Max(s) = n
<1>1. \A x \in s : (\A y \in s : x >= y) => x = n
  OBVIOUS
<1>2. n \in s /\ \A y \in s : n >= y
  OBVIOUS
<1> QED  BY <1>1, <1>2 DEF Max

LEMMA LastInside ==
    ASSUME NEW n \in Nat, NEW s \in SUBSET (1 .. n), s # {}
    PROVE  Max(s) \in s
<1> DEFINE T == {k \in 0 .. n : \A u \in SUBSET (1 .. k) : u = {} \/ Max(u) \in u}
<1>1. 0 \in T
  OBVIOUS
<1>2. ASSUME NEW k \in 1 .. n, k - 1 \in T PROVE k \in T
  <2>1. ASSUME NEW u \in SUBSET (1 .. k), u # {} PROVE Max(u) \in u
    <3>1. CASE k \in u
      <4>1. k \in Nat /\ u \subseteq 1 .. k
        BY <2>1
      <4>2. Max(u) = k
        BY <3>1, <4>1, LastOfRange
      <4> QED  BY <3>1, <4>2
    <3>2. CASE k \notin u
      <4>1. u \in SUBSET (1 .. (k - 1))
        BY <3>2
      <4> QED  BY <1>2, <2>1, <4>1
    <3> QED  BY <3>1, <3>2
  <2> QED  BY <2>1
<1> HIDE DEF T
<1>3. n \in T
  BY <1>1, <1>2, CountingUp
<1> QED  BY <1>3 DEF T

\* The recursive function of a fold exists when its step stays in a set
FoldEquation(g, F, base, seq, n) ==
    g = [s \in SUBSET (1 .. n) |->
            IF s = {} THEN base ELSE F[<<g[s \ {Max(s)}], seq[Max(s)]>>]]

LEMMA FoldExists ==
    ASSUME NEW V, NEW X, NEW base \in V, NEW seq \in Seq(X), NEW F \in [V \X X -> V]
    PROVE  \E g \in [SUBSET (1 .. Len(seq)) -> V] : FoldEquation(g, F, base, seq, Len(seq))
<1> DEFINE T == {n \in 0 .. Len(seq) :
                    \E g \in [SUBSET (1 .. n) -> V] : FoldEquation(g, F, base, seq, n)}
<1>1. 0 \in T
  <2> DEFINE g == [s \in SUBSET (1 .. 0) |-> base]
  <2>1. g \in [SUBSET (1 .. 0) -> V]
    OBVIOUS
  <2>2. \A s \in SUBSET (1 .. 0) : s = {}
    OBVIOUS
  <2>3. FoldEquation(g, F, base, seq, 0)
    BY <2>2 DEF FoldEquation
  <2> QED  BY <2>1, <2>3
<1>2. ASSUME NEW n \in 1 .. Len(seq), n - 1 \in T PROVE n \in T
  <2>1. PICK f \in [SUBSET (1 .. (n - 1)) -> V] : FoldEquation(f, F, base, seq, n - 1)
    BY <1>2
  <2> DEFINE g == [s \in SUBSET (1 .. n) |->
                      IF n \in s THEN F[<<f[s \ {n}], seq[n]>>] ELSE f[s]]
  <2>2. \A s \in SUBSET (1 .. n) : s \ {n} \in SUBSET (1 .. (n - 1))
    OBVIOUS
  <2>3. \A s \in SUBSET (1 .. n) : n \notin s => s \in SUBSET (1 .. (n - 1))
    OBVIOUS
  <2>4. seq[n] \in X
    OBVIOUS
  <2>5. g \in [SUBSET (1 .. n) -> V]
    BY <2>2, <2>3, <2>4
  <2>6. ASSUME NEW s \in SUBSET (1 .. n)
        PROVE  g[s] = IF s = {} THEN base ELSE F[<<g[s \ {Max(s)}], seq[Max(s)]>>]
    <3>1. CASE n \in s
      <4>0. n \in Nat /\ s \subseteq 1 .. n
        OBVIOUS
      <4>1. Max(s) = n
        BY <3>1, <4>0, LastOfRange
      <4>2. g[s \ {n}] = f[s \ {n}]
        BY <2>2
      <4> QED  BY <3>1, <4>1, <4>2
    <3>2. CASE n \notin s /\ s # {}
      <4>0. s \in SUBSET (1 .. (n - 1)) /\ n - 1 \in Nat
        BY <2>3, <3>2
      <4>1. Max(s) \in s
        BY <3>2, <4>0, LastInside
      <4>2. f[s] = F[<<f[s \ {Max(s)}], seq[Max(s)]>>]
        <5>1. \A u \in SUBSET (1 .. (n - 1)) :
                 f[u] = IF u = {} THEN base ELSE F[<<f[u \ {Max(u)}], seq[Max(u)]>>]
          BY <2>1, Zenon DEF FoldEquation
        <5> QED  BY <3>2, <4>0, <5>1, Zenon
      <4>3. g[s] = f[s] /\ g[s \ {Max(s)}] = f[s \ {Max(s)}]
        BY <3>2, <4>1
      <4> QED  BY <3>2, <4>2, <4>3
    <3>3. CASE s = {}
      <4>1. f[{}] = base
        BY <2>1 DEF FoldEquation
      <4> QED  BY <3>3, <4>1
    <3> QED  BY <3>1, <3>2, <3>3
  <2>7. g = [s \in SUBSET (1 .. n) |->
                IF s = {} THEN base ELSE F[<<g[s \ {Max(s)}], seq[Max(s)]>>]]
    <3>1. g = [s \in SUBSET (1 .. n) |-> g[s]]
      OBVIOUS
    <3> HIDE DEF g
    <3> QED  BY <2>6, <3>1
  <2>8. FoldEquation(g, F, base, seq, n)
    BY <2>7 DEF FoldEquation
  <2> HIDE DEF g
  <2> QED  BY <2>5, <2>8
<1>3. Len(seq) \in T
  <2> HIDE DEF T
  <2> QED  BY <1>1, <1>2, CountingUp
<1> QED  BY <1>3

LEMMA LastRemoved ==
    ASSUME NEW n \in Nat, n # 0
    PROVE  1 .. n # {} /\ Max(1 .. n) = n /\ (1 .. n) \ {n} = 1 .. (n - 1)
<1>1. n \in 1 .. n
  OBVIOUS
<1>2. Max(1 .. n) = n
  BY <1>1, LastOfRange
<1> QED  BY <1>1, <1>2

\* What a fold computes after each element: h[n] after the first n
Runs(h, F, base, seq) ==
    /\ h[0] = base
    /\ \A n \in 1 .. Len(seq) : h[n] = F[<<h[n - 1], seq[n]>>]

LEMMA LastElement ==
    ASSUME NEW X, NEW seq \in Seq(X), NEW s \in SUBSET (1 .. Len(seq)), s # {}
    PROVE  s \ {Max(s)} \in SUBSET (1 .. Len(seq)) /\ seq[Max(s)] \in X
<1>1. Len(seq) \in Nat
  OBVIOUS
<1>2. Max(s) \in s
  BY <1>1, LastInside
<1>3. \A k \in s : seq[k] \in X
  OBVIOUS
<1> QED  BY <1>2, <1>3, Zenon

\* The values after each element of the function c that a fold chooses
Along(c, seq) == [n \in 0 .. Len(seq) |-> c[1 .. n]]

\* c solves the equation of the fold of F, as long as its values are in V
Chosen(c, F, base, seq, V) ==
    /\ c[{}] = base
    /\ \A s \in SUBSET (1 .. Len(seq)) :
           s # {} /\ c[s \ {Max(s)}] \in V =>
               c[s] = F[<<c[s \ {Max(s)}], seq[Max(s)]>>]

AlongRuns(c, F, base, seq, V) ==
    /\ Runs(Along(c, seq), F, base, seq)
    /\ \A n \in 0 .. Len(seq) : Along(c, seq)[n] \in V
    /\ c[1 .. Len(seq)] = Along(c, seq)[Len(seq)]

\* A function chosen by the equation of a fold runs as the fold does
LEMMA ChosenRuns ==
    ASSUME NEW V, NEW X, NEW base \in V, NEW seq \in Seq(X), NEW F \in [V \X X -> V],
           NEW c, Chosen(c, F, base, seq, V)
    PROVE  AlongRuns(c, F, base, seq, V)
<1> DEFINE h == [n \in 0 .. Len(seq) |-> c[1 .. n]]
<1>0. Len(seq) \in Nat /\ \A n \in 1 .. Len(seq) : seq[n] \in X
  OBVIOUS
<1>1. h[0] = base
  <2>1. 1 .. 0 = {}
    OBVIOUS
  <2> QED  BY <1>0, <2>1 DEF Chosen
<1>2. ASSUME NEW n \in 1 .. Len(seq), h[n - 1] \in V
      PROVE  h[n] = F[<<h[n - 1], seq[n]>>] /\ h[n] \in V
  <2>1. n \in Nat /\ n # 0 /\ n \in 0 .. Len(seq) /\ n - 1 \in 0 .. Len(seq)
    BY <1>0
  <2>2. 1 .. n # {} /\ Max(1 .. n) = n /\ (1 .. n) \ {n} = 1 .. (n - 1)
    BY <2>1, LastRemoved
  <2>3. 1 .. n \in SUBSET (1 .. Len(seq))
    BY <1>0
  <2>4. h[n] = c[1 .. n] /\ h[n - 1] = c[1 .. (n - 1)]
    BY <2>1
  <2> HIDE DEF h
  <2>5. h[n] = F[<<h[n - 1], seq[n]>>]
    BY <1>2, <2>2, <2>3, <2>4 DEF Chosen
  <2>6. <<h[n - 1], seq[n]>> \in V \X X
    BY <1>0, <1>2
  <2> QED  BY <2>5, <2>6
<1> HIDE DEF h
<1>3. \A n \in 0 .. Len(seq) : h[n] \in V
  <2> DEFINE T == {n \in 0 .. Len(seq) : h[n] \in V}
  <2>1. 0 \in T
    BY <1>0, <1>1
  <2>2. ASSUME NEW k \in 0 .. Len(seq) PROVE k \in T
    <3>1. ASSUME NEW n \in 1 .. k, n - 1 \in T PROVE n \in T
      <4>1. n \in 1 .. Len(seq) /\ n \in 0 .. Len(seq) /\ h[n - 1] \in V
        BY <1>0, <3>1
      <4>2. h[n] \in V
        BY <1>2, <4>1
      <4> QED  BY <4>1, <4>2
    <3>2. k \in Nat
      OBVIOUS
    <3> HIDE DEF T
    <3> QED  BY <2>1, <3>1, <3>2, CountingUp
  <2> QED  BY <2>2
<1>4. \A n \in 1 .. Len(seq) : n - 1 \in 0 .. Len(seq)
  BY <1>0
<1>5. Runs(h, F, base, seq)
  BY <1>1, <1>2, <1>3, <1>4 DEF Runs
<1>6. h = Along(c, seq)
  BY DEF h, Along
<1>7. c[1 .. Len(seq)] = h[Len(seq)] /\ h[Len(seq)] \in V
  BY <1>0, <1>3 DEF h
<1> QED  BY <1>3, <1>5, <1>6, <1>7 DEF AlongRuns



EngineState ==
    [active : SUBSET Slot, primary : Slot \cup {NoSlot}, button : BOOLEAN,
     snapshot : Frame, stable : Frame, stableRecent : BOOLEAN,
     candidate : Frame, candidateRecent : BOOLEAN, pending : Seq(Frame), ok : BOOLEAN]
Message == {m \in [kind : {"detect", "release", "restart", "press", "unpress"},
                   slot : Slot \cup {NoSlot}] :
               m.slot = NoSlot <=> m.kind \in {"press", "unpress"}}
TouchpadState == [fingers : SUBSET Slot, button : BOOLEAN, queue : Seq(Message)]
PumpState == [at : {"wait", "drain", "write"}, frames : Seq(Frame), stanza : BOOLEAN,
              was : BOOLEAN, reset : BOOLEAN]
EventState == [ring : Seq(Frame), written : Frame, read : Frame]

\* What the variables hold
TouchTypes ==
    /\ pad \in TouchpadState
    /\ touch \in EngineState
    /\ pump \in PumpState
    /\ events \in EventState

LEMMA SlotsAreNotNone == NoSlot \notin Slot /\ Slot \subseteq Nat
BY TouchAssumption DEF TouchAssumption, NoSlot

\* The operators keep the types of the engine
LEMMA NeutralFrame ==
    ASSUME NEW b \in BOOLEAN
    PROVE  Neutral(b) \in Frame /\ NoFrame \in Frame
BY DEF Neutral, NoFrame, Frame

LEMMA PrimaryIsThere ==
    ASSUME NEW e \in EngineState, e.active # {}
    PROVE  Primary(e) \in e.active
<1>1. e.active \subseteq Nat
  BY SlotsAreNotNone DEF EngineState
<1>2. \E s \in e.active : \A r \in e.active : s <= r
  BY <1>1, LeastNatural
<1>3. (CHOOSE s \in e.active : \A r \in e.active : s <= r) \in e.active
  BY <1>2
<1> QED BY <1>3 DEF Primary

LEMMA ContactsFrame ==
    ASSUME NEW e \in EngineState
    PROVE  /\ BuildCurrentContacts(e) \in Frame
           /\ BuildCurrentContacts(e).fingers = e.active
           /\ BuildCurrentContacts(e).button = FALSE
<1>1. CASE e.active = {}
  BY <1>1, NeutralFrame DEF BuildCurrentContacts, NoFrame, Neutral, Frame
<1>2. CASE e.active # {}
  <2>1. PICK p : p = Primary(e)
    OBVIOUS
  <2>2. p \in Slot \cup {NoSlot} /\ e.active \in SUBSET Slot
    BY <1>2, <2>1, PrimaryIsThere DEF EngineState
  <2>3. BuildCurrentContacts(e) = [fingers |-> e.active, at |-> p, button |-> FALSE]
    BY <1>2, <2>1 DEF BuildCurrentContacts
  <2> QED BY <2>2, <2>3 DEF Frame
<1> QED BY <1>1, <1>2

\* The fingers a frame of this engine shows
Showing(e) == IF Snapshotting(e) THEN e.snapshot.fingers ELSE e.active

LEMMA OutputFrame ==
    ASSUME NEW e \in EngineState
    PROVE  /\ BuildOutputState(e) \in Frame
           /\ BuildOutputState(e).fingers = Showing(e)
           /\ BuildOutputState(e).button = e.button
<1>1. PICK f : f = IF Snapshotting(e) THEN e.snapshot ELSE BuildCurrentContacts(e)
  OBVIOUS
<1>2. f \in Frame /\ f.fingers = Showing(e) /\ e.button \in BOOLEAN
  BY <1>1, ContactsFrame DEF EngineState, Showing
<1>3. BuildOutputState(e) = [f EXCEPT !.button = e.button]
  BY <1>1 DEF BuildOutputState
<1> QED BY <1>2, <1>3 DEF Frame

\* A step of the engine that leaves contacts and button, and what it keeps
LEMMA QueueStateKeeps ==
    ASSUME NEW e \in EngineState, NEW f \in Frame, NEW q, q = QueueState(e, f)
    PROVE  /\ q \in EngineState
           /\ q.active = e.active /\ q.button = e.button /\ q.snapshot = e.snapshot
           /\ q.ok => e.ok /\ q.pending # <<>> /\ Last(q.pending) = f
<1>1. e.pending \in Seq(Frame)
  BY DEF EngineState
<1>2. CASE e.pending # <<>> /\ Last(e.pending) = f
  BY <1>2 DEF QueueState
<1>3. CASE ~(e.pending # <<>> /\ Last(e.pending) = f) /\ Len(e.pending) >= FrameBatch
  <2>1. q = [e EXCEPT !.ok = FALSE]
    BY <1>3 DEF QueueState
  <2> QED BY <2>1 DEF EngineState
<1>4. CASE ~(e.pending # <<>> /\ Last(e.pending) = f) /\ ~(Len(e.pending) >= FrameBatch)
  <2>1. PICK p : p = Append(e.pending, f)
    OBVIOUS
  <2>2. p \in Seq(Frame) /\ p # <<>> /\ Last(p) = f
    BY <1>1, <2>1 DEF Last
  <2>3. q = [e EXCEPT !.pending = p]
    BY <1>4, <2>1 DEF QueueState
  <2> QED BY <2>2, <2>3 DEF EngineState
<1> QED BY <1>2, <1>3, <1>4

\* The slots of the fingers and of the button that are down, and a message
\* that changes one of them
Off == {"release", "unpress"}
Down(active, button) == active \cup IF button THEN {NoSlot} ELSE {}
DownAfter(down, m) == IF m.kind \in Off THEN down \ {m.slot} ELSE down \cup {m.slot}

\* What may become of the rest of the engine
Becomes(e, x, active, button) ==
    /\ x \in EngineState
    /\ x.ok => e.ok /\ x.active = active /\ x.button = button

LEMMA ExpireKeeps ==
    ASSUME NEW e \in EngineState
    PROVE  Becomes(e, ExpireClickCandidate(e), e.active, e.button)
<1>1. CASE e.candidateRecent
  BY <1>1 DEF ExpireClickCandidate, Becomes
<1>2. CASE ~e.candidateRecent
  <2>1. ExpireClickCandidate(e) = [e EXCEPT !.candidate = NoFrame]
    BY <1>2 DEF ExpireClickCandidate
  <2>2. NoFrame \in Frame
    BY NeutralFrame
  <2> QED BY <2>1, <2>2 DEF EngineState, Becomes
<1> QED BY <1>1, <1>2

LEMMA QueueBecomes ==
    ASSUME NEW e \in EngineState, NEW x \in EngineState, x.ok => e.ok, NEW f \in Frame
    PROVE  Becomes(e, QueueState(x, f), x.active, x.button)
BY QueueStateKeeps DEF Becomes

LEMMA ActivateBecomes ==
    ASSUME NEW e \in EngineState, NEW s \in Slot
    PROVE  Becomes(e, ActivateContact(e, s), e.active \cup {s}, e.button)
<1>1. PICK a : a = e.active \cup {s}
  OBVIOUS
<1>2. PICK c : c = IF s \notin e.active /\ e.active = {} THEN NoFrame ELSE e.candidate
  OBVIOUS
<1>3. PICK t : t = IF s \notin e.active /\ e.active = {} THEN NoFrame ELSE e.stable
  OBVIOUS
<1>4. ActivateContact(e, s) = [e EXCEPT !.active = a, !.candidate = c, !.stable = t]
  BY <1>1, <1>2, <1>3 DEF ActivateContact
<1>5. a \in SUBSET Slot /\ c \in Frame /\ t \in Frame
  BY <1>1, <1>2, <1>3, NeutralFrame DEF EngineState
<1>6. [e EXCEPT !.active = a, !.candidate = c, !.stable = t] \in EngineState
  BY <1>5 DEF EngineState
<1> QED BY <1>1, <1>4, <1>6 DEF Becomes, EngineState

LEMMA ReleaseBecomes ==
    ASSUME NEW e \in EngineState, NEW s \in Slot
    PROVE  Becomes(e, ReleaseContact(e, s), e.active \ {s}, e.button)
<1>1. CASE s \notin e.active
  <2>1. e.active \ {s} = e.active
    BY <1>1
  <2> QED BY <1>1, <2>1 DEF ReleaseContact, Becomes
<1>2. CASE s \in e.active
  <2> DEFINE c == IF Cardinality(e.active) < 2 THEN e
                  ELSE [e EXCEPT !.candidate = IF Many(e.stable) THEN e.stable
                                               ELSE BuildCurrentContacts(e),
                                 !.candidateRecent = TRUE]
             r == [c EXCEPT !.active = @ \ {s}]
             p == [r EXCEPT !.primary = NoSlot]
  <2>1. ReleaseContact(e, s) =
           IF s # e.primary THEN r ELSE IF Snapshotting(e) THEN p
           ELSE QueueState(p, Neutral(e.button))
    BY <1>2 DEF ReleaseContact
  <2>2. c \in EngineState /\ c.active = e.active /\ c.button = e.button /\ c.ok = e.ok
    <3>1. PICK d : d = IF Many(e.stable) THEN e.stable ELSE BuildCurrentContacts(e)
      OBVIOUS
    <3>2. d \in Frame
      BY <3>1, ContactsFrame DEF EngineState
    <3>3. c = IF Cardinality(e.active) < 2 THEN e
              ELSE [e EXCEPT !.candidate = d, !.candidateRecent = TRUE]
      BY <3>1
    <3> HIDE DEF c
    <3>4. CASE Cardinality(e.active) < 2
      BY <3>3, <3>4
    <3>5. CASE ~(Cardinality(e.active) < 2)
      <4>1. c = [e EXCEPT !.candidate = d, !.candidateRecent = TRUE]
        BY <3>3, <3>5
      <4> QED BY <3>2, <4>1 DEF EngineState
    <3> QED BY <3>4, <3>5
  <2> HIDE DEF c
  <2>3. r \in EngineState /\ r.active = e.active \ {s} /\ r.button = e.button /\ r.ok = e.ok
    <3>1. PICK a : a = e.active \ {s}
      OBVIOUS
    <3>2. a \in SUBSET Slot
      BY <3>1 DEF EngineState
    <3>3. r = [c EXCEPT !.active = a]
      BY <2>2, <3>1
    <3> HIDE DEF r
    <3> QED BY <2>2, <3>1, <3>2, <3>3 DEF EngineState
  <2> HIDE DEF r
  <2>4. p \in EngineState /\ p.active = e.active \ {s} /\ p.button = e.button /\ p.ok = e.ok
    BY <2>3 DEF EngineState
  <2> HIDE DEF p
  <2>5. CASE s # e.primary
    BY <2>1, <2>3, <2>5 DEF Becomes
  <2>6. CASE s = e.primary /\ Snapshotting(e)
    BY <2>1, <2>4, <2>6 DEF Becomes
  <2>7. CASE s = e.primary /\ ~Snapshotting(e)
    <3>1. PICK f : f = Neutral(e.button)
      OBVIOUS
    <3>2. f \in Frame
      BY <3>1, NeutralFrame DEF EngineState
    <3>3. ReleaseContact(e, s) = QueueState(p, f)
      BY <2>1, <2>7, <3>1
    <3>4. p.ok => e.ok
      BY <2>4
    <3>5. Becomes(e, QueueState(p, f), p.active, p.button)
      BY <2>4, <3>2, <3>4, QueueBecomes
    <3> QED BY <2>4, <3>3, <3>5
  <2> QED BY <2>5, <2>6, <2>7
<1> QED BY <1>1, <1>2

LEMMA PressedBecomes ==
    ASSUME NEW e \in EngineState
    PROVE  Becomes(e, ButtonPressed(e), e.active, TRUE)
<1>1. CASE e.button
  BY <1>1 DEF ButtonPressed, Becomes, EngineState
<1>2. CASE ~e.button
  <2> DEFINE p == [StartButtonSnapshot(e) EXCEPT !.button = TRUE]
  <2>1. PICK source : source =
           IF Many(e.candidate) THEN e.candidate
           ELSE IF Many(e.stable) /\ e.stableRecent THEN e.stable
           ELSE IF Many(BuildCurrentContacts(e)) THEN BuildCurrentContacts(e) ELSE NoFrame
    OBVIOUS
  <2>2. source \in Frame /\ NoFrame \in Frame
    BY <2>1, ContactsFrame, NeutralFrame DEF EngineState
  <2>3. PICK z : z = [e EXCEPT !.candidate = NoFrame, !.snapshot = source]
    OBVIOUS
  <2>4. StartButtonSnapshot(e) = z
    BY <2>1, <2>3 DEF StartButtonSnapshot
  <2>5. z \in EngineState /\ z.active = e.active /\ z.ok = e.ok
    BY <2>2, <2>3 DEF EngineState
  <2>6. p \in EngineState /\ p.active = e.active /\ p.button = TRUE /\ p.ok = e.ok
    BY <2>4, <2>5 DEF EngineState
  <2>7. ButtonPressed(e) = QueueState(p, BuildOutputState(p))
    BY <1>2 DEF ButtonPressed
  <2> HIDE DEF p
  <2>8. BuildOutputState(p) \in Frame
    BY <2>6, OutputFrame
  <2>9. Becomes(e, QueueState(p, BuildOutputState(p)), p.active, p.button)
    BY <2>6, <2>8, QueueBecomes
  <2> QED BY <2>6, <2>7, <2>9
<1> QED BY <1>1, <1>2

LEMMA ReleasedBecomes ==
    ASSUME NEW e \in EngineState
    PROVE  Becomes(e, ButtonReleased(e), e.active, FALSE)
<1>1. CASE ~e.button
  BY <1>1 DEF ButtonReleased, Becomes, EngineState
<1>2. CASE e.button
  <2> DEFINE r == [e EXCEPT !.button = FALSE, !.candidate = NoFrame]
             s == [r EXCEPT !.snapshot = NoFrame, !.primary = NoSlot, !.stable = NoFrame]
  <2>0. NoFrame \in Frame
    BY NeutralFrame
  <2>1. r \in EngineState /\ r.active = e.active /\ r.button = FALSE /\ r.ok = e.ok
    BY <2>0 DEF EngineState
  <2>2. ButtonReleased(e) = IF e.snapshot # NoFrame THEN QueueState(s, NoFrame)
                            ELSE QueueState(r, BuildOutputState(r))
    BY <1>2 DEF ButtonReleased
  <2> HIDE DEF r
  <2>3. s \in EngineState /\ s.active = e.active /\ s.button = FALSE /\ s.ok = e.ok
    BY <2>0, <2>1 DEF EngineState
  <2> HIDE DEF s
  <2>4. Becomes(e, QueueState(s, NoFrame), s.active, s.button)
    BY <2>0, <2>3, QueueBecomes
  <2>5. BuildOutputState(r) \in Frame
    BY <2>1, OutputFrame
  <2>6. Becomes(e, QueueState(r, BuildOutputState(r)), r.active, r.button)
    BY <2>1, <2>5, QueueBecomes
  <2> QED BY <2>1, <2>2, <2>3, <2>4, <2>6
<1> QED BY <1>1, <1>2

LEMMA BecomesTwice ==
    ASSUME NEW e, NEW x, NEW y, NEW a, NEW b, NEW c, NEW d,
           Becomes(e, x, a, b), x.ok => Becomes(x, y, c, d), y.ok => x.ok, y \in EngineState
    PROVE  Becomes(e, y, c, d)
BY DEF Becomes

\* A message changes the slot it names, unless the engine has failed
LEMMA ProcessBecomes ==
    ASSUME NEW e \in EngineState, NEW m \in Message, NEW x, x = ProcessMessage(e, m)
    PROVE  /\ x \in EngineState
           /\ x.ok => /\ e.ok
                      /\ Down(x.active, x.button) = DownAfter(Down(e.active, e.button), m)
<1>1. CASE ~e.ok
  BY <1>1 DEF ProcessMessage
<1>2. CASE e.ok
  <2>1. PICK c : c = ExpireClickCandidate(e)
    OBVIOUS
  <2>2. Becomes(e, c, e.active, e.button)
    BY <2>1, ExpireKeeps
  <2>3. c \in EngineState /\ (c.ok => e.ok /\ c.active = e.active /\ c.button = e.button)
    BY <2>2 DEF Becomes
  <2>4. x = CASE m.kind = "detect"  -> ActivateContact(c, m.slot)
              [] m.kind = "release" -> ReleaseContact(c, m.slot)
              [] m.kind = "restart" ->
                   IF ReleaseContact(c, m.slot).ok
                   THEN ActivateContact(ReleaseContact(c, m.slot), m.slot)
                   ELSE ReleaseContact(c, m.slot)
              [] m.kind = "press"   -> ButtonPressed(c)
              [] OTHER              -> ButtonReleased(c)
    BY <1>2, <2>1 DEF ProcessMessage
  <2>5. /\ m.kind \in {"detect", "release", "restart"} => m.slot \in Slot
        /\ m.kind \in {"press", "unpress"} => m.slot = NoSlot
    BY DEF Message
  <2>6. CASE m.kind = "detect"
    <3>1. Becomes(c, x, c.active \cup {m.slot}, c.button)
      BY <2>3, <2>4, <2>5, <2>6, ActivateBecomes
    <3> QED BY <2>3, <2>6, <3>1 DEF Becomes, Down, DownAfter, Off
  <2>7. CASE m.kind = "release"
    <3>1. Becomes(c, x, c.active \ {m.slot}, c.button)
      BY <2>3, <2>4, <2>5, <2>7, ReleaseBecomes
    <3>2. m.slot # NoSlot
      BY <2>5, <2>7, SlotsAreNotNone
    <3> QED BY <2>3, <2>7, <3>1, <3>2 DEF Becomes, Down, DownAfter, Off
  <2>8. CASE m.kind = "restart"
    <3>1. PICK r : r = ReleaseContact(c, m.slot)
      OBVIOUS
    <3>2. Becomes(c, r, c.active \ {m.slot}, c.button)
      BY <2>3, <2>5, <2>8, <3>1, ReleaseBecomes
    <3>3. x = IF r.ok THEN ActivateContact(r, m.slot) ELSE r
      BY <2>4, <2>8, <3>1
    <3>4. Becomes(r, ActivateContact(r, m.slot), r.active \cup {m.slot}, r.button)
      BY <2>5, <2>8, <3>2, ActivateBecomes DEF Becomes
    <3>5. x \in EngineState
      BY <3>2, <3>3, <3>4 DEF Becomes
    <3>6. ASSUME x.ok
          PROVE  e.ok /\ x.active = e.active \cup {m.slot} /\ x.button = e.button
      <4>1. r.ok /\ x = ActivateContact(r, m.slot)
        BY <3>3, <3>6
      <4>2. x.active = r.active \cup {m.slot} /\ x.button = r.button
        BY <3>4, <3>6, <4>1 DEF Becomes
      <4>3. r.active = c.active \ {m.slot} /\ r.button = c.button /\ c.ok
        BY <3>2, <4>1 DEF Becomes
      <4>4. c.active = e.active /\ c.button = e.button
        BY <2>3, <4>3
      <4> QED BY <1>2, <4>2, <4>3, <4>4
    <3> QED BY <2>8, <3>5, <3>6 DEF Down, DownAfter, Off
  <2>9. CASE m.kind = "press"
    <3>1. Becomes(c, x, c.active, TRUE)
      BY <2>3, <2>4, <2>9, PressedBecomes
    <3> QED BY <2>3, <2>5, <2>9, <3>1 DEF Becomes, Down, DownAfter, Off
  <2>10. CASE m.kind = "unpress"
    <3>1. Becomes(c, x, c.active, FALSE)
      BY <2>3, <2>4, <2>10, ReleasedBecomes
    <3>2. NoSlot \notin e.active
      BY SlotsAreNotNone DEF EngineState
    <3> QED BY <2>3, <2>5, <2>10, <3>1, <3>2 DEF Becomes, Down, DownAfter, Off
  <2> QED BY <2>6, <2>7, <2>8, <2>9, <2>10 DEF Message
<1> QED BY <1>1, <1>2

\* The engine after each message of a queue
Solves(f, e, queue) ==
    f = [s \in SUBSET (1 .. Len(queue)) |->
            IF s = {} THEN e ELSE ProcessMessage(f[s \ {Max(s)}], queue[Max(s)])]
Steps(st, e, queue) ==
    /\ st[0] = e
    /\ \A n \in 0 .. Len(queue) : st[n] \in EngineState
    /\ \A n \in 1 .. Len(queue) : st[n] = ProcessMessage(st[n - 1], queue[n])
    /\ FoldLeft(ProcessMessage, e, queue) = st[Len(queue)]

LEMMA QueueSteps ==
    ASSUME NEW e \in EngineState, NEW queue \in Seq(Message)
    PROVE  \E st : Steps(st, e, queue)
<1> DEFINE F == [p \in EngineState \X Message |-> ProcessMessage(p[1], p[2])]
<1>1. F \in [EngineState \X Message -> EngineState]
  BY ProcessBecomes
<1>2. \A x \in EngineState, m \in Message : F[<<x, m>>] = ProcessMessage(x, m)
  OBVIOUS
<1> HIDE DEF F
<1>3. PICK f \in [SUBSET (1 .. Len(queue)) -> EngineState] :
         FoldEquation(f, F, e, queue, Len(queue))
  BY <1>1, FoldExists
<1>4. Solves(f, e, queue)
  <2>1. ASSUME NEW s \in SUBSET (1 .. Len(queue)), s # {}
        PROVE  F[<<f[s \ {Max(s)}], queue[Max(s)]>>]
                   = ProcessMessage(f[s \ {Max(s)}], queue[Max(s)])
    BY <1>2, <2>1, LastElement
  <2> QED BY <1>3, <2>1, Zenon DEF FoldEquation, Solves
<1> DEFINE c == CHOOSE g : Solves(g, e, queue)
<1>5. DOMAIN queue = 1 .. Len(queue)
  OBVIOUS
<1>6. FoldLeft(ProcessMessage, e, queue) = c[1 .. Len(queue)]
  <2>1. FoldLeft(ProcessMessage, e, queue) =
            (CHOOSE g : g = [s \in SUBSET DOMAIN queue |->
                IF s = {} THEN e
                ELSE ProcessMessage(g[s \ {Max(s)}], queue[Max(s)])])[DOMAIN queue]
    BY Zenon DEF FoldLeft, MapThenFoldSet
  <2> QED BY <1>5, <2>1, Zenon DEF Solves
<1>7. Solves(c, e, queue)
  BY <1>4, Zenon
<1> HIDE DEF c
<1>8. c[{}] = e /\ \A s \in SUBSET (1 .. Len(queue)) :
          s # {} => c[s] = ProcessMessage(c[s \ {Max(s)}], queue[Max(s)])
  <2>1. \A s \in SUBSET (1 .. Len(queue)) :
            c[s] = IF s = {} THEN e ELSE ProcessMessage(c[s \ {Max(s)}], queue[Max(s)])
    BY <1>7, Zenon DEF Solves
  <2>2. {} \in SUBSET (1 .. Len(queue))
    OBVIOUS
  <2> QED BY <2>1, <2>2, Zenon
<1>9. Chosen(c, F, e, queue, EngineState)
  BY <1>2, <1>8, LastElement DEF Chosen
<1>10. PICK st : st = Along(c, queue)
  OBVIOUS
<1>11. /\ Runs(st, F, e, queue)
       /\ \A n \in 0 .. Len(queue) : st[n] \in EngineState
       /\ c[1 .. Len(queue)] = st[Len(queue)]
  <2>1. /\ Runs(Along(c, queue), F, e, queue)
        /\ \A n \in 0 .. Len(queue) : Along(c, queue)[n] \in EngineState
        /\ c[1 .. Len(queue)] = Along(c, queue)[Len(queue)]
    <3>1. PICK G \in [EngineState \X Message -> EngineState] : G = F
      BY <1>1
    <3>2. PICK d : d = c
      OBVIOUS
    <3>3. Chosen(d, G, e, queue, EngineState)
      BY <1>9, <3>1, <3>2
    <3>4. AlongRuns(d, G, e, queue, EngineState)
      BY <3>3, ChosenRuns
    <3> QED BY <3>1, <3>2, <3>4 DEF AlongRuns
  <2> QED BY <1>10, <2>1
<1>12. ASSUME NEW n \in 1 .. Len(queue)
       PROVE  st[n] = ProcessMessage(st[n - 1], queue[n])
  <2>1. n - 1 \in 0 .. Len(queue) /\ queue[n] \in Message
    OBVIOUS
  <2>2. st[n - 1] \in EngineState /\ st[n] = F[<<st[n - 1], queue[n]>>]
    BY <1>11, <2>1 DEF Runs
  <2> QED BY <1>2, <2>1, <2>2
<1> QED BY <1>6, <1>11, <1>12 DEF Steps, Runs

----------------------------------------------------------------------------
(* What waits in the queue and what the engine holds.                      *)

\* The last message about a slot says what is there
LastTells(queue, there) ==
    \A i \in 1 .. Len(queue) :
        (\A j \in 1 .. Len(queue) : j > i => queue[j].slot # queue[i].slot) =>
            (queue[i].slot \in there <=> queue[i].kind \notin Off)

\* A slot that no message after the first n is about is held by the engine only if
\* it is there, and exactly then if nothing was reset
RestIsHeld(n, queue, down, there, reset) ==
    \A s \in Slot \cup {NoSlot} :
        (\A j \in 1 .. Len(queue) : j > n => queue[j].slot # s) =>
            /\ s \in down => s \in there
            /\ ~reset => (s \in down <=> s \in there)

LEMMA HeldStep ==
    ASSUME NEW queue \in Seq(Message), NEW there, NEW reset \in BOOLEAN,
           LastTells(queue, there), NEW n \in 1 .. Len(queue), NEW down, NEW then,
           RestIsHeld(n - 1, queue, down, there, reset), then = DownAfter(down, queue[n])
    PROVE  RestIsHeld(n, queue, then, there, reset)
<1> SUFFICES ASSUME NEW s \in Slot \cup {NoSlot},
                    \A j \in 1 .. Len(queue) : j > n => queue[j].slot # s
             PROVE  /\ s \in then => s \in there
                    /\ ~reset => (s \in then <=> s \in there)
  BY DEF RestIsHeld
<1>1. CASE queue[n].slot = s
  <2>1. s \in there <=> queue[n].kind \notin Off
    BY <1>1 DEF LastTells
  <2>2. s \in then <=> queue[n].kind \notin Off
    BY <1>1 DEF DownAfter
  <2> QED BY <2>1, <2>2
<1>2. CASE queue[n].slot # s
  <2>1. \A j \in 1 .. Len(queue) : j > n - 1 => queue[j].slot # s
    <3>1. ASSUME NEW j \in 1 .. Len(queue), j > n - 1
          PROVE  queue[j].slot # s
      <4>1. j = n \/ j > n
        BY <3>1
      <4> QED BY <1>2, <4>1
    <3> QED BY <3>1
  <2>2. (s \in down => s \in there) /\ (~reset => (s \in down <=> s \in there))
    BY <2>1 DEF RestIsHeld
  <2>3. s \in then <=> s \in down
    BY <1>2 DEF DownAfter
  <2> QED BY <2>2, <2>3
<1> QED BY <1>1, <1>2

\* An engine that has read the whole queue without an error
LEMMA QueueRead ==
    ASSUME NEW e \in EngineState, NEW queue \in Seq(Message), NEW there,
           NEW reset \in BOOLEAN, LastTells(queue, there),
           RestIsHeld(0, queue, Down(e.active, e.button), there, reset),
           NEW x, x = FoldLeft(ProcessMessage, e, queue)
    PROVE  /\ x \in EngineState
           /\ x.ok => RestIsHeld(Len(queue), queue, Down(x.active, x.button), there, reset)
<1>1. PICK st : Steps(st, e, queue)
  BY QueueSteps
<1>2. PICK len \in Nat : len = Len(queue)
  OBVIOUS
<1>3. /\ st[0] = e /\ x = st[len]
      /\ \A n \in 0 .. len : st[n] \in EngineState
      /\ \A n \in 1 .. len : st[n] = ProcessMessage(st[n - 1], queue[n])
  BY <1>1, <1>2 DEF Steps
<1> DEFINE T == {n \in 0 .. len : st[n].ok =>
                     RestIsHeld(n, queue, Down(st[n].active, st[n].button), there, reset)}
<1>4. 0 \in T
  BY <1>3
<1>5. ASSUME NEW n \in 1 .. len, n - 1 \in T
      PROVE  n \in T
  <2>1. n - 1 \in 0 .. len /\ n \in 0 .. len /\ n \in 1 .. Len(queue)
    BY <1>2
  <2>2. queue[n] \in Message
    BY <2>1
  <2>3. st[n - 1] \in EngineState /\ st[n] = ProcessMessage(st[n - 1], queue[n])
    BY <1>3, <2>1
  <2>4. st[n].ok => /\ st[n - 1].ok
                    /\ Down(st[n].active, st[n].button)
                          = DownAfter(Down(st[n - 1].active, st[n - 1].button), queue[n])
    BY <2>2, <2>3, ProcessBecomes
  <2>5. st[n - 1].ok =>
           RestIsHeld(n - 1, queue, Down(st[n - 1].active, st[n - 1].button), there, reset)
    BY <1>5
  <2>6. st[n].ok => RestIsHeld(n, queue, Down(st[n].active, st[n].button), there, reset)
    BY <2>1, <2>4, <2>5, HeldStep
  <2> QED BY <2>1, <2>6
<1> HIDE DEF T
<1>6. len \in T
  BY <1>4, <1>5, CountingUp
<1>7. len \in 0 .. len
  OBVIOUS
<1> QED BY <1>2, <1>3, <1>6, <1>7 DEF T

LEMMA FlushKeeps ==
    ASSUME NEW e \in EngineState, NEW q, q = Flush(e)
    PROVE  /\ q \in EngineState
           /\ q.ok => /\ e.ok /\ q.active = e.active /\ q.button = e.button
                      /\ q.pending # <<>>
                      /\ Last(q.pending).fingers = Showing(q)
                      /\ Last(q.pending).button = q.button
<1> DEFINE final == BuildOutputState(e)
           p == IF Snapshotting(e) \/ e.active = {} THEN e.primary ELSE Primary(e)
           z == [e EXCEPT !.primary = p]
           u == QueueState(z, final)
<1>1. final \in Frame /\ final.fingers = Showing(e) /\ final.button = e.button
  BY OutputFrame
<1>2. p \in Slot \cup {NoSlot}
  BY PrimaryIsThere DEF EngineState
<1> HIDE DEF p
<1>3. z \in EngineState /\ z.active = e.active /\ z.button = e.button
      /\ z.snapshot = e.snapshot /\ z.ok = e.ok
  BY <1>2 DEF EngineState
<1>4. q = IF ~e.ok \/ ~u.ok \/ final.button THEN u
          ELSE [u EXCEPT !.stable = final, !.stableRecent = final # NoFrame,
                         !.candidate = IF Many(final) THEN NoFrame ELSE @]
  BY DEF Flush, p
<1> HIDE DEF final, z, u
<1>5. /\ u \in EngineState
      /\ u.active = z.active /\ u.button = z.button /\ u.snapshot = z.snapshot
      /\ u.ok => z.ok /\ u.pending # <<>> /\ Last(u.pending) = final
  BY <1>1, <1>3, QueueStateKeeps DEF u
<1>6. /\ q \in EngineState
      /\ q.active = u.active /\ q.button = u.button /\ q.snapshot = u.snapshot
      /\ q.pending = u.pending /\ q.ok = u.ok
  <2>1. PICK recent : recent = (final # NoFrame)
    OBVIOUS
  <2>2. PICK c : c = IF Many(final) THEN NoFrame ELSE u.candidate
    OBVIOUS
  <2>3. recent \in BOOLEAN
    BY <2>1
  <2>4. c \in Frame
    BY <1>5, <2>2, NeutralFrame DEF EngineState
  <2>5. CASE q = u
    BY <1>5, <2>5
  <2>6. CASE q = [u EXCEPT !.stable = final, !.stableRecent = recent, !.candidate = c]
    BY <1>1, <1>5, <2>3, <2>4, <2>6 DEF EngineState
  <2> QED BY <1>4, <2>1, <2>2, <2>5, <2>6
<1>7. Showing(q) = Showing(e)
  BY <1>3, <1>5, <1>6 DEF Showing, Snapshotting
<1> QED BY <1>1, <1>3, <1>5, <1>6, <1>7

----------------------------------------------------------------------------
(* The invariant.                                                          *)

There == Down(pad.fingers, pad.button)

\* What waits in the pad's queue is the rest of what the engine does not hold
QueueInv ==
    /\ LastTells(pad.queue, There)
    /\ RestIsHeld(0, pad.queue, Down(touch.active, touch.button), There, pump.reset)

\* The last frame still to be written shows what the engine holds
FramesInv ==
    pump.at = "write" =>
        /\ pump.frames # <<>>
        /\ Last(pump.frames).button = touch.button
        /\ Last(pump.frames).fingers = Showing(touch)

\* What was written is what the worker remembers of it, and once every frame is
\* written it is what the engine holds
WrittenInv ==
    /\ events.written.button = pump.was
    /\ pump.stanza <=> events.written.fingers # {}
    /\ pump.at # "write" => /\ events.written.button = touch.button
                            /\ events.written.fingers = Showing(touch)

\* The last frame in the ring is the last one written
RingInv ==
    /\ events.ring = <<>> => events.read = events.written
    /\ events.ring # <<>> => Last(events.ring) = events.written

TouchInv == QueueInv /\ FramesInv /\ WrittenInv /\ RingInv

LEMMA TellsAppend ==
    ASSUME NEW queue \in Seq(Message), NEW m \in Message, NEW there,
           LastTells(queue, there), NEW then, then = DownAfter(there, m),
           NEW q, q = Append(queue, m)
    PROVE  LastTells(q, then)
<1>1. PICK len \in Nat : len = Len(queue)
  OBVIOUS
<1>2. Len(q) = len + 1 /\ q[len + 1] = m /\ \A i \in 1 .. len : q[i] = queue[i]
  BY <1>1
<1> SUFFICES ASSUME NEW i \in 1 .. Len(q),
                    \A j \in 1 .. Len(q) : j > i => q[j].slot # q[i].slot
             PROVE  q[i].slot \in then <=> q[i].kind \notin Off
  BY Zenon DEF LastTells
<1>3. CASE i = len + 1
  BY <1>2, <1>3 DEF DownAfter
<1>4. CASE i \in 1 .. len
  <2>1. q[i] = queue[i] /\ q[i].slot # m.slot
    BY <1>2, <1>4
  <2>2. \A j \in 1 .. len : j > i => queue[j].slot # queue[i].slot
    BY <1>2, <1>4
  <2>3. queue[i].slot \in there <=> queue[i].kind \notin Off
    BY <1>1, <1>4, <2>2 DEF LastTells
  <2> QED BY <2>1, <2>3 DEF DownAfter
<1> QED BY <1>2, <1>3, <1>4

LEMMA HeldAppend ==
    ASSUME NEW queue \in Seq(Message), NEW m \in Message, NEW there, NEW down,
           NEW reset \in BOOLEAN, RestIsHeld(0, queue, down, there, reset),
           NEW then, then = DownAfter(there, m), NEW q, q = Append(queue, m)
    PROVE  RestIsHeld(0, q, down, then, reset)
<1>1. PICK len \in Nat : len = Len(queue)
  OBVIOUS
<1>2. Len(q) = len + 1 /\ q[len + 1] = m /\ \A i \in 1 .. len : q[i] = queue[i]
  BY <1>1
<1> SUFFICES ASSUME NEW s \in Slot \cup {NoSlot},
                    \A j \in 1 .. Len(q) : j > 0 => q[j].slot # s
             PROVE  /\ s \in down => s \in then
                    /\ ~reset => (s \in down <=> s \in then)
  BY DEF RestIsHeld
<1>3. m.slot # s /\ \A j \in 1 .. len : j > 0 => queue[j].slot # s
  BY <1>2
<1>4. (s \in down => s \in there) /\ (~reset => (s \in down <=> s \in there))
  BY <1>1, <1>3 DEF RestIsHeld
<1>5. s \in then <=> s \in there
  BY <1>3 DEF DownAfter
<1> QED BY <1>4, <1>5

LEMMA SuffixTells ==
    ASSUME NEW queue \in Seq(Message), NEW there, LastTells(queue, there),
           NEW n \in 0 .. Len(queue), NEW q, q = SubSeq(queue, n + 1, Len(queue))
    PROVE  q \in Seq(Message) /\ LastTells(q, there)
<1>1. PICK len \in Nat : len = Len(queue)
  OBVIOUS
<1>2. q \in Seq(Message) /\ Len(q) = len - n /\ \A i \in 1 .. len - n : q[i] = queue[i + n]
  BY <1>1
<1> SUFFICES ASSUME NEW i \in 1 .. Len(q),
                    \A j \in 1 .. Len(q) : j > i => q[j].slot # q[i].slot
             PROVE  q[i].slot \in there <=> q[i].kind \notin Off
  BY <1>2, Zenon DEF LastTells
<1>3. PICK k : k = i + n
  OBVIOUS
<1>4. k \in 1 .. len /\ q[i] = queue[k]
  BY <1>1, <1>2, <1>3
<1>5. \A j \in 1 .. len : j > k => queue[j].slot # queue[k].slot
  <2>1. ASSUME NEW j \in 1 .. len, j > k
        PROVE  queue[j].slot # queue[k].slot
    <3>1. j - n \in 1 .. len - n /\ j - n > i /\ (j - n) + n = j
      BY <1>1, <1>3, <2>1
    <3>2. q[j - n] = queue[j]
      BY <1>2, <3>1
    <3> QED BY <1>2, <1>4, <3>1, <3>2
  <2> QED BY <2>1
<1>6. queue[k].slot \in there <=> queue[k].kind \notin Off
  BY <1>1, <1>4, <1>5 DEF LastTells
<1> QED BY <1>4, <1>6

LEMMA NothingHeld ==
    ASSUME NEW queue, NEW there
    PROVE  RestIsHeld(0, queue, {}, there, TRUE)
BY DEF RestIsHeld

LEMMA HeadTailLast ==
    ASSUME NEW s \in Seq(Frame), s # <<>>
    PROVE  /\ Head(s) \in Frame /\ Tail(s) \in Seq(Frame)
           /\ Tail(s) = <<>> => Head(s) = Last(s)
           /\ Tail(s) # <<>> => Last(Tail(s)) = Last(s)
<1>1. PICK n \in Nat : n = Len(s)
  OBVIOUS
<1>2. n > 0 /\ Len(Tail(s)) = n - 1 /\ \A i \in 1 .. n - 1 : Tail(s)[i] = s[i + 1]
  BY <1>1
<1>3. CASE n = 1
  <2>1. Head(s) = Last(s)
    BY <1>1, <1>3 DEF Last
  <2>2. Len(Tail(s)) = 0 /\ Tail(s) \in Seq(Frame)
    BY <1>2, <1>3, HeadTailProperties
  <2>3. Tail(s) = <<>>
    BY <2>2, EmptySeq, Zenon
  <2> QED BY <1>2, <2>1, <2>2, <2>3, HeadTailProperties
<1>4. CASE n > 1
  <2>1. n - 1 \in 1 .. n - 1 /\ Tail(s)[n - 1] = s[n]
    BY <1>2, <1>4
  <2>2. Last(Tail(s)) = s[n] /\ Tail(s) # <<>>
    BY <1>2, <1>4, <2>1 DEF Last
  <2> QED BY <1>1, <2>2 DEF Last
<1> QED BY <1>2, <1>3, <1>4

LEMMA RingWritten ==
    ASSUME events \in EventState, NEW frame \in Frame, RingWrite(frame)
    PROVE  events' \in EventState /\ events'.written = frame /\ RingInv'
<1>1. PICK kept : kept = IF Len(events.ring) >= RingCapacity THEN Tail(events.ring)
                         ELSE events.ring
  OBVIOUS
<1>2. RingCapacity \in Nat \ {0}
  BY TouchAssumption DEF TouchAssumption
<1>3. kept \in Seq(Frame)
  <2>1. events.ring \in Seq(Frame)
    BY DEF EventState
  <2>2. Len(events.ring) >= RingCapacity => events.ring # <<>>
    BY <1>2, <2>1
  <2> QED BY <1>1, <2>1, <2>2
<1>4. PICK r : r = Append(kept, frame)
  OBVIOUS
<1>5. r \in Seq(Frame) /\ r # <<>> /\ Last(r) = frame
  BY <1>3, <1>4 DEF Last
<1>6. events' = [events EXCEPT !.written = frame, !.ring = r]
  BY <1>1, <1>4 DEF RingWrite
<1>7. events' \in EventState /\ events'.written = frame /\ events'.ring = r
  BY <1>5, <1>6 DEF EventState
<1> QED BY <1>5, <1>7 DEF RingInv

LEMMA ReportChanges ==
    ASSUME TouchTypes, NEW kind, NEW place, Reports(kind, place), NEW m \in Message,
           m = [kind |-> kind, slot |-> place], kind = "restart" => place \in pad.fingers,
           kind = "unpress" => place = NoSlot
    PROVE  /\ pad' \in TouchpadState /\ pad'.queue = Append(pad.queue, m)
           /\ There' = DownAfter(There, m)
<1>1. PICK f : f = CASE kind = "detect" -> pad.fingers \cup {place}
                     [] kind = "release" -> pad.fingers \ {place}
                     [] OTHER -> pad.fingers
  OBVIOUS
<1>2. PICK b : b = IF kind \in {"press", "unpress"} THEN kind = "press" ELSE pad.button
  OBVIOUS
<1>3. PICK q : q = Append(pad.queue, m)
  OBVIOUS
<1>4. pad' = [pad EXCEPT !.queue = q, !.fingers = f, !.button = b]
  BY <1>1, <1>2, <1>3 DEF Reports
<1>5. /\ pad.fingers \in SUBSET Slot /\ pad.button \in BOOLEAN /\ pad.queue \in Seq(Message)
  BY DEF TouchTypes, TouchpadState
<1>6. /\ m.kind = kind /\ m.slot = place
      /\ kind \in {"detect", "release", "restart", "press", "unpress"}
      /\ place \in Slot \cup {NoSlot} /\ (place = NoSlot <=> kind \in {"press", "unpress"})
  BY DEF Message
<1>7. f \in SUBSET Slot
  BY <1>1, <1>5, <1>6
<1>8. b \in BOOLEAN
  BY <1>2, <1>5
<1>9. q \in Seq(Message)
  BY <1>3, <1>5
<1>10. /\ pad' \in TouchpadState
       /\ pad'.queue = q /\ pad'.fingers = f /\ pad'.button = b
  BY <1>4, <1>7, <1>8, <1>9 DEF TouchTypes, TouchpadState
<1>11. NoSlot \notin Slot
  BY SlotsAreNotNone
<1>12. Down(f, b) = DownAfter(Down(pad.fingers, pad.button), m)
  <2>1. CASE kind = "detect"
    BY <1>1, <1>2, <1>6, <2>1 DEF Down, DownAfter, Off
  <2>2. CASE kind = "release"
    BY <1>1, <1>2, <1>5, <1>6, <1>11, <2>2 DEF Down, DownAfter, Off
  <2>3. CASE kind = "restart"
    BY <1>1, <1>2, <1>6, <2>3 DEF Down, DownAfter, Off
  <2>4. CASE kind = "press"
    BY <1>1, <1>2, <1>6, <2>4 DEF Down, DownAfter, Off
  <2>5. CASE kind = "unpress"
    BY <1>1, <1>2, <1>5, <1>6, <1>11, <2>5 DEF Down, DownAfter, Off
  <2> QED BY <1>6, <2>1, <2>2, <2>3, <2>4, <2>5
<1> QED BY <1>3, <1>10, <1>12 DEF There

LEMMA ReportStep ==
    ASSUME TouchTypes, TouchInv, NEW kind, NEW place, Reports(kind, place),
           NEW m \in Message, m = [kind |-> kind, slot |-> place],
           kind = "restart" => place \in pad.fingers, kind = "unpress" => place = NoSlot,
           UNCHANGED <<touch, pump, events>>
    PROVE  TouchTypes' /\ TouchInv'
<1>1. /\ pad' \in TouchpadState /\ pad'.queue = Append(pad.queue, m)
      /\ There' = DownAfter(There, m)
  BY ReportChanges
<1>2. TouchTypes'
  BY <1>1 DEF TouchTypes
<1>3. pad.queue \in Seq(Message) /\ pump.reset \in BOOLEAN
  BY DEF TouchTypes, TouchpadState, PumpState
<1>4. LastTells(pad'.queue, There')
  BY <1>1, <1>3, TellsAppend DEF TouchInv, QueueInv
<1>5. PICK down : down = Down(touch.active, touch.button)
  OBVIOUS
<1>6. RestIsHeld(0, pad.queue, down, There, pump.reset)
  BY <1>5 DEF TouchInv, QueueInv
<1>7. RestIsHeld(0, pad'.queue, down, There', pump.reset)
  BY <1>1, <1>3, <1>6, HeldAppend
<1>8. QueueInv'
  BY <1>4, <1>5, <1>7 DEF QueueInv
<1>9. FramesInv' /\ WrittenInv' /\ RingInv'
  BY DEF TouchInv, FramesInv, WrittenInv, RingInv, Showing, Snapshotting
<1> QED BY <1>2, <1>8, <1>9 DEF TouchInv

LEMMA TouchedStep ==
    ASSUME TouchTypes, TouchInv, Touched
    PROVE  TouchTypes' /\ TouchInv'
<1>0. UNCHANGED <<touch, pump, events>> /\ pad.fingers \in SUBSET Slot
  BY DEF Touched, TouchTypes, TouchpadState
<1>1. ASSUME NEW s \in Slot, NEW kind \in {"detect", "release", "restart"},
             Reports(kind, s), kind = "restart" => s \in pad.fingers
      PROVE  TouchTypes' /\ TouchInv'
  <2>1. PICK m : m = [kind |-> kind, slot |-> s]
    OBVIOUS
  <2>2. s # NoSlot
    BY SlotsAreNotNone
  <2>3. m \in Message
    BY <2>1, <2>2 DEF Message
  <2> QED BY <1>0, <1>1, <2>1, <2>3, ReportStep
<1>2. ASSUME NEW kind \in {"press", "unpress"}, Reports(kind, NoSlot)
      PROVE  TouchTypes' /\ TouchInv'
  <2>1. PICK m : m = [kind |-> kind, slot |-> NoSlot]
    OBVIOUS
  <2>2. m \in Message
    BY <2>1 DEF Message
  <2>3. PICK s : s = NoSlot
    OBVIOUS
  <2>4. Reports(kind, s) /\ m = [kind |-> kind, slot |-> s]
    BY <1>2, <2>1, <2>3
  <2>5. kind = "restart" => s \in pad.fingers
    OBVIOUS
  <2> QED BY <1>0, <2>2, <2>3, <2>4, <2>5, ReportStep
<1>3. CASE \E s \in Slot \ pad.fingers : Reports("detect", s)
  <2>1. PICK kind \in {"detect"} : TRUE
    OBVIOUS
  <2>2. PICK s \in Slot : Reports(kind, s)
    BY <1>3, <2>1
  <2> QED BY <1>1, <2>1, <2>2
<1>4. CASE \E s \in pad.fingers : Reports("release", s)
  <2>1. PICK kind \in {"release"} : TRUE
    OBVIOUS
  <2>2. PICK s \in Slot : Reports(kind, s)
    BY <1>0, <1>4, <2>1
  <2> QED BY <1>1, <2>1, <2>2
<1>5. CASE \E s \in pad.fingers : Reports("restart", s)
  <2>1. PICK kind \in {"restart"} : TRUE
    OBVIOUS
  <2>2. PICK s \in Slot : s \in pad.fingers /\ Reports(kind, s)
    BY <1>0, <1>5, <2>1
  <2> QED BY <1>1, <2>1, <2>2
<1>6. CASE Reports(IF pad.button THEN "unpress" ELSE "press", NoSlot)
  <2>1. PICK kind : kind = IF pad.button THEN "unpress" ELSE "press"
    OBVIOUS
  <2>2. kind \in {"press", "unpress"} /\ Reports(kind, NoSlot)
    BY <1>6, <2>1
  <2> QED BY <1>2, <2>2
<1> QED BY <1>3, <1>4, <1>5, <1>6 DEF Touched

LEMMA ClickStep ==
    ASSUME TouchTypes, TouchInv, ClickCorrelationEnds
    PROVE  TouchTypes' /\ TouchInv'
<1>1. touch' = [touch EXCEPT !.stableRecent = FALSE, !.candidateRecent = FALSE]
      /\ UNCHANGED <<pad, pump, events>>
  BY DEF ClickCorrelationEnds
<1>2. /\ touch' \in EngineState /\ touch'.active = touch.active
      /\ touch'.button = touch.button /\ touch'.snapshot = touch.snapshot
  BY <1>1 DEF TouchTypes, EngineState
<1>3. Showing(touch') = Showing(touch)
  BY <1>2 DEF Showing, Snapshotting
<1>4. TouchTypes'
  BY <1>1, <1>2 DEF TouchTypes
<1>5. QueueInv'
  BY <1>1, <1>2, Zenon DEF TouchInv, QueueInv, There
<1>6. FramesInv' /\ WrittenInv' /\ RingInv'
  BY <1>1, <1>2, <1>3 DEF TouchInv, FramesInv, WrittenInv, RingInv
<1> QED BY <1>4, <1>5, <1>6 DEF TouchInv

LEMMA InterruptStep ==
    ASSUME TouchTypes, TouchInv, MxtInterrupt
    PROVE  TouchTypes' /\ TouchInv'
<1>1. pump.at = "wait" /\ pump' = [pump EXCEPT !.at = "drain"]
      /\ UNCHANGED <<pad, touch, events>>
  BY DEF MxtInterrupt
<1>2. /\ pump' \in PumpState /\ pump'.at = "drain" /\ pump'.stanza = pump.stanza
      /\ pump'.was = pump.was /\ pump'.reset = pump.reset
  BY <1>1 DEF TouchTypes, PumpState
<1>3. TouchTypes'
  BY <1>1, <1>2 DEF TouchTypes
<1>4. QueueInv'
  BY <1>1, <1>2, Zenon DEF TouchInv, QueueInv, There
<1>5. FramesInv' /\ WrittenInv' /\ RingInv'
  BY <1>1, <1>2 DEF TouchInv, FramesInv, WrittenInv, RingInv, Showing, Snapshotting
<1> QED BY <1>3, <1>4, <1>5 DEF TouchInv

LEMMA ResetEngine ==
    /\ EngineReset \in EngineState
    /\ EngineReset.active = {} /\ EngineReset.button = FALSE
    /\ Down(EngineReset.active, EngineReset.button) = {}
    /\ Showing(EngineReset) = {}
<1>1. NoFrame \in Frame
  BY NeutralFrame
<1>2. <<>> \in Seq(Frame)
  OBVIOUS
<1> QED BY <1>1, <1>2 DEF EngineReset, EngineState, Down, Showing, Snapshotting

LEMMA FailureStep ==
    ASSUME TouchTypes, TouchInv, pump.at = "drain", DrainFails,
           pad' \in TouchpadState, There' = There, LastTells(pad'.queue, There)
    PROVE  TouchTypes' /\ TouchInv'
<1>1. touch' = EngineReset
      /\ pump' = [pump EXCEPT !.at = "wait", !.stanza = FALSE, !.was = FALSE, !.reset = TRUE]
  BY DEF DrainFails
<1>2. /\ touch' \in EngineState /\ touch'.button = FALSE /\ Showing(touch') = {}
      /\ Down(touch'.active, touch'.button) = {}
  BY <1>1, ResetEngine
<1>3. /\ pump' \in PumpState /\ pump'.at = "wait" /\ pump'.stanza = FALSE
      /\ pump'.was = FALSE /\ pump'.reset = TRUE
  BY <1>1 DEF TouchTypes, PumpState
<1>4. RestIsHeld(0, pad'.queue, {}, There', TRUE)
  BY NothingHeld
<1>5. QueueInv'
  BY <1>2, <1>3, <1>4 DEF QueueInv
<1>6. NoFrame \in Frame /\ NoFrame.fingers = {} /\ NoFrame.button = FALSE
  BY NeutralFrame DEF NoFrame, Neutral
<1>7. /\ events' \in EventState /\ RingInv'
      /\ events'.written.fingers = {} /\ events'.written.button = FALSE
  <2>1. CASE pump.stanza \/ pump.was
    BY <1>6, <2>1, RingWritten DEF DrainFails, TouchTypes
  <2>2. CASE ~(pump.stanza \/ pump.was)
    <3>1. UNCHANGED events
      BY <2>2 DEF DrainFails
    <3>2. pump.was = FALSE
      BY <2>2 DEF TouchTypes, PumpState
    <3>3. events.written.fingers = {} /\ events.written.button = FALSE
      BY <2>2, <3>2 DEF TouchInv, WrittenInv
    <3> QED BY <3>1, <3>3 DEF TouchTypes, TouchInv, RingInv
  <2> QED BY <2>1, <2>2
<1>8. WrittenInv' /\ FramesInv'
  BY <1>2, <1>3, <1>7 DEF WrittenInv, FramesInv
<1> QED BY <1>2, <1>3, <1>5, <1>7, <1>8 DEF TouchTypes, TouchInv

LEMMA FlushedStep ==
    ASSUME TouchTypes, TouchInv, pump.at = "drain",
           NEW x, x = FoldLeft(ProcessMessage, touch, pad.queue),
           NEW flushed, flushed = Flush(x), flushed.ok,
           pad' = [pad EXCEPT !.queue = <<>>],
           touch' = [flushed EXCEPT !.pending = <<>>],
           pump' = [pump EXCEPT !.at = "write", !.frames = flushed.pending],
           UNCHANGED events
    PROVE  TouchTypes' /\ TouchInv'
<1>1. /\ pad.queue \in Seq(Message) /\ pump.reset \in BOOLEAN /\ touch \in EngineState
      /\ <<>> \in Seq(Message) /\ <<>> \in Seq(Frame)
  BY DEF TouchTypes, TouchpadState, PumpState
<1>2. PICK there : there = There
  OBVIOUS
<1>3. /\ LastTells(pad.queue, there)
      /\ RestIsHeld(0, pad.queue, Down(touch.active, touch.button), there, pump.reset)
  BY <1>2 DEF TouchInv, QueueInv
<1>4. /\ x \in EngineState
      /\ x.ok => RestIsHeld(Len(pad.queue), pad.queue, Down(x.active, x.button), there, pump.reset)
  BY <1>1, <1>3, QueueRead
<1>5. /\ flushed \in EngineState
      /\ x.ok /\ flushed.active = x.active /\ flushed.button = x.button
      /\ flushed.pending # <<>>
      /\ Last(flushed.pending).fingers = Showing(flushed)
      /\ Last(flushed.pending).button = flushed.button
  BY <1>4, FlushKeeps
<1>6. /\ touch' \in EngineState /\ touch'.active = x.active /\ touch'.button = x.button
      /\ touch'.snapshot = flushed.snapshot
  BY <1>1, <1>5 DEF EngineState
<1>7. Showing(touch') = Showing(flushed)
  BY <1>5, <1>6 DEF Showing, Snapshotting
<1>8. /\ pad' \in TouchpadState /\ pad'.queue = <<>> /\ pad'.fingers = pad.fingers
      /\ pad'.button = pad.button
  BY <1>1 DEF TouchTypes, TouchpadState
<1>9. There' = there
  BY <1>2, <1>8 DEF There
<1>10. /\ pump' \in PumpState /\ pump'.at = "write" /\ pump'.frames = flushed.pending
       /\ pump'.stanza = pump.stanza /\ pump'.was = pump.was /\ pump'.reset = pump.reset
  BY <1>5 DEF TouchTypes, PumpState, EngineState
<1>11. TouchTypes'
  BY <1>6, <1>8, <1>10 DEF TouchTypes
<1>12. LastTells(<<>>, there)
  BY DEF LastTells
<1>13. PICK down : down = Down(x.active, x.button)
  OBVIOUS
<1>14. RestIsHeld(Len(pad.queue), pad.queue, down, there, pump.reset)
  BY <1>4, <1>5, <1>13
<1>15. RestIsHeld(0, <<>>, down, there, pump.reset)
  <2>1. \A j \in 1 .. Len(pad.queue) : ~(j > Len(pad.queue))
    BY <1>1
  <2> QED BY <1>14, <2>1 DEF RestIsHeld
<1>16. QueueInv'
  BY <1>6, <1>8, <1>9, <1>10, <1>12, <1>13, <1>15 DEF QueueInv
<1>17. FramesInv'
  BY <1>5, <1>6, <1>7, <1>10 DEF FramesInv
<1>18. WrittenInv' /\ RingInv'
  BY <1>10 DEF TouchInv, WrittenInv, RingInv
<1> QED BY <1>11, <1>16, <1>17, <1>18 DEF TouchInv

LEMMA DrainStep ==
    ASSUME TouchTypes, TouchInv, DrainAndAggregate
    PROVE  TouchTypes' /\ TouchInv'
<1>0. pump.at = "drain" /\ pad \in TouchpadState /\ pad.queue \in Seq(Message)
  BY DEF DrainAndAggregate, TouchTypes, TouchpadState
<1>1. CASE pump' = [pump EXCEPT !.at = "wait"] /\ UNCHANGED <<pad, touch, events>>
  <2>1. /\ pump' \in PumpState /\ pump'.at = "wait" /\ pump'.stanza = pump.stanza
        /\ pump'.was = pump.was /\ pump'.reset = pump.reset
    BY <1>1 DEF TouchTypes, PumpState
  <2>2. TouchTypes'
    BY <1>1, <2>1 DEF TouchTypes
  <2>3. QueueInv'
    BY <1>1, <2>1, Zenon DEF TouchInv, QueueInv, There
  <2>4. FramesInv' /\ WrittenInv' /\ RingInv'
    BY <1>0, <1>1, <2>1 DEF TouchInv, FramesInv, WrittenInv, RingInv, Showing, Snapshotting
  <2> QED BY <2>2, <2>3, <2>4 DEF TouchInv
<1>2. ASSUME NEW n \in 0 .. Len(pad.queue),
             pad' = [pad EXCEPT !.queue = SubSeq(@, n + 1, Len(@))], DrainFails
      PROVE  TouchTypes' /\ TouchInv'
  <2>1. PICK q : q = SubSeq(pad.queue, n + 1, Len(pad.queue))
    OBVIOUS
  <2>2. q \in Seq(Message) /\ LastTells(q, There)
    BY <1>0, <2>1, SuffixTells DEF TouchInv, QueueInv
  <2>3. pad' = [pad EXCEPT !.queue = q]
    BY <1>2, <2>1
  <2>4. /\ pad' \in TouchpadState /\ pad'.queue = q /\ pad'.fingers = pad.fingers
        /\ pad'.button = pad.button
    BY <1>0, <2>2, <2>3 DEF TouchpadState
  <2>5. There' = There
    BY <2>4 DEF There
  <2> QED BY <1>0, <1>2, <2>2, <2>4, <2>5, FailureStep
<1>3. CASE DrainFails /\ UNCHANGED pad
  <2>1. pad' \in TouchpadState /\ There' = There /\ LastTells(pad'.queue, There)
    BY <1>0, <1>3 DEF There, TouchInv, QueueInv
  <2> QED BY <1>0, <1>3, <2>1, FailureStep
<1>4. PICK x : x = FoldLeft(ProcessMessage, touch, pad.queue)
  OBVIOUS
<1>5. PICK flushed : flushed = Flush(x)
  OBVIOUS
<1>6. CASE /\ pad' = [pad EXCEPT !.queue = <<>>]
           /\ IF flushed.ok
              THEN /\ touch' = [flushed EXCEPT !.pending = <<>>]
                   /\ pump' = [pump EXCEPT !.at = "write", !.frames = flushed.pending]
                   /\ UNCHANGED events
              ELSE DrainFails
  <2>1. CASE flushed.ok
    BY <1>0, <1>4, <1>5, <1>6, <2>1, FlushedStep
  <2>2. CASE ~flushed.ok
    <3>1. DrainFails
      BY <1>6, <2>2
    <3>2. /\ pad' \in TouchpadState /\ pad'.queue = <<>> /\ pad'.fingers = pad.fingers
          /\ pad'.button = pad.button
      <4>1. <<>> \in Seq(Message)
        OBVIOUS
      <4> QED BY <1>0, <1>6, <4>1 DEF TouchpadState
    <3>3. There' = There /\ LastTells(pad'.queue, There)
      BY <3>2 DEF There, LastTells
    <3> QED BY <1>0, <3>1, <3>2, <3>3, FailureStep
  <2> QED BY <2>1, <2>2
<1>7. \/ pump' = [pump EXCEPT !.at = "wait"] /\ UNCHANGED <<pad, touch, events>>
      \/ /\ \E n \in 0 .. Len(pad.queue) :
                pad' = [pad EXCEPT !.queue = SubSeq(@, n + 1, Len(@))]
         /\ DrainFails
      \/ DrainFails /\ UNCHANGED pad
      \/ /\ pad' = [pad EXCEPT !.queue = <<>>]
         /\ IF flushed.ok
            THEN /\ touch' = [flushed EXCEPT !.pending = <<>>]
                 /\ pump' = [pump EXCEPT !.at = "write", !.frames = flushed.pending]
                 /\ UNCHANGED events
            ELSE DrainFails
  BY <1>4, <1>5, Zenon DEF DrainAndAggregate
<1> QED BY <1>1, <1>2, <1>3, <1>6, <1>7

LEMMA WriteStep ==
    ASSUME TouchTypes, TouchInv, WriteFrame
    PROVE  TouchTypes' /\ TouchInv'
<1>1. PICK frames : frames = pump.frames
  OBVIOUS
<1>2. pump.at = "write" /\ UNCHANGED <<pad, touch>>
  BY DEF WriteFrame
<1>3. /\ frames \in Seq(Frame) /\ frames # <<>>
      /\ Last(frames).button = touch.button /\ Last(frames).fingers = Showing(touch)
  BY <1>1, <1>2 DEF TouchTypes, PumpState, TouchInv, FramesInv
<1>4. PICK f : f = Head(frames)
  OBVIOUS
<1>5. PICK rest : rest = Tail(frames)
  OBVIOUS
<1>6. /\ f \in Frame /\ rest \in Seq(Frame)
      /\ rest = <<>> => f = Last(frames)
      /\ rest # <<>> => Last(rest) = Last(frames)
  BY <1>3, <1>4, <1>5, HeadTailLast
<1>7. PICK st : st = (f.fingers # {})
  OBVIOUS
<1>8. st \in BOOLEAN /\ f.button \in BOOLEAN
  BY <1>6, <1>7 DEF Frame
<1>9. PICK at : at = IF rest = <<>> THEN "drain" ELSE "write"
  OBVIOUS
<1>10. pump' = [pump EXCEPT !.frames = rest, !.was = f.button, !.stanza = st, !.at = at]
  BY <1>1, <1>2, <1>4, <1>5, <1>7, <1>9 DEF WriteFrame
<1>11. /\ pump' \in PumpState /\ pump'.frames = rest /\ pump'.was = f.button
       /\ pump'.stanza = st /\ pump'.at = at /\ pump'.reset = pump.reset
  BY <1>6, <1>8, <1>9, <1>10 DEF TouchTypes, PumpState
<1>12. /\ events' \in EventState /\ RingInv' /\ events'.written.button = f.button
       /\ events'.written.fingers # {} <=> f.fingers # {}
       /\ rest = <<>> => events'.written.fingers = f.fingers
  <2>1. CASE f.fingers # {} \/ pump.stanza \/ f.button # pump.was
    <3>1. RingWrite(f)
      BY <1>1, <1>4, <2>1 DEF WriteFrame
    <3> QED BY <1>6, <3>1, RingWritten DEF TouchTypes
  <2>2. CASE ~(f.fingers # {} \/ pump.stanza \/ f.button # pump.was)
    <3>1. UNCHANGED events
      BY <1>1, <1>4, <2>2 DEF WriteFrame
    <3>2. events.written.fingers = {} /\ events.written.button = f.button
      BY <2>2 DEF TouchInv, WrittenInv
    <3> QED BY <2>2, <3>1, <3>2 DEF TouchTypes, TouchInv, RingInv
  <2> QED BY <2>1, <2>2
<1>13. TouchTypes'
  BY <1>2, <1>11, <1>12 DEF TouchTypes
<1>14. QueueInv'
  BY <1>2, <1>11, Zenon DEF TouchInv, QueueInv, There
<1>15. Showing(touch') = Showing(touch)
  BY <1>2
<1>16. FramesInv'
  BY <1>2, <1>3, <1>6, <1>9, <1>11, <1>15 DEF FramesInv
<1>17. WrittenInv'
  BY <1>2, <1>3, <1>6, <1>7, <1>9, <1>11, <1>12, <1>15 DEF WrittenInv
<1> QED BY <1>12, <1>13, <1>14, <1>16, <1>17 DEF TouchInv

LEMMA ReadStep ==
    ASSUME TouchTypes, TouchInv, ReadTouchpad
    PROVE  TouchTypes' /\ TouchInv'
<1>1. PICK ring : ring = events.ring
  OBVIOUS
<1>2. PICK f : f = Head(ring)
  OBVIOUS
<1>3. PICK rest : rest = Tail(ring)
  OBVIOUS
<1>4. ring # <<>> /\ ring \in Seq(Frame) /\ Last(ring) = events.written
  BY <1>1 DEF ReadTouchpad, TouchTypes, EventState, TouchInv, RingInv
<1>5. /\ f \in Frame /\ rest \in Seq(Frame)
      /\ rest = <<>> => f = Last(ring)
      /\ rest # <<>> => Last(rest) = Last(ring)
  BY <1>2, <1>3, <1>4, HeadTailLast
<1>6. events' = [events EXCEPT !.read = f, !.ring = rest] /\ UNCHANGED <<pad, touch, pump>>
  BY <1>1, <1>2, <1>3 DEF ReadTouchpad
<1>7. /\ events' \in EventState /\ events'.read = f /\ events'.ring = rest
      /\ events'.written = events.written
  BY <1>5, <1>6 DEF TouchTypes, EventState
<1>8. TouchTypes'
  BY <1>6, <1>7 DEF TouchTypes
<1>9. QueueInv' /\ FramesInv'
  BY <1>6 DEF TouchInv, QueueInv, FramesInv, There, Showing, Snapshotting
<1>10. WrittenInv'
  BY <1>6, <1>7 DEF TouchInv, WrittenInv, Showing, Snapshotting
<1>11. RingInv'
  BY <1>4, <1>5, <1>7 DEF RingInv
<1> QED BY <1>8, <1>9, <1>10, <1>11 DEF TouchInv

LEMMA TouchBegins ==
    ASSUME TouchInit
    PROVE  TouchTypes /\ TouchInv
<1>1. NoFrame \in Frame /\ NoFrame.fingers = {} /\ NoFrame.button = FALSE
  BY NeutralFrame DEF NoFrame, Neutral
<1>2. <<>> \in Seq(Frame) /\ <<>> \in Seq(Message)
  OBVIOUS
<1>3. touch = EngineReset
  BY DEF TouchInit
<1>4. TouchTypes
  BY <1>1, <1>2, <1>3, ResetEngine DEF TouchInit, TouchTypes, TouchpadState, PumpState, EventState
<1>5. There = {} /\ pad.queue = <<>> /\ Down(touch.active, touch.button) = {}
  BY <1>3, ResetEngine DEF TouchInit, There, Down
<1>6. QueueInv
  BY <1>5 DEF QueueInv, LastTells, RestIsHeld
<1>7. FramesInv /\ WrittenInv /\ RingInv
  BY <1>1, <1>3, ResetEngine DEF TouchInit, FramesInv, WrittenInv, RingInv
<1> QED BY <1>4, <1>6, <1>7 DEF TouchInv

LEMMA TouchStep ==
    ASSUME TouchTypes, TouchInv, [TouchNext]_padVars
    PROVE  TouchTypes' /\ TouchInv'
<1>1. CASE UNCHANGED padVars
  <2>1. pad' = pad /\ touch' = touch /\ pump' = pump /\ events' = events
    BY <1>1 DEF padVars
  <2>2. TouchTypes'
    BY <2>1 DEF TouchTypes
  <2>3. QueueInv'
    BY <2>1, Zenon DEF TouchInv, QueueInv, There
  <2>4. FramesInv' /\ WrittenInv' /\ RingInv'
    BY <2>1 DEF TouchInv, FramesInv, WrittenInv, RingInv, Showing, Snapshotting
  <2> QED BY <2>2, <2>3, <2>4 DEF TouchInv
<1> QED BY <1>1, TouchedStep, ClickStep, InterruptStep, DrainStep, WriteStep, ReadStep
        DEF TouchNext

LEMMA TouchInvariant == TouchSpec => [](TouchTypes /\ TouchInv)
<1>1. TouchInit => TouchTypes /\ TouchInv
  BY TouchBegins
<1>2. TouchTypes /\ TouchInv /\ [TouchNext]_padVars => (TouchTypes /\ TouchInv)'
  BY TouchStep
<1> QED BY <1>1, <1>2, PTL DEF TouchSpec

\* Every variable of the pad, of the engine and of the worker keeps its type
THEOREM TouchTypeCorrect == TouchSpec => []TouchTypes
BY TouchInvariant, PTL

\* Once the pad is drained and the ring read, the input server has been told of
\* no finger and of no button that is not there, and after no reset of all that
\* are: whatever was dropped, lost on the bus or cut short by the ring
THEOREM NothingStaysDown == TouchSpec => []NothingStuck
<1>1. TouchTypes /\ TouchInv => NothingStuck
  <2> SUFFICES ASSUME TouchTypes, TouchInv, AtRest, events.ring = <<>>
               PROVE  /\ events.read.button => pad.button
                      /\ events.read.fingers # {} => pad.fingers # {} \/ Snapshotting(touch)
                      /\ ~pump.reset =>
                            /\ events.read.button = pad.button
                            /\ ~Snapshotting(touch) => events.read.fingers = pad.fingers
    BY Zenon DEF NothingStuck
  <2>1. events.read.button = touch.button /\ events.read.fingers = Showing(touch)
    BY DEF TouchInv, RingInv, WrittenInv, AtRest
  <2>2. \A s \in Slot \cup {NoSlot} :
           /\ s \in Down(touch.active, touch.button) => s \in There
           /\ ~pump.reset => (s \in Down(touch.active, touch.button) <=> s \in There)
    BY DEF TouchInv, QueueInv, RestIsHeld, AtRest
  <2>3. touch.active \subseteq Slot /\ touch.button \in BOOLEAN
        /\ pad.fingers \subseteq Slot /\ pad.button \in BOOLEAN
    BY DEF TouchTypes, EngineState, TouchpadState
  <2>4. /\ touch.button => pad.button
        /\ ~pump.reset => touch.button = pad.button
    BY <2>2, <2>3, SlotsAreNotNone DEF Down, There
  <2>5. /\ touch.active \subseteq pad.fingers
        /\ ~pump.reset => touch.active = pad.fingers
    BY <2>2, <2>3, SlotsAreNotNone DEF Down, There
  <2> QED BY <2>1, <2>4, <2>5 DEF Showing
<1> QED BY <1>1, TouchInvariant, PTL

=============================================================================
