---------------------------- MODULE BayTrailGpio ----------------------------
(***************************************************************************)
(* GPIO: consumers acquire a pin from the bus manager, watch it and let it   *)
(* go; the Bay Trail controller arms the pad, the shared interrupt collects   *)
(* the status bits, and one worker waits out the debounce, reads the level    *)
(* and calls the handler. A consumer is one driver with one pin at a time.    *)
(***************************************************************************)
EXTENDS Integers, FiniteSets

CONSTANTS Pin, Consumer,
          DirectIrq,     \* pads the firmware gave a direct interrupt
          Edge,          \* edges that consumers watch
          EventLimit,    \* bound on fEventSem, for the line's changes
          CallbackMay    \* what a handler does to its own pin

ASSUME GpioAssumption ==
    /\ DirectIrq \subseteq Pin /\ Edge \subseteq {"both", "rising", "falling"}
    /\ EventLimit \in Nat \ {0} /\ CallbackMay \subseteq {"stop"}

Nobody == "nobody"
ASSUME NobodyAssumption == Nobody \notin Pin \cup Consumer

VARIABLES line,      \* the level of each pin
          pads,       \* its registers
          watch,     \* fSlots
          irq,       \* status, fWatched, fPending, fEventSem, and the interrupt
          bank,      \* who holds fLock, and the worker
          consumer

gpioVars == <<line, pads, watch, irq, bank, consumer>>

FreeSlot == [claimed |-> FALSE, watching |-> FALSE, pending |-> FALSE, due |-> FALSE,
             lastLevel |-> FALSE, edge |-> "both", handler |-> Nobody,
             dispatching |-> 0]

\* Start: ordinary pads stop triggering, and the status words are cleared
GpioInit ==
    /\ line \in [Pin -> BOOLEAN]
    /\ pads = [p \in Pin |-> [trigger |-> "none", output |-> FALSE,
                             missed |-> FALSE]]
    /\ watch = [p \in Pin |-> FreeSlot]
    /\ irq = [status |-> {}, watched |-> {}, pending |-> {}, sem |-> 0, taken |-> {}]
    /\ bank = [lock |-> Nobody, at |-> "wait", pin |-> Nobody, context |-> Nobody]
    /\ consumer = [c \in Consumer |-> [at |-> "idle", pin |-> Nobody, releases |-> FALSE]]

LockFree == bank.lock = Nobody
EdgeMatches(edge, before, after) ==
    before # after /\ edge \in {"both", IF after THEN "rising" ELSE "falling"}

----------------------------------------------------------------------------
(* The hardware.                                                           *)

Triggers(p) == EdgeMatches(pads[p].trigger, line[p], ~line[p])

LineMoves(p) ==
    /\ ~pads[p].output /\ irq.sem < EventLimit
    /\ line' = [line EXCEPT ![p] = ~@]
    /\ irq' = IF Triggers(p) THEN [irq EXCEPT !.status = @ \cup {p}] ELSE irq
    \* history: a move that Watch does not see
    /\ pads' = [pads EXCEPT ![p].missed =
                 @ \/ (~LockFree /\ consumer[bank.lock].pin = p)]
    /\ UNCHANGED <<watch, bank, consumer>>

\* Bits that are watched are acknowledged
InterruptAcknowledges ==
    /\ irq.taken = {} /\ irq.status \cap irq.watched # {}
    /\ irq' = [irq EXCEPT !.taken = irq.status \cap irq.watched,
                          !.status = @ \ irq.watched]
    /\ UNCHANGED <<line, pads, watch, bank, consumer>>

\* Mutant: the worker is not woken
InterruptQueuesQuietly ==
    /\ irq.taken # {}
    /\ irq' = [irq EXCEPT !.pending = @ \cup irq.taken, !.taken = {}]
    /\ UNCHANGED <<line, pads, watch, bank, consumer>>

\* ... queued, and the worker is woken
InterruptQueues ==
    /\ irq.taken # {}
    /\ irq' = [irq EXCEPT !.pending = @ \cup irq.taken, !.taken = {}, !.sem = @ + 1]
    /\ UNCHANGED <<line, pads, watch, bank, consumer>>

----------------------------------------------------------------------------
(* Consumers.                                                              *)

Moves(c, to) == consumer' = [consumer EXCEPT ![c].at = to]

AcquireAcpi(c, p) ==
    /\ consumer[c].at = "idle" /\ LockFree /\ ~watch[p].claimed
    /\ watch' = [watch EXCEPT ![p].claimed = TRUE]
    /\ consumer' = [consumer EXCEPT ![c].at = "holds", ![c].pin = p]
    /\ UNCHANGED <<line, pads, irq, bank>>

\* A pad with a direct interrupt is configured like any other
ConfigureInput(c) ==
    LET p == consumer[c].pin IN
    /\ consumer[c].at = "holds" /\ LockFree
    /\ pads' = [pads EXCEPT ![p].output = FALSE]
    /\ \/ Moves(c, "holds")
       \/ Moves(c, "watch")   \* the first half of Watch of the bus manager
    /\ UNCHANGED <<line, watch, irq, bank>>

\* Also what Write does to a pin that is an output
ConfigureOutput(c) ==
    LET p == consumer[c].pin IN
    /\ consumer[c].at = "holds" /\ LockFree
    /\ ~watch[p].watching /\ p \notin DirectIrq
    /\ pads' = [pads EXCEPT ![p].output = TRUE, ![p].trigger = "none"]
    /\ \E level \in BOOLEAN : line' = [line EXCEPT ![p] = level]
    /\ UNCHANGED <<watch, irq, bank, consumer>>

WatchRefused(c) ==
    LET p == consumer[c].pin IN
    /\ consumer[c].at = "watch" /\ LockFree
    /\ watch[p].watching \/ p \in DirectIrq
    /\ Moves(c, "holds")
    /\ UNCHANGED <<line, pads, watch, irq, bank>>

\* The level is read, the trigger cleared and what it left acknowledged
WatchReads(c) ==
    LET p == consumer[c].pin IN
    /\ consumer[c].at = "watch" /\ LockFree
    /\ ~watch[p].watching /\ p \notin DirectIrq
    /\ \E e \in Edge :
          watch' = [watch EXCEPT ![p].lastLevel = line[p], ![p].edge = e,
                                 ![p].pending = FALSE, ![p].watching = TRUE,
                                 ![p].handler = c]
    /\ pads' = [pads EXCEPT ![p].trigger = "none", ![p].missed = FALSE]
    /\ irq' = [irq EXCEPT !.status = @ \ {p}]
    /\ bank' = [bank EXCEPT !.lock = c]
    /\ UNCHANGED <<line, consumer>>

\* ... and then the trigger is set
WatchArms(c) ==
    LET p == consumer[c].pin IN
    /\ bank.lock = c
    /\ irq' = [irq EXCEPT !.watched = @ \cup {p}]
    /\ pads' = [pads EXCEPT ![p].trigger = watch[p].edge]
    /\ bank' = [bank EXCEPT !.lock = Nobody]
    /\ Moves(c, "holds")
    /\ UNCHANGED <<line, watch>>

\* The part of StopWatching that does not wait
Unwatched(p) ==
    IF ~watch[p].watching THEN UNCHANGED <<pads, watch, irq>>
    ELSE /\ pads' = [pads EXCEPT ![p].trigger = "none"]
         /\ irq' = [irq EXCEPT !.watched = @ \ {p}, !.status = @ \ {p}]
         /\ watch' = [watch EXCEPT ![p].watching = FALSE, ![p].pending = FALSE,
                                   ![p].handler = Nobody]

\* StopWatching, alone or as the start of Release
StopWatching(c) ==
    LET p == consumer[c].pin IN
    /\ consumer[c].at = "holds" /\ LockFree
    /\ Unwatched(p)
    /\ \E releases \in BOOLEAN :
          consumer' = [consumer EXCEPT ![c].releases = releases,
                         ![c].at = IF watch[p].watching THEN "drain" ELSE "stopped"]
    /\ UNCHANGED <<line, bank>>

\* Mutant: the handler may still run
DispatchIgnored(c) ==
    /\ consumer[c].at = "drain" /\ LockFree
    /\ Moves(c, "stopped")
    /\ UNCHANGED <<line, pads, watch, irq, bank>>

DispatchIdle(c) ==
    /\ consumer[c].at = "drain" /\ LockFree /\ watch[consumer[c].pin].dispatching = 0
    /\ Moves(c, "stopped")
    /\ UNCHANGED <<line, pads, watch, irq, bank>>

\* It has returned: the handler's context may be freed
StopReturns(c) ==
    LET p == consumer[c].pin IN
    /\ consumer[c].at = "stopped" /\ LockFree
    /\ IF consumer[c].releases
       THEN /\ watch' = [watch EXCEPT ![p].claimed = FALSE]
            /\ consumer' = [consumer EXCEPT ![c].at = "idle", ![c].pin = Nobody]
       ELSE Moves(c, "holds") /\ UNCHANGED watch
    /\ UNCHANGED <<line, pads, irq, bank>>

----------------------------------------------------------------------------
(* The worker.                                                             *)

DebounceEnds(p) ==
    /\ watch[p].pending /\ ~watch[p].due
    /\ watch' = [watch EXCEPT ![p].due = TRUE]
    /\ UNCHANGED <<line, pads, irq, bank, consumer>>

\* The semaphore, or the next deadline
WorkerWakes ==
    /\ bank.at = "wait"
    /\ \/ irq.sem > 0 /\ irq' = [irq EXCEPT !.sem = @ - 1]
       \/ (\E p \in Pin : watch[p].watching /\ watch[p].pending /\ watch[p].due)
            /\ UNCHANGED irq
    /\ bank' = [bank EXCEPT !.at = "collect"]
    /\ UNCHANGED <<line, pads, watch, consumer>>

CollectPending ==
    /\ bank.at = "collect" /\ LockFree
    /\ watch' = [p \in Pin |-> IF p \in irq.pending /\ watch[p].watching
                               THEN [watch[p] EXCEPT !.pending = TRUE, !.due = FALSE]
                               ELSE watch[p]]
    /\ irq' = [irq EXCEPT !.pending = {}]
    /\ bank' = [bank EXCEPT !.at = "dispatch"]
    /\ UNCHANGED <<line, pads, consumer>>

Due == {p \in Pin : watch[p].watching /\ watch[p].pending /\ watch[p].due}

DispatchDue ==
    /\ bank.at = "dispatch" /\ LockFree
    /\ IF Due = {} THEN bank' = [bank EXCEPT !.at = "wait"] /\ UNCHANGED watch
       ELSE \E p \in Due :
              LET matches == EdgeMatches(watch[p].edge, watch[p].lastLevel, line[p])
              IN  /\ watch' = [watch EXCEPT ![p].pending = FALSE, ![p].lastLevel = line[p],
                                 ![p].dispatching = @ + (IF matches THEN 1 ELSE 0)]
                  /\ bank' = IF matches
                             THEN [bank EXCEPT !.at = "handler", !.pin = p,
                                               !.context = watch[p].handler]
                             ELSE bank
    /\ UNCHANGED <<line, pads, irq, consumer>>

\* The handler returns, or stops its own pin, for which the worker does not wait
HandlerSteps ==
    /\ bank.at = "handler" /\ LockFree
    /\ \/ /\ "stop" \in CallbackMay /\ watch[bank.pin].handler = bank.context
          /\ Unwatched(bank.pin) /\ UNCHANGED bank
       \/ /\ watch' = [watch EXCEPT ![bank.pin].dispatching = @ - 1]
          /\ bank' = [bank EXCEPT !.at = "dispatch", !.pin = Nobody, !.context = Nobody]
          /\ UNCHANGED <<pads, irq>>
    /\ UNCHANGED <<line, consumer>>

----------------------------------------------------------------------------
GpioNext ==
    \/ \E p \in Pin : LineMoves(p) \/ DebounceEnds(p)
    \/ \E c \in Consumer, p \in Pin : AcquireAcpi(c, p)
    \/ \E c \in Consumer :
          \/ ConfigureInput(c) \/ ConfigureOutput(c)
          \/ WatchRefused(c) \/ WatchReads(c) \/ WatchArms(c)
          \/ StopWatching(c) \/ DispatchIdle(c) \/ StopReturns(c)
    \/ InterruptAcknowledges \/ InterruptQueues
    \/ WorkerWakes \/ CollectPending \/ DispatchDue \/ HandlerSteps

GpioSpec == GpioInit /\ [][GpioNext]_gpioVars

----------------------------------------------------------------------------
\* The worker sleeps, and no interrupt and no debounce is to come
GpioAtRest ==
    /\ bank.at = "wait" /\ irq.sem = 0 /\ irq.taken = {} /\ irq.status \cap irq.watched = {}
    /\ \A p \in Pin : ~(watch[p].watching /\ watch[p].pending)

\* At rest the last level dispatched of a pin watched for both edges is the
\* level of the line: no edge is lost between the status bit, the queue, the
\* debounce and the handler, also across StopWatching and Watch; but for one
\* that comes while Watch reads the level and has not armed the trigger yet
LevelFollowed ==
    GpioAtRest /\ LockFree =>
        \A p \in Pin : watch[p].watching /\ watch[p].edge = "both"
            => watch[p].lastLevel = line[p] \/ pads[p].missed

\* Once StopWatching has returned, the handler does not run
StoppedIsQuiet ==
    bank.at = "handler" => consumer[bank.context].at \notin {"stopped", "idle"}
=============================================================================
