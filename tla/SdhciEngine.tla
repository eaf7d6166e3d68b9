----------------------------- MODULE SdhciEngine -----------------------------
(***************************************************************************)
(* The command engine of the sdhci_embedded driver, SdhciEngine.cpp and    *)
(* Transaction.h: callers, serialised by the bus lock, post one ticket at  *)
(* a time into a mailbox; one worker drives it against the controller and  *)
(* signals a counting semaphore; the interrupt handler only wakes the      *)
(* worker through a lossy condition variable.  Card recovery resets the    *)
(* controller from the caller's thread.                                    *)
(*                                                                         *)
(* The controller is the environment: it answers a command late, in error  *)
(* or never.  A latched bit carries the number of the ticket it belongs    *)
(* to, which the driver cannot see.  Time is abstracted: a bounded poll    *)
(* may give up at any look, and a deadline has passed after MaxLooks.      *)
(* The engine's Init succeeded; a ticket can always be allocated.          *)
(***************************************************************************)
EXTENDS SdhciPolicy, FiniteSets

CONSTANTS
    Caller,         \* threads that execute commands
    Command,        \* the commands they execute
    MaxTickets,     \* bound on the commands executed in all
    MaxLooks,       \* looks at the controller before the attempt's deadline
    DrainPasses,    \* passes of _DrainInterrupts (4 in the driver)
    Recoveries,     \* bound on the recoveries started by callers
    ResetOutcome    \* what the self-clearing reset bits may do

ASSUME EngineConstants ==
    /\ Command \subseteq CommandName
    /\ MaxTickets \in Nat \ {0}
    /\ MaxLooks \in Nat \ {0}
    /\ DrainPasses \in Nat \ {0}
    /\ Recoveries \in Nat
    /\ ResetOutcome \subseteq BOOLEAN /\ ResetOutcome # {}

VARIABLES
    caller,         \* where each caller is, and its ticket
    ticket,         \* the tickets: command, references, result
    made,           \* how many tickets there are
    mailbox,        \* TransactionMailbox::fSlot, 0 for nullptr
    completion,     \* tokens of fCompletion
    worker,         \* the worker thread and the locals of its attempt
    entry,          \* the worker's entry on fMeowCV
    running,        \* fWorkerRunning
    hw,             \* the controller
    performed,      \* history: what the card really did for which ticket
    sends,          \* history: how often a ticket was issued
    recoveries      \* history: recoveries started by callers

vars == <<caller, ticket, made, mailbox, completion, worker, entry, running,
          hw, performed, sends, recoveries>>
software == <<made, mailbox, completion, entry, running, recoveries>>

-----------------------------------------------------------------------------
Ticket == 1..MaxTickets

TicketState == [cmd: CommandName, refs: Nat, done: BOOLEAN,
                result: {"none", "ok", "error", "notReady"}]

CallerState == [pc: {"idle", "submit", "post", "wait", "asleep", "recover"},
                ticket: 0..MaxTickets]

IdleCaller == [pc |-> "idle", ticket |-> 0]

AttemptResult == {"none", "ok", "spuriousOcr", "busy", "fault", "hard"}

WorkerState ==
    [pc: {"loop", "service", "turn", "arm", "check", "sleep", "inhibit", "drain", "readback",
          "send", "look", "wait", "settle", "busy", "decide", "signal",
          "release", "exited"},
     txn: 0..MaxTickets, attempt: Nat, looks: 0..MaxLooks,
     passes: 0..DrainPasses, bits: SUBSET Bit, result: AttemptResult]

IdleWorker == [pc |-> "loop", txn |-> 0, attempt |-> 0, looks |-> 0,
               passes |-> 0, bits |-> {}, result |-> "none"]

\* The controller: the tickets that inhibit its command and its data line, the
\* one whose data it moves, the latched bits with their tickets, and whether it
\* has power and clock and its interrupts are enabled
Controller == [command: 0..MaxTickets, data: 0..MaxTickets, dma: 0..MaxTickets,
               latch: SUBSET (Bit \X Ticket), enabled: BOOLEAN]

ResetController(enabled) ==
    [command |-> 0, data |-> 0, dma |-> 0, latch |-> {}, enabled |-> enabled]

Latched == {p[1] : p \in hw.latch}

Init ==
    /\ caller = [c \in Caller |-> IdleCaller]
    /\ ticket = [n \in Ticket |-> [cmd |-> "plain", refs |-> 0, done |-> FALSE,
                                   result |-> "none"]]
    /\ made = 0
    /\ mailbox = 0
    /\ completion = 0
    /\ worker = IdleWorker
    /\ entry = "none"
    /\ running = TRUE
    /\ hw = ResetController(TRUE)
    /\ performed = {}
    /\ sends = [n \in Ticket |-> 0]
    /\ recoveries = 0

\* fMeowCV.NotifyAll: without an armed entry the pulse is lost
NotifyAll == IF entry = "armed" THEN "notified" ELSE entry

\* Mutation of MarkDone: Done is published before the result
MarkDoneWithoutResult(n, result) ==
    ticket' = [ticket EXCEPT ![n].done = TRUE]

\* Transaction::MarkDone
MarkDone(n, result) ==
    ticket' = [ticket EXCEPT ![n].done = TRUE, ![n].result = result]

Released(n) == [ticket EXCEPT ![n].refs = @ - 1]

-----------------------------------------------------------------------------
(***************************************************************************)
(* Callers: _Submit, and the recovery of a card.                           *)
(***************************************************************************)

InSubmit(c) == caller[c].pc \in {"submit", "post", "wait", "asleep"}

\* Take the bus lock, create the ticket
Submit(c, cmd) ==
    /\ caller[c].pc = "idle"
    /\ ~(\E d \in Caller : InSubmit(d))
    /\ running
    /\ made < MaxTickets
    /\ made' = made + 1
    /\ ticket' = [ticket EXCEPT ![made + 1] =
           [cmd |-> cmd, refs |-> 1, done |-> FALSE, result |-> "none"]]
    /\ caller' = [caller EXCEPT ![c] = [pc |-> "submit", ticket |-> made + 1]]
    /\ UNCHANGED <<mailbox, completion, worker, entry, running, hw, performed,
                   sends, recoveries>>

\* Discard stale tokens
DrainTokens(c) ==
    /\ caller[c].pc = "submit"
    /\ completion' = 0
    /\ caller' = [caller EXCEPT ![c].pc = "post"]
    /\ UNCHANGED <<ticket, made, mailbox, worker, entry, running, hw,
                   performed, sends, recoveries>>

\* Mutation of PostTicket: the worker has no reference of its own
PostUnretained(c) ==
    /\ caller[c].pc = "post"
    /\ mailbox' = IF mailbox = 0 THEN caller[c].ticket ELSE mailbox
    /\ entry' = NotifyAll
    /\ caller' = [caller EXCEPT ![c].pc = "wait"]
    /\ UNCHANGED <<ticket, made, completion, worker, running, hw, performed,
                   sends, recoveries>>

\* Retain for the worker, post, wake it
PostTicket(c) ==
    /\ caller[c].pc = "post"
    /\ ticket' = [ticket EXCEPT ![caller[c].ticket].refs = @ + 1]
    /\ mailbox' = IF mailbox = 0 THEN caller[c].ticket ELSE mailbox
    /\ entry' = NotifyAll
    /\ caller' = [caller EXCEPT ![c].pc = "wait"]
    /\ UNCHANGED <<made, completion, worker, running, hw, performed, sends,
                   recoveries>>

\* Mutation of AwaitDone: an outer timeout gives the command up
AwaitWithTimeout(c) ==
    /\ caller[c].pc = "wait"
    /\ \/ /\ ticket' = Released(caller[c].ticket)
          /\ caller' = [caller EXCEPT ![c] = IdleCaller]
       \/ /\ ~ticket[caller[c].ticket].done
          /\ caller' = [caller EXCEPT ![c].pc = "asleep"]
          /\ UNCHANGED ticket
    /\ UNCHANGED <<made, mailbox, completion, worker, entry, running, hw,
                   performed, sends, recoveries>>

\* One turn of the wait: done means copy the result, drop the reference and
\* the bus lock
AwaitDone(c) ==
    /\ caller[c].pc = "wait"
    /\ IF ticket[caller[c].ticket].done
       THEN /\ ticket' = Released(caller[c].ticket)
            /\ caller' = [caller EXCEPT ![c] = IdleCaller]
       ELSE /\ caller' = [caller EXCEPT ![c].pc = "asleep"]
            /\ UNCHANGED ticket
    /\ UNCHANGED <<made, mailbox, completion, worker, entry, running, hw,
                   performed, sends, recoveries>>

AcquireCompletion(c) ==
    /\ caller[c].pc = "asleep"
    /\ completion > 0
    /\ completion' = completion - 1
    /\ caller' = [caller EXCEPT ![c].pc = "wait"]
    /\ UNCHANGED <<ticket, made, mailbox, worker, entry, running, hw,
                   performed, sends, recoveries>>

\* _TerminateBus: no clock, no power, no interrupts
Terminated(old) == [old EXCEPT !.dma = 0, !.enabled = FALSE]

\* _RestoreAfterReset: the reset may not finish, and power may not come back
Restored(old) ==
    {ResetController(TRUE), ResetController(FALSE)}
    \cup (IF FALSE \in ResetOutcome THEN {old} ELSE {})

\* RecoverBus, which re-identification calls without the bus lock: the power
\* goes first, the reset and the new power follow after a pause
TerminateBus(c) ==
    /\ caller[c].pc = "idle"
    /\ running
    /\ recoveries < Recoveries
    /\ recoveries' = recoveries + 1
    /\ hw' = Terminated(hw)
    /\ caller' = [caller EXCEPT ![c].pc = "recover"]
    /\ UNCHANGED <<ticket, made, mailbox, completion, worker, entry, running,
                   performed, sends>>

RestoreAfterReset(c) ==
    /\ caller[c].pc = "recover"
    /\ hw' \in Restored(hw)
    /\ caller' = [caller EXCEPT ![c].pc = "idle"]
    /\ UNCHANGED <<software, ticket, worker, performed, sends>>

CallerStep(c) ==
    \/ DrainTokens(c) \/ PostTicket(c) \/ AwaitDone(c) \/ AcquireCompletion(c)
    \/ RestoreAfterReset(c)

\* Uninit: the interrupt handler, the disk, and with it every caller, are gone
Uninit ==
    /\ running
    /\ \A c \in Caller : caller[c].pc = "idle"
    /\ running' = FALSE
    /\ entry' = NotifyAll
    /\ UNCHANGED <<caller, ticket, made, mailbox, completion, worker, hw,
                   performed, sends, recoveries>>

-----------------------------------------------------------------------------
(***************************************************************************)
(* The worker: _WorkerLoop, _ServiceOnce and _DriveTransaction.            *)
(***************************************************************************)

Goto(pc) == worker' = [worker EXCEPT !.pc = pc]

\* An attempt begins with the inhibit bits
BeginAttempt(n, attempt) ==
    worker' = [IdleWorker EXCEPT !.pc = "inhibit", !.txn = n,
                                 !.attempt = attempt]

\* The stop flag is looked at before and after _ServiceOnce
Continue ==
    /\ worker.pc \in {"loop", "turn"}
    /\ Goto(IF ~running THEN "exited"
            ELSE IF worker.pc = "loop" THEN "service" ELSE "arm")
    /\ UNCHANGED <<software, caller, ticket, hw, performed, sends>>

\* Claim the mailbox.  Without a ticket, clear what is latched so that the
\* level-triggered line falls.  A data command of no blocks is done at once.
Claim ==
    /\ worker.pc = "service"
    /\ mailbox # 0
    /\ mailbox' = 0
    /\ IF ticket[mailbox].cmd = "empty"
       THEN /\ MarkDone(mailbox, "ok")
            /\ worker' = [IdleWorker EXCEPT !.pc = "signal", !.txn = mailbox]
       ELSE /\ BeginAttempt(mailbox, 0)
            /\ UNCHANGED ticket
    /\ UNCHANGED <<caller, made, completion, entry, running, hw, performed,
                   sends, recoveries>>

\* Mutation of Acknowledged: a status word is cleared only when it has errors
AcknowledgedErrors(latch) ==
    IF \E p \in latch : p[1] \in {"fault", "hard"} THEN {} ELSE latch

\* Write 1 to every latched bit the driver manages, which is all of them
Acknowledged(latch) == {p \in latch : p[1] \notin Bit}

StormSafeIdleClear ==
    /\ worker.pc = "service"
    /\ mailbox = 0
    /\ hw' = [hw EXCEPT !.latch = Acknowledged(@)]
    /\ Goto("turn")
    /\ UNCHANGED <<software, caller, ticket, performed, sends>>

\* Mutation of Arm: the entry is not on the condition variable yet when the
\* mailbox is looked at
ArmLate ==
    /\ worker.pc = "arm"
    /\ Goto("check")
    /\ UNCHANGED <<software, caller, ticket, hw, performed, sends>>

\* fMeowCV.Add: from here on no pulse is lost
Arm ==
    /\ worker.pc = "arm"
    /\ entry' = "armed"
    /\ Goto("check")
    /\ UNCHANGED <<caller, ticket, made, mailbox, completion, running, hw,
                   performed, sends, recoveries>>

CheckMailbox ==
    /\ worker.pc = "check"
    /\ IF mailbox = 0 /\ running
       THEN Goto("sleep") /\ UNCHANGED entry
       ELSE Goto("loop") /\ entry' = "none"
    /\ UNCHANGED <<caller, ticket, made, mailbox, completion, running, hw,
                   performed, sends, recoveries>>

WakeUp ==
    /\ worker.pc = "sleep"
    /\ entry = "notified"
    /\ entry' = "none"
    /\ Goto("loop")
    /\ UNCHANGED <<caller, ticket, made, mailbox, completion, running, hw,
                   performed, sends, recoveries>>

Txn == worker.txn
Cmd == ticket[worker.txn].cmd

\* The grace polls end when the lines are free, or run out: Busy, nothing sent
AwaitInhibit ==
    /\ worker.pc = "inhibit"
    /\ IF hw.command = 0 /\ (RequiresDataLineIdle(Cmd) => hw.data = 0)
       THEN Goto("drain")
       ELSE worker' = [worker EXCEPT !.pc = "decide", !.result = "busy"]
    /\ UNCHANGED <<software, caller, ticket, hw, performed, sends>>

\* Mutation of DrainInterrupts: stale bits are not cleared before the issue
NoDrain ==
    /\ worker.pc = "drain"
    /\ Goto("send")
    /\ UNCHANGED <<software, caller, ticket, hw, performed, sends>>

\* A pass of _DrainInterrupts before the issue: clear what the last read
\* showed, to read it back
DrainInterrupts ==
    /\ worker.pc = "drain"
    /\ hw' = [hw EXCEPT !.latch = Acknowledged(@)]
    /\ worker' = IF hw.latch = {} THEN [worker EXCEPT !.pc = "send", !.passes = 0]
                 ELSE [worker EXCEPT !.pc = "readback", !.passes = @ + 1]
    /\ UNCHANGED <<software, caller, ticket, performed, sends>>

ReadBack ==
    /\ worker.pc = "readback"
    /\ worker' =
           IF hw.latch = {} THEN [worker EXCEPT !.pc = "send", !.passes = 0]
           ELSE IF worker.passes < DrainPasses
           THEN [worker EXCEPT !.pc = "drain"]
           ELSE [worker EXCEPT !.pc = "decide", !.passes = 0, !.result = "busy"]
    /\ UNCHANGED <<software, caller, ticket, hw, performed, sends>>

\* The write of the Command register
Send ==
    /\ worker.pc = "send"
    /\ hw' = [hw EXCEPT
           !.command = Txn,
           !.data = IF RequiresDataLineIdle(Cmd) THEN Txn ELSE @,
           !.dma = IF HasData(Cmd) /\ hw.enabled THEN Txn ELSE @]
    /\ sends' = [sends EXCEPT ![Txn] = @ + 1]
    /\ Goto("look")
    /\ UNCHANGED <<software, caller, ticket, performed>>

Conclude(result) ==
    worker' = [worker EXCEPT !.pc = "settle", !.bits = {}, !.looks = 0,
                             !.result = result]

\* Snapshot, acknowledge, accumulate, classify.  The deadline may have passed
\* at any look that is not conclusive.
Look ==
    LET bits == worker.bits \cup Latched
        verdict == ClassifyPoll(bits, Cmd)
    IN
    /\ worker.pc = "look"
    /\ hw' = [hw EXCEPT !.latch = Acknowledged(@)]
    /\ IF verdict = "keepPolling"
       THEN \/ /\ worker.looks < MaxLooks
               /\ worker' = [worker EXCEPT !.pc = "wait", !.bits = bits,
                                           !.looks = @ + 1]
            \/ Conclude("fault")
       ELSE \E result \in
                IF verdict = "ok" /\ Constraints(Cmd).validateOcr
                THEN {"ok", "spuriousOcr"} ELSE {verdict} :
                Conclude(result)
    /\ UNCHANGED <<software, caller, ticket, performed, sends>>

\* The wait ends with a wakeup or after 2 ms
WaitEnds ==
    /\ worker.pc = "wait"
    /\ Goto("look")
    /\ UNCHANGED <<software, caller, ticket, hw, performed, sends>>

\* Clear what raced the last snapshot
Settle ==
    /\ worker.pc = "settle"
    /\ hw' = [hw EXCEPT !.latch = Acknowledged(@)]
    /\ Goto(IF worker.result = "ok" /\ HasBusyReply(Cmd)
            THEN "busy" ELSE "decide")
    /\ UNCHANGED <<software, caller, ticket, performed, sends>>

\* _WaitForR1bBusy: the data line comes free, or the polls run out
WaitForR1bBusy ==
    /\ worker.pc = "busy"
    /\ worker' = [worker EXCEPT !.pc = "decide",
                                !.result = IF hw.data = 0 THEN "ok" ELSE "fault"]
    /\ UNCHANGED <<software, caller, ticket, hw, performed, sends>>

\* ResetCommandAndDataLines
LinesReset(old) == [old EXCEPT !.command = 0, !.data = 0, !.dma = 0]

Finish(result) ==
    /\ MarkDone(Txn, result)
    /\ Goto("signal")

\* Take the power away and start again: the card has to be identified anew
ResetBus ==
    /\ hw' \in Restored(Terminated(hw))
    /\ Finish("notReady")

\* A reset of the lines that does not finish cannot prove that DMA has stopped
ResetLinesThen(continue) ==
    \E finished \in ResetOutcome :
        IF finished
        THEN hw' = LinesReset(hw) /\ continue
        ELSE ResetBus

\* Mutation of FailWith: the controller is left as it is
FailWithoutReset == Finish("error") /\ UNCHANGED hw

\* Data memory goes back to the caller only when the controller is quiescent
FailWith ==
    IF HasData(Cmd) THEN ResetLinesThen(Finish("error"))
    ELSE Finish("error") /\ UNCHANGED hw

Decide ==
    \E cardPresent \in BOOLEAN :
    LET action == DecideRetry(worker.result, worker.attempt, Cmd, cardPresent)
        again == BeginAttempt(Txn, worker.attempt + 1)
    IN
    /\ worker.pc = "decide"
    /\ CASE action = "Succeed" -> Finish("ok") /\ UNCHANGED hw
         [] action = "Fail" -> FailWith
         [] action = "ResetAndReidentify" -> ResetBus
         [] action = "RetryResetLines" ->
                ResetLinesThen(again /\ UNCHANGED ticket)
         [] action = "Retry" -> again /\ UNCHANGED <<ticket, hw>>
    /\ UNCHANGED <<software, caller, performed, sends>>

SignalCompletion ==
    /\ worker.pc = "signal"
    /\ completion' = completion + 1
    /\ Goto("release")
    /\ UNCHANGED <<caller, ticket, made, mailbox, entry, running, hw,
                   performed, sends, recoveries>>

ReleaseTicket ==
    /\ worker.pc = "release"
    /\ ticket' = Released(Txn)
    /\ worker' = [IdleWorker EXCEPT !.pc = "turn"]
    /\ UNCHANGED <<software, caller, hw, performed, sends>>

WorkerStep ==
    \/ Continue \/ Claim \/ StormSafeIdleClear \/ Arm \/ CheckMailbox \/ WakeUp
    \/ AwaitInhibit \/ DrainInterrupts \/ ReadBack \/ Send \/ Look \/ WaitEnds
    \/ Settle \/ WaitForR1bBusy \/ Decide \/ SignalCompletion \/ ReleaseTicket

-----------------------------------------------------------------------------
(***************************************************************************)
(* The controller and the card, and the interrupt handler.                 *)
(***************************************************************************)

\* The card answers; a busy answer or a transfer keeps the data line
CommandDone ==
    /\ hw.enabled /\ hw.command # 0
    /\ hw' = [hw EXCEPT !.command = 0,
                        !.latch = @ \cup {<<"command", hw.command>>}]
    /\ performed' = performed \cup {<<"command", hw.command>>}
    /\ UNCHANGED <<software, caller, ticket, worker, sends>>

\* No answer, or a damaged one: a transfer that was prepared stays prepared
CommandFault ==
    /\ hw.enabled /\ hw.command # 0
    /\ \E kind \in {"fault", "hard"} :
           hw' = [hw EXCEPT !.command = 0,
                            !.data = IF @ = hw.command /\ @ # hw.dma
                                     THEN 0 ELSE @,
                            !.latch = @ \cup {<<kind, hw.command>>}]
    /\ UNCHANGED <<software, caller, ticket, worker, performed, sends>>

\* The data line comes free after the answer: the transfer is complete, the
\* tuning block is in the buffer, or the card is no longer busy
DataDone ==
    /\ hw.enabled /\ hw.data # 0
    /\ <<"command", hw.data>> \in performed /\ hw.command # hw.data
    /\ LET bit == IF ticket[hw.data].cmd = "tuning" THEN "buffer" ELSE "transfer"
       IN hw' = [hw EXCEPT !.data = 0, !.dma = 0,
                           !.latch = @ \cup {<<bit, hw.data>>}]
    /\ performed' = performed \cup {<<"data", hw.data>>}
    /\ UNCHANGED <<software, caller, ticket, worker, sends>>

\* A timeout, CRC or ADMA error: the line stays occupied until it is reset
DataFault ==
    /\ hw.enabled /\ hw.data # 0 /\ hw.command # hw.data
    /\ \E kind \in {"fault", "hard"} :
           /\ <<kind, hw.data>> \notin hw.latch
           /\ hw' = [hw EXCEPT !.latch = @ \cup {<<kind, hw.data>>}]
    /\ UNCHANGED <<software, caller, ticket, worker, performed, sends>>

ControllerStep == CommandDone \/ CommandFault \/ DataDone \/ DataFault

\* HandleInterruptMeow: a level-triggered line; nothing is acknowledged here.
\* Without an armed entry the call changes nothing.
HandleInterruptMeow ==
    /\ hw.enabled /\ hw.latch # {} /\ running
    /\ entry = "armed"
    /\ entry' = NotifyAll
    /\ UNCHANGED <<caller, ticket, made, mailbox, completion, worker, running,
                   hw, performed, sends, recoveries>>

-----------------------------------------------------------------------------
Next ==
    \/ \E c \in Caller :
           \/ \E cmd \in Command : Submit(c, cmd)
           \/ CallerStep(c) \/ TerminateBus(c)
    \/ WorkerStep \/ ControllerStep \/ HandleInterruptMeow \/ Uninit
    \/ worker.pc = "exited" /\ UNCHANGED vars

Spec == Init /\ [][Next]_vars

\* Threads inside the engine keep running, the worker's waits are timed or
\* wait for a pulse, and the interrupt controller delivers an asserted line.
\* Nothing is assumed of the card, nor of applications.
Fairness ==
    /\ WF_vars(WorkerStep)
    /\ \A c \in Caller : WF_vars(CallerStep(c))
    /\ WF_vars(HandleInterruptMeow)

FairSpec == Spec /\ Fairness

-----------------------------------------------------------------------------
(***************************************************************************)
(* Properties.                                                             *)
(***************************************************************************)

\* Every variable has its type; the token count stays a natural number.
TypeOK ==
    /\ caller \in [Caller -> CallerState]
    /\ ticket \in [Ticket -> TicketState]
    /\ made \in 0..MaxTickets
    /\ mailbox \in 0..MaxTickets
    /\ completion \in Nat
    /\ worker \in WorkerState
    /\ entry \in {"none", "armed", "notified"}
    /\ running \in BOOLEAN
    /\ hw \in Controller
    /\ performed \subseteq {"command", "data"} \X Ticket
    /\ sends \in [Ticket -> Nat]
    /\ recoveries \in Nat

\* Post always finds the slot empty, so its unchecked compare-and-swap never
\* drops a ticket, although the worker may still be busy with the last one.
MailboxEmptyAtPost ==
    \A c \in Caller : caller[c].pc = "post" => mailbox = 0

\* Who holds a reference on ticket n: its caller, and the mailbox or the worker
Holders(n) ==
    {c \in Caller : InSubmit(c) /\ caller[c].ticket = n}
WorkerHolds(n) == mailbox = n \/ worker.txn = n

\* The reference count is exact: no ticket is freed while the caller or the
\* worker may touch it, and every finished ticket is freed.
TicketsCounted ==
    \A n \in 1..made :
        ticket[n].refs = Cardinality(Holders(n))
                         + (IF WorkerHolds(n) THEN 1 ELSE 0)

\* "DMA memory outlives active or unquiesced hardware": when the caller of a
\* data command has its answer, the controller moves no data for it.
DmaOutlived ==
    hw.dma # 0 => ~ticket[hw.dma].done /\ Holders(hw.dma) # {}

\* A command reported successful was performed by the card, data included, and
\* not some earlier command whose completion came late.
NoFalseSuccess ==
    \A n \in Ticket :
        ticket[n].done /\ ticket[n].result = "ok" /\ ticket[n].cmd # "empty" =>
            /\ <<"command", n>> \in performed
            /\ RequiresDataLineIdle(ticket[n].cmd) => <<"data", n>> \in performed

\* "Never automatically replay a write whose completion is uncertain"
WritesSentOnce ==
    \A n \in Ticket : ticket[n].cmd = "write" => sends[n] <= 1

\* Every command gets an answer, whatever the card does, and once Uninit has
\* told the worker to stop, the worker leaves: Uninit waits for its thread.
EveryCallReturns ==
    /\ \A c \in Caller : InSubmit(c) ~> caller[c].pc = "idle"
    /\ ~running ~> worker.pc = "exited"

\* A latched bit does not keep the level-triggered line asserted for ever, also
\* when it latches after the last command is done.
LineFalls == hw.enabled /\ hw.latch # {} ~> ~hw.enabled \/ ~running \/ hw.latch = {}

-----------------------------------------------------------------------------
(***************************************************************************)
(* The inductive invariant behind the theorems of SdhciEngine_proofs.      *)
(***************************************************************************)

\* The worker's program points at which it drives a ticket that is not done
DrivingPc == {"inhibit", "drain", "readback", "send", "look", "wait", "settle",
              "busy", "decide"}

Waits(c) == caller[c].pc \in {"wait", "asleep"}

\* fBusLock has one holder, and its ticket is the last one made
BusLockInv ==
    \A c \in Caller : InSubmit(c) =>
        /\ caller[c].ticket = made /\ made # 0
        /\ \A d \in Caller : InSubmit(d) => c = d

\* Before the post the ticket is the caller's alone; afterwards it is in the
\* mailbox, with the worker, or done
TicketInv ==
    \A c \in Caller :
        /\ caller[c].pc \in {"submit", "post"} =>
               /\ mailbox = 0 /\ worker.txn # made
               /\ ~ticket[made].done /\ sends[made] = 0
        /\ Waits(c) =>
               ticket[made].done \/ mailbox = made \/ worker.txn = made

\* A ticket in the mailbox is the last one, untouched, and its caller waits
MailboxInv ==
    mailbox # 0 =>
        /\ mailbox = made /\ worker.txn # made
        /\ ~ticket[made].done /\ sends[made] = 0
        /\ \E c \in Caller : Waits(c)

\* So is the ticket the worker drives; between MarkDone and Release the caller
\* may have moved on
DriveInv ==
    /\ worker.txn <= made
    /\ worker.txn # 0 <=> worker.pc \in DrivingPc \cup {"signal", "release"}
    /\ worker.pc \in {"signal", "release"} => ticket[worker.txn].done
    /\ worker.pc \in DrivingPc =>
           /\ worker.txn = made /\ mailbox = 0 /\ ~ticket[made].done
           /\ \E c \in Caller : Waits(c)

\* The locals of an attempt at the points that read them
AttemptInv ==
    /\ worker.pc = "inhibit" => worker.passes = 0
    /\ worker.pc = "drain" => worker.passes < DrainPasses
    /\ worker.pc \in {"settle", "busy", "decide"} => worker.result # "none"

\* A write has one attempt, and is sent once in it
WriteInv ==
    /\ \A n \in Ticket : n > made => sends[n] = 0
    /\ worker.pc \in DrivingPc /\ Cmd = "write" =>
           /\ worker.attempt = 0
           /\ worker.pc \in {"inhibit", "drain", "readback", "send"} =>
                  sends[made] = 0

\* Everything above together: inductive
IInv ==
    /\ TypeOK /\ BusLockInv /\ TicketInv /\ MailboxInv /\ DriveInv
    /\ AttemptInv /\ TicketsCounted
    /\ WriteInv /\ WritesSentOnce
=============================================================================
