------------------------- MODULE SdhciEngine_proofs -------------------------
(***************************************************************************)
(* Proofs about SdhciEngine, for any number of callers and tickets and any *)
(* commands.  IInv is inductive: most steps only move the worker between   *)
(* the points at which it drives its ticket (FrameInv); the others create, *)
(* post, claim, finish or release a ticket.                                *)
(***************************************************************************)
EXTENDS SdhciEngine, FiniteSetTheorems, TLAPS

\* IInv without the types
Inv ==
    /\ BusLockInv /\ TicketInv /\ MailboxInv /\ DriveInv
    /\ AttemptInv /\ TicketsCounted
    /\ WriteInv /\ WritesSentOnce

-----------------------------------------------------------------------------
\* Types.

LEMMA ResetControllerType ==
    ASSUME NEW b \in BOOLEAN
    PROVE  ResetController(b) \in Controller
BY EngineConstants DEF ResetController, Controller

LEMMA TerminatedType ==
    ASSUME NEW h \in Controller
    PROVE  Terminated(h) \in Controller
<1>1. 0 \in 0..MaxTickets
  BY EngineConstants
<1> QED BY <1>1 DEF Terminated, Controller

LEMMA RestoredType ==
    ASSUME NEW h \in Controller
    PROVE  Restored(h) \subseteq Controller
BY ResetControllerType DEF Restored

LEMMA LinesResetType ==
    ASSUME NEW h \in Controller
    PROVE  LinesReset(h) \in Controller
<1>1. 0 \in 0..MaxTickets
  BY EngineConstants
<1> QED BY <1>1 DEF LinesReset, Controller

LEMMA AcknowledgedType ==
    ASSUME NEW h \in Controller
    PROVE  [h EXCEPT !.latch = Acknowledged(@)] \in Controller
<1>1. Acknowledged(h.latch) \subseteq h.latch
  BY DEF Acknowledged
<1> QED BY <1>1 DEF Controller

LEMMA LatchType ==
    ASSUME NEW h \in Controller, NEW bit \in Bit, NEW n \in Ticket
    PROVE  h.latch \cup {<<bit, n>>} \in SUBSET (Bit \X Ticket)
BY DEF Controller

LEMMA IdleWorkerType == IdleWorker \in WorkerState
BY EngineConstants DEF IdleWorker, WorkerState, AttemptResult

LEMMA GotoType ==
    ASSUME worker \in WorkerState,
           NEW pc \in {"loop", "service", "turn", "arm", "check", "sleep", "inhibit", "drain",
                       "readback", "send", "look", "wait", "settle", "busy",
                       "decide", "signal", "release", "exited"},
           Goto(pc)
    PROVE  worker' \in WorkerState
BY DEF Goto, WorkerState

LEMMA BeginAttemptType ==
    ASSUME NEW n \in 0..MaxTickets, NEW a \in Nat, BeginAttempt(n, a)
    PROVE  worker' \in WorkerState
BY IdleWorkerType DEF BeginAttempt, WorkerState

LEMMA ReleasedType ==
    ASSUME ticket \in [Ticket -> TicketState], TicketsCounted,
           NEW n \in 1..made, made \in 0..MaxTickets,
           WorkerHolds(n) \/ Holders(n) # {}, BusLockInv
    PROVE  Released(n) \in [Ticket -> TicketState]
<1>1. ticket[n].refs = Cardinality(Holders(n))
                       + (IF WorkerHolds(n) THEN 1 ELSE 0)
  BY DEF TicketsCounted
<1>2. IsFiniteSet(Holders(n)) /\ Cardinality(Holders(n)) \in Nat
      /\ (Holders(n) # {} => Cardinality(Holders(n)) = 1)
  <2>1. CASE Holders(n) = {}
    BY <2>1, FS_EmptySet
  <2>2. CASE Holders(n) # {}
    <3>1. PICK c \in Holders(n) : TRUE
      BY <2>2
    <3>2. Holders(n) = {c}
      BY <3>1 DEF Holders, BusLockInv
    <3>3. IsFiniteSet({c}) /\ Cardinality({c}) = 1
      BY FS_Singleton
    <3> QED BY <3>2, <3>3
  <2> QED BY <2>1, <2>2
<1>3. ticket[n].refs >= 1
  BY <1>1, <1>2
<1>4. n \in Ticket /\ ticket[n] \in TicketState
  BY EngineConstants DEF Ticket
<1>5. ticket[n].refs - 1 \in Nat
  BY <1>3, <1>4 DEF TicketState
<1> QED BY <1>4, <1>5 DEF Released, TicketState

\* The worker's ticket has a command while there is one
LEMMA TxnType ==
    ASSUME TypeOK, DriveInv, worker.pc \in DrivingPc \cup {"signal", "release"}
    PROVE  Txn \in Ticket /\ Txn \in 1..made /\ Cmd \in CommandName
<1>1. worker.txn # 0 /\ worker.txn <= made
  BY DEF DriveInv
<1>2. worker.txn \in 0..MaxTickets /\ made \in 0..MaxTickets
  BY DEF TypeOK, WorkerState
<1>3. ticket \in [Ticket -> TicketState]
  BY DEF TypeOK
<1>4. worker.txn \in 1..MaxTickets /\ worker.txn \in 1..made
  BY <1>1, <1>2, EngineConstants
<1> QED BY <1>3, <1>4 DEF Txn, Cmd, Ticket, TicketState

LEMMA CallerTicketType ==
    ASSUME TypeOK, BusLockInv, NEW c \in Caller, InSubmit(c)
    PROVE  /\ caller[c].ticket = made /\ made \in Ticket /\ made \in 1..made
           /\ Holders(made) # {}
<1>1. made \in 0..MaxTickets /\ caller[c].ticket = made /\ made # 0
  BY DEF TypeOK, BusLockInv
<1> QED BY <1>1, EngineConstants DEF Ticket, Holders

LEMMA CallerType ==
    ASSUME TypeOK, NEW c \in Caller,
           NEW pc \in {"idle", "submit", "post", "wait", "asleep", "recover"}
    PROVE  [caller EXCEPT ![c].pc = pc] \in [Caller -> CallerState]
<1>1. caller \in [Caller -> CallerState]
  BY DEF TypeOK
<1> QED BY <1>1 DEF CallerState

LEMMA SubmitType ==
    ASSUME TypeOK, NEW c \in Caller, NEW cmd \in Command, Submit(c, cmd)
    PROVE  TypeOK'
<1>1. made \in 0..MaxTickets /\ made < MaxTickets
  BY DEF TypeOK, Submit
<1>2. made + 1 \in Ticket /\ made + 1 \in 0..MaxTickets
  BY <1>1, EngineConstants DEF Ticket
<1>3. ticket' \in [Ticket -> TicketState]
  <2>1. [cmd |-> cmd, refs |-> 1, done |-> FALSE, result |-> "none"]
            \in TicketState
    BY EngineConstants DEF TicketState
  <2>2. ticket \in [Ticket -> TicketState]
    BY DEF TypeOK
  <2> QED BY <1>2, <2>1, <2>2 DEF Submit
<1>4. caller' \in [Caller -> CallerState]
  <2>1. caller \in [Caller -> CallerState]
    BY DEF TypeOK
  <2>2. [pc |-> "submit", ticket |-> made + 1] \in CallerState
    BY <1>2 DEF CallerState
  <2> QED BY <2>1, <2>2 DEF Submit
<1>5. made' \in 0..MaxTickets
  BY <1>2 DEF Submit
<1> QED BY <1>3, <1>4, <1>5 DEF Submit, TypeOK

LEMMA CallerStepType ==
    ASSUME TypeOK, BusLockInv, TicketsCounted, NEW c \in Caller,
           CallerStep(c) \/ TerminateBus(c)
    PROVE  TypeOK'
<1> USE DEF software
<1>0. NotifyAll \in {"none", "armed", "notified"}
  BY DEF NotifyAll, TypeOK
<1>1. CASE DrainTokens(c)
  <2>1. caller' \in [Caller -> CallerState]
    BY <1>1, CallerType DEF DrainTokens
  <2> QED BY <1>1, <2>1 DEF DrainTokens, TypeOK
<1>2. CASE PostTicket(c)
  <2>0. InSubmit(c)
    BY <1>2 DEF PostTicket, InSubmit
  <2>1. caller' \in [Caller -> CallerState]
    BY <1>2, CallerType DEF PostTicket
  <2>2. caller[c].ticket \in Ticket /\ caller[c].ticket \in 0..MaxTickets
    BY <2>0, CallerTicketType, EngineConstants DEF Ticket
  <2>3. ticket' \in [Ticket -> TicketState]
    <3>1. ticket \in [Ticket -> TicketState]
      BY DEF TypeOK
    <3>2. ticket[caller[c].ticket].refs + 1 \in Nat
      BY <2>2, <3>1 DEF TicketState
    <3> QED BY <1>2, <2>2, <3>1, <3>2 DEF PostTicket, TicketState
  <2>4. mailbox' \in 0..MaxTickets
    BY <1>2, <2>2 DEF PostTicket, TypeOK
  <2> QED BY <1>0, <1>2, <2>1, <2>3, <2>4 DEF PostTicket, TypeOK
<1>3. CASE AwaitDone(c)
  <2>0. InSubmit(c)
    BY <1>3 DEF AwaitDone, InSubmit
  <2>1. IdleCaller \in CallerState
    BY EngineConstants DEF IdleCaller, CallerState
  <2>2. caller' \in [Caller -> CallerState]
    <3>1. CASE ticket[caller[c].ticket].done
      BY <1>3, <2>1, <3>1 DEF AwaitDone, TypeOK
    <3>2. CASE ~ticket[caller[c].ticket].done
      BY <1>3, <3>2, CallerType DEF AwaitDone
    <3> QED BY <3>1, <3>2
  <2>3. ticket' \in [Ticket -> TicketState]
    <3>1. ticket \in [Ticket -> TicketState] /\ made \in 0..MaxTickets
      BY DEF TypeOK
    <3>2. Released(caller[c].ticket) \in [Ticket -> TicketState]
      BY <2>0, <3>1, CallerTicketType, ReleasedType
    <3> QED BY <1>3, <3>1, <3>2 DEF AwaitDone
  <2> QED BY <1>3, <2>2, <2>3 DEF AwaitDone, TypeOK
<1>4. CASE AcquireCompletion(c)
  <2>1. caller' \in [Caller -> CallerState]
    BY <1>4, CallerType DEF AcquireCompletion
  <2>2. completion' \in Nat
    BY <1>4 DEF AcquireCompletion, TypeOK
  <2> QED BY <1>4, <2>1, <2>2 DEF AcquireCompletion, TypeOK
<1>5. CASE RestoreAfterReset(c)
  <2>1. caller' \in [Caller -> CallerState]
    BY <1>5, CallerType DEF RestoreAfterReset
  <2>2. hw' \in Controller
    BY <1>5, RestoredType DEF RestoreAfterReset, TypeOK
  <2> QED BY <1>5, <2>1, <2>2 DEF RestoreAfterReset, TypeOK
<1>6. CASE TerminateBus(c)
  <2>1. caller' \in [Caller -> CallerState]
    BY <1>6, CallerType DEF TerminateBus
  <2>2. hw' \in Controller
    BY <1>6, TerminatedType DEF TerminateBus, TypeOK
  <2>3. recoveries' \in Nat
    BY <1>6 DEF TerminateBus, TypeOK
  <2> QED BY <1>6, <2>1, <2>2, <2>3 DEF TerminateBus, TypeOK
<1> QED BY <1>1, <1>2, <1>3, <1>4, <1>5, <1>6 DEF CallerStep

LEMMA MarkDoneType ==
    ASSUME ticket \in [Ticket -> TicketState], NEW n \in Ticket,
           NEW result \in {"ok", "error", "notReady"}, MarkDone(n, result)
    PROVE  ticket' \in [Ticket -> TicketState]
BY DEF MarkDone, TicketState

\* An error ends the command phase
LEMMA FaultType ==
    ASSUME NEW h \in Controller, NEW d \in 0..MaxTickets,
           NEW latch \in SUBSET (Bit \X Ticket)
    PROVE  [h EXCEPT !.command = 0, !.data = d, !.latch = latch] \in Controller
<1>1. 0 \in 0..MaxTickets
  BY EngineConstants
<1> QED BY <1>1 DEF Controller

\* What an attempt ends with: a verdict that is not "keepPolling"
LEMMA ClassifyType ==
    ASSUME NEW bits, NEW cmd
    PROVE  ClassifyPoll(bits, cmd) \in {"fault", "hard", "ok", "keepPolling"}
BY DEF ClassifyPoll

LEMMA ConcludeType ==
    ASSUME worker \in WorkerState, NEW r \in AttemptResult, Conclude(r)
    PROVE  worker' \in WorkerState
<1>1. 0 \in 0..MaxLooks
  BY EngineConstants
<1> QED BY <1>1 DEF Conclude, WorkerState

\* The mailbox, the sleep and the end of the worker
LEMMA IdleStepType ==
    ASSUME TypeOK, Inv,
           \/ Continue \/ Claim \/ StormSafeIdleClear \/ Arm \/ CheckMailbox
           \/ WakeUp
    PROVE  TypeOK'
<1> USE DEF software
<1>0. worker \in WorkerState /\ hw \in Controller
  BY DEF TypeOK
<1>1. CASE Claim
  <2>1. mailbox \in Ticket /\ mailbox \in 0..MaxTickets
    BY <1>1, EngineConstants DEF Claim, TypeOK, Ticket
  <2>2. mailbox' \in 0..MaxTickets
    BY <1>1, EngineConstants DEF Claim
  <2>3. CASE ticket[mailbox].cmd = "empty"
    <3>1. ticket' \in [Ticket -> TicketState]
      BY <1>1, <2>1, <2>3, MarkDoneType DEF Claim, TypeOK
    <3>2. worker' \in WorkerState
      BY <1>1, <2>1, <2>3, IdleWorkerType DEF Claim, WorkerState
    <3> QED BY <1>1, <2>2, <3>1, <3>2 DEF Claim, TypeOK
  <2>4. CASE ticket[mailbox].cmd # "empty"
    <3>1. worker' \in WorkerState
      BY <1>1, <2>1, <2>4, BeginAttemptType DEF Claim
    <3> QED BY <1>1, <2>2, <2>4, <3>1 DEF Claim, TypeOK
  <2> QED BY <2>3, <2>4
<1>2. CASE StormSafeIdleClear
  <2>1. hw' \in Controller
    BY <1>0, <1>2, AcknowledgedType DEF StormSafeIdleClear
  <2>2. worker' \in WorkerState
    BY <1>0, <1>2, GotoType DEF StormSafeIdleClear
  <2> QED BY <1>2, <2>1, <2>2 DEF StormSafeIdleClear, TypeOK
<1>3. CASE Arm
  <2>1. worker' \in WorkerState
    BY <1>0, <1>3, GotoType DEF Arm
  <2>2. entry' \in {"none", "armed", "notified"}
    BY <1>3 DEF Arm, TypeOK
  <2> QED BY <1>3, <2>1, <2>2 DEF Arm, TypeOK
<1>4. CASE CheckMailbox
  <2>1. worker' \in WorkerState
    BY <1>0, <1>4, GotoType DEF CheckMailbox
  <2>2. entry' \in {"none", "armed", "notified"}
    BY <1>4 DEF CheckMailbox, TypeOK
  <2> QED BY <1>4, <2>1, <2>2 DEF CheckMailbox, TypeOK
<1>5. CASE WakeUp
  <2>1. worker' \in WorkerState
    BY <1>0, <1>5, GotoType DEF WakeUp
  <2> QED BY <1>5, <2>1 DEF WakeUp, TypeOK
<1>6. CASE Continue
  <2>1. worker' \in WorkerState
    BY <1>0, <1>6, GotoType DEF Continue
  <2> QED BY <1>6, <2>1 DEF Continue, TypeOK
<1> QED BY <1>1, <1>2, <1>3, <1>4, <1>5, <1>6

\* From the inhibit bits to the result of the attempt
LEMMA AttemptStepType ==
    ASSUME TypeOK, Inv,
           \/ AwaitInhibit \/ DrainInterrupts \/ ReadBack \/ Send \/ Look
           \/ WaitEnds \/ Settle \/ WaitForR1bBusy
    PROVE  TypeOK'
<1> USE DEF software
<1>0. worker \in WorkerState /\ hw \in Controller
  BY DEF TypeOK
<1>1. CASE AwaitInhibit
  <2>1. worker' \in WorkerState
    <3>1. CASE Goto("drain")
      BY <1>0, <3>1, GotoType
    <3>2. CASE worker' = [worker EXCEPT !.pc = "decide", !.result = "busy"]
      BY <1>0, <3>2 DEF WorkerState, AttemptResult
    <3> QED BY <1>1, <3>1, <3>2 DEF AwaitInhibit
  <2> QED BY <1>1, <2>1 DEF AwaitInhibit, TypeOK
<1>2. CASE DrainInterrupts
  <2>1. hw' \in Controller
    BY <1>0, <1>2, AcknowledgedType DEF DrainInterrupts
  <2>2. worker' \in WorkerState
    <3>1. 0 \in 0..DrainPasses
      BY EngineConstants
    <3>2. CASE hw.latch = {}
      BY <1>0, <1>2, <3>1, <3>2 DEF DrainInterrupts, WorkerState
    <3>3. CASE hw.latch # {}
      <4>1. worker.passes < DrainPasses
        BY <1>2 DEF Inv, AttemptInv, DrainInterrupts
      <4>2. worker.passes + 1 \in 0..DrainPasses
        BY <1>0, <4>1, EngineConstants DEF WorkerState
      <4> QED BY <1>0, <1>2, <3>3, <4>2 DEF DrainInterrupts, WorkerState
    <3> QED BY <3>2, <3>3
  <2> QED BY <1>2, <2>1, <2>2 DEF DrainInterrupts, TypeOK
<1>3. CASE ReadBack
  <2>1. worker' \in WorkerState
    <3>1. 0 \in 0..DrainPasses
      BY EngineConstants
    <3> QED BY <1>0, <1>3, <3>1 DEF ReadBack, WorkerState, AttemptResult
  <2> QED BY <1>3, <2>1 DEF ReadBack, TypeOK
<1>4. CASE Send
  <2>1. Txn \in Ticket /\ Txn \in 0..MaxTickets
    BY <1>4, TxnType, EngineConstants DEF Inv, Send, DrivingPc, Ticket
  <2>2. hw' \in Controller
    BY <1>0, <1>4, <2>1 DEF Send, Controller
  <2>3. sends' \in [Ticket -> Nat]
    <3>1. sends \in [Ticket -> Nat]
      BY DEF TypeOK
    <3>2. sends[Txn] + 1 \in Nat
      BY <2>1, <3>1
    <3> QED BY <1>4, <2>1, <3>1, <3>2 DEF Send
  <2>4. worker' \in WorkerState
    BY <1>0, <1>4, GotoType DEF Send
  <2> QED BY <1>4, <2>2, <2>3, <2>4 DEF Send, TypeOK
<1>5. CASE Look
  <2>1. hw' \in Controller
    BY <1>0, <1>5, AcknowledgedType DEF Look
  <2>2. worker.bits \cup Latched \in SUBSET Bit
    BY <1>0 DEF WorkerState, Controller, Latched
  <2>3. worker' \in WorkerState
    <3> DEFINE bits == worker.bits \cup Latched
               verdict == ClassifyPoll(bits, Cmd)
    <3>0. "fault" \in AttemptResult
      BY DEF AttemptResult
    <3>1. CASE verdict = "keepPolling"
      <4>1. CASE Conclude("fault")
        BY <1>0, <3>0, <4>1, ConcludeType
      <4>2. CASE /\ worker.looks < MaxLooks
                 /\ worker' = [worker EXCEPT !.pc = "wait", !.bits = bits,
                                             !.looks = @ + 1]
        <5>1. worker.looks + 1 \in 0..MaxLooks
          BY <1>0, <4>2, EngineConstants DEF WorkerState
        <5> QED BY <1>0, <2>2, <4>2, <5>1 DEF WorkerState
      <4> QED BY <1>5, <3>1, <4>1, <4>2 DEF Look
    <3>2. CASE verdict # "keepPolling"
      <4>1. verdict \in AttemptResult /\ {"ok", "spuriousOcr"} \subseteq AttemptResult
        BY <3>2, ClassifyType DEF AttemptResult
      <4>2. \E result \in AttemptResult : Conclude(result)
        BY <1>5, <3>2, <4>1 DEF Look
      <4> QED BY <1>0, <4>2, ConcludeType
    <3> QED BY <3>1, <3>2
  <2> QED BY <1>5, <2>1, <2>3 DEF Look, TypeOK
<1>6. CASE WaitEnds
  <2>1. worker' \in WorkerState
    BY <1>0, <1>6, GotoType DEF WaitEnds
  <2> QED BY <1>6, <2>1 DEF WaitEnds, TypeOK
<1>7. CASE Settle
  <2>1. hw' \in Controller
    BY <1>0, <1>7, AcknowledgedType DEF Settle
  <2>2. worker' \in WorkerState
    BY <1>0, <1>7, GotoType DEF Settle
  <2> QED BY <1>7, <2>1, <2>2 DEF Settle, TypeOK
<1>8. CASE WaitForR1bBusy
  <2>1. worker' \in WorkerState
    BY <1>0, <1>8 DEF WaitForR1bBusy, WorkerState, AttemptResult
  <2> QED BY <1>8, <2>1 DEF WaitForR1bBusy, TypeOK
<1> QED BY <1>1, <1>2, <1>3, <1>4, <1>5, <1>6, <1>7, <1>8

LEMMA FinishType ==
    ASSUME TypeOK, Txn \in Ticket, NEW r \in {"ok", "error", "notReady"},
           Finish(r)
    PROVE  ticket' \in [Ticket -> TicketState] /\ worker' \in WorkerState
<1>1. worker \in WorkerState /\ ticket \in [Ticket -> TicketState]
  BY DEF TypeOK
<1> QED BY <1>1, MarkDoneType, GotoType DEF Finish

LEMMA ResetBusType ==
    ASSUME TypeOK, Txn \in Ticket, ResetBus
    PROVE  /\ ticket' \in [Ticket -> TicketState] /\ worker' \in WorkerState
           /\ hw' \in Controller
<1>1. hw' \in Controller
  BY TerminatedType, RestoredType DEF ResetBus, TypeOK
<1> QED BY <1>1, FinishType DEF ResetBus

\* What DecideRetry answers; another attempt only within the budget
LEMMA DecideRetryType ==
    ASSUME NEW result \in AttemptResult \ {"none"}, NEW attempt \in Nat,
           NEW cmd, NEW present \in BOOLEAN
    PROVE  /\ DecideRetry(result, attempt, cmd, present) \in
                  {"Succeed", "Retry", "Fail", "RetryResetLines",
                   "ResetAndReidentify"}
           /\ DecideRetry(result, attempt, cmd, present) \in
                  {"Retry", "RetryResetLines"} => attempt + 1 < Attempts(cmd)
<1>1. CASE result = "ok"
  BY <1>1 DEF DecideRetry
<1>2. CASE result = "spuriousOcr"
  BY <1>2 DEF DecideRetry
<1>3. CASE result = "busy"
  BY <1>3 DEF DecideRetry
<1>4. CASE result = "fault"
  BY <1>4 DEF DecideRetry
<1>5. CASE result = "hard"
  BY <1>5 DEF DecideRetry
<1> QED BY <1>1, <1>2, <1>3, <1>4, <1>5 DEF AttemptResult

\* What Decide may do
LEMMA DecideCases ==
    ASSUME TypeOK, AttemptInv, Decide
    PROVE  \/ Finish("ok") /\ UNCHANGED hw
           \/ FailWith
           \/ ResetBus
           \/ /\ hw' = LinesReset(hw) \/ UNCHANGED hw
              /\ BeginAttempt(Txn, worker.attempt + 1)
              /\ UNCHANGED ticket
              /\ worker.attempt + 1 < Attempts(Cmd)
<1> DEFINE action(p) == DecideRetry(worker.result, worker.attempt, Cmd, p)
           again == BeginAttempt(Txn, worker.attempt + 1)
<1>1. PICK p \in BOOLEAN :
        CASE action(p) = "Succeed" -> Finish("ok") /\ UNCHANGED hw
          [] action(p) = "Fail" -> FailWith
          [] action(p) = "ResetAndReidentify" -> ResetBus
          [] action(p) = "RetryResetLines" ->
                 ResetLinesThen(again /\ UNCHANGED ticket)
          [] action(p) = "Retry" -> again /\ UNCHANGED <<ticket, hw>>
  BY DEF Decide
<1>2. worker.result \in AttemptResult \ {"none"} /\ worker.attempt \in Nat
  BY DEF Decide, AttemptInv, TypeOK, WorkerState
<1>3. action(p) \in {"Succeed", "Retry", "Fail", "RetryResetLines",
                     "ResetAndReidentify"}
  BY <1>2, DecideRetryType
<1>4. action(p) \in {"Retry", "RetryResetLines"}
        => worker.attempt + 1 < Attempts(Cmd)
  BY <1>2, DecideRetryType
<1> HIDE DEF action
<1>5. CASE action(p) = "Succeed"
  BY <1>1, <1>5
<1>6. CASE action(p) = "Fail"
  BY <1>1, <1>6
<1>7. CASE action(p) = "ResetAndReidentify"
  BY <1>1, <1>7
<1>8. CASE action(p) = "RetryResetLines"
  <2>1. ResetLinesThen(again /\ UNCHANGED ticket)
    BY <1>1, <1>8
  <2>2. ResetBus \/ (hw' = LinesReset(hw) /\ again /\ UNCHANGED ticket)
    BY <2>1 DEF ResetLinesThen
  <2> QED BY <1>4, <1>8, <2>2
<1>9. CASE action(p) = "Retry"
  BY <1>1, <1>4, <1>9
<1> QED BY <1>3, <1>5, <1>6, <1>7, <1>8, <1>9

LEMMA FinalStepType ==
    ASSUME TypeOK, Inv, Decide \/ SignalCompletion \/ ReleaseTicket
    PROVE  TypeOK'
<1> USE DEF software
<1>0. /\ worker \in WorkerState /\ hw \in Controller
      /\ ticket \in [Ticket -> TicketState]
  BY DEF TypeOK
<1>1. CASE Decide
  <2>1. Txn \in Ticket /\ Txn \in 0..MaxTickets
    BY <1>1, TxnType, EngineConstants DEF Inv, Decide, DrivingPc, Ticket
  <2>2. /\ ticket' \in [Ticket -> TicketState] /\ worker' \in WorkerState
        /\ hw' \in Controller
    <3>1. CASE Finish("ok") /\ UNCHANGED hw
      BY <1>0, <2>1, <3>1, FinishType
    <3>2. CASE Finish("error") /\ (UNCHANGED hw \/ hw' = LinesReset(hw))
      BY <1>0, <2>1, <3>2, FinishType, LinesResetType
    <3>3. CASE ResetBus
      BY <2>1, <3>3, ResetBusType
    <3>4. CASE /\ hw' = LinesReset(hw) \/ UNCHANGED hw
               /\ BeginAttempt(Txn, worker.attempt + 1)
               /\ UNCHANGED ticket
      <4>1. worker.attempt + 1 \in Nat
        BY <1>0 DEF WorkerState
      <4> QED BY <1>0, <2>1, <3>4, <4>1, BeginAttemptType, LinesResetType
    <3>5. FailWith => ResetBus \/ (Finish("error")
                         /\ (UNCHANGED hw \/ hw' = LinesReset(hw)))
      BY DEF FailWith, ResetLinesThen
    <3> QED BY <1>1, <3>1, <3>2, <3>3, <3>4, <3>5, DecideCases DEF Inv
  <2> QED BY <1>1, <2>2 DEF Decide, TypeOK
<1>2. CASE SignalCompletion
  <2>1. worker' \in WorkerState
    BY <1>0, <1>2, GotoType DEF SignalCompletion
  <2>2. completion' \in Nat
    BY <1>2 DEF SignalCompletion, TypeOK
  <2> QED BY <1>2, <2>1, <2>2 DEF SignalCompletion, TypeOK
<1>3. CASE ReleaseTicket
  <2>1. Txn \in 1..made /\ made \in 0..MaxTickets
    BY <1>3, TxnType DEF Inv, ReleaseTicket, TypeOK
  <2>2. ticket' \in [Ticket -> TicketState]
    BY <1>0, <1>3, <2>1, ReleasedType DEF Inv, ReleaseTicket, WorkerHolds, Txn
  <2>3. worker' \in WorkerState
    BY <1>3, IdleWorkerType DEF ReleaseTicket, WorkerState
  <2> QED BY <1>3, <2>2, <2>3 DEF ReleaseTicket, TypeOK
<1> QED BY <1>1, <1>2, <1>3

LEMMA ControllerStepType ==
    ASSUME TypeOK, ControllerStep
    PROVE  TypeOK'
<1> USE DEF software
<1>0. /\ hw \in Controller /\ 0 \in 0..MaxTickets
      /\ performed \subseteq {"command", "data"} \X Ticket
  BY EngineConstants DEF TypeOK
<1>1. CASE CommandDone
  <2>1. hw.command \in Ticket
    BY <1>0, <1>1, EngineConstants DEF CommandDone, Controller, Ticket
  <2>2. hw.latch \cup {<<"command", hw.command>>} \in SUBSET (Bit \X Ticket)
    BY <1>0, <2>1, LatchType DEF Bit
  <2>3. hw' \in Controller
    BY <1>0, <1>1, <2>2 DEF CommandDone, Controller
  <2>4. performed' \subseteq {"command", "data"} \X Ticket
    BY <1>0, <1>1, <2>1 DEF CommandDone
  <2> QED BY <1>1, <2>3, <2>4 DEF CommandDone, TypeOK
<1>2. CASE CommandFault
  <2>1. hw.command \in Ticket
    BY <1>0, <1>2, EngineConstants DEF CommandFault, Controller, Ticket
  <2>2. \A kind \in {"fault", "hard"} :
            hw.latch \cup {<<kind, hw.command>>} \in SUBSET (Bit \X Ticket)
    BY <1>0, <2>1, LatchType DEF Bit
  <2>3. hw' \in Controller
    <3>1. PICK kind \in {"fault", "hard"} :
              hw' = [hw EXCEPT
                        !.command = 0,
                        !.data = IF @ = hw.command /\ @ # hw.dma THEN 0 ELSE @,
                        !.latch = @ \cup {<<kind, hw.command>>}]
      BY <1>2 DEF CommandFault
    <3>2. hw.latch \cup {<<kind, hw.command>>} \in SUBSET (Bit \X Ticket)
      BY <2>2
    <3>3. (IF hw.data = hw.command /\ hw.data # hw.dma THEN 0 ELSE hw.data)
              \in 0..MaxTickets
      BY <1>0 DEF Controller
    <3> QED BY <1>0, <3>1, <3>2, <3>3, FaultType
  <2> QED BY <1>2, <2>3 DEF CommandFault, TypeOK
<1>3. CASE DataDone
  <2>1. hw.data \in Ticket
    BY <1>0, <1>3, EngineConstants DEF DataDone, Controller, Ticket
  <2>2. \A bit \in {"buffer", "transfer"} :
            hw.latch \cup {<<bit, hw.data>>} \in SUBSET (Bit \X Ticket)
    BY <1>0, <2>1, LatchType DEF Bit
  <2>3. hw' \in Controller
    BY <1>0, <1>3, <2>2 DEF DataDone, Controller
  <2>4. performed' \subseteq {"command", "data"} \X Ticket
    BY <1>0, <1>3, <2>1 DEF DataDone
  <2> QED BY <1>3, <2>3, <2>4 DEF DataDone, TypeOK
<1>4. CASE DataFault
  <2>1. hw.data \in Ticket
    BY <1>0, <1>4, EngineConstants DEF DataFault, Controller, Ticket
  <2>2. \A kind \in {"fault", "hard"} :
            hw.latch \cup {<<kind, hw.data>>} \in SUBSET (Bit \X Ticket)
    BY <1>0, <2>1, LatchType DEF Bit
  <2>3. hw' \in Controller
    BY <1>0, <1>4, <2>2 DEF DataFault, Controller
  <2> QED BY <1>4, <2>3 DEF DataFault, TypeOK
<1> QED BY <1>1, <1>2, <1>3, <1>4 DEF ControllerStep

LEMMA NextType ==
    ASSUME TypeOK, Inv, [Next]_vars
    PROVE  TypeOK'
<1>1. CASE \E c \in Caller :
             \/ \E cmd \in Command : Submit(c, cmd)
             \/ CallerStep(c) \/ TerminateBus(c)
  BY <1>1, SubmitType, CallerStepType DEF Inv
<1>2. CASE WorkerStep
  BY <1>2, IdleStepType, AttemptStepType, FinalStepType DEF WorkerStep
<1>3. CASE ControllerStep
  BY <1>3, ControllerStepType
<1>4. CASE HandleInterruptMeow \/ Uninit
  <2>1. entry' \in {"none", "armed", "notified"}
    BY <1>4 DEF HandleInterruptMeow, Uninit, NotifyAll, TypeOK
  <2> QED BY <1>4, <2>1 DEF HandleInterruptMeow, Uninit, TypeOK
<1>5. CASE UNCHANGED vars
  BY <1>5 DEF vars, TypeOK
<1> QED BY <1>1, <1>2, <1>3, <1>4, <1>5 DEF Next

-----------------------------------------------------------------------------
\* The rest of the invariant.

LEMMA AttemptLocals ==
    ASSUME TypeOK, AttemptInv, [Next]_vars
    PROVE  AttemptInv'
<1> USE DEF AttemptInv
<1>0. worker \in WorkerState
  BY DEF TypeOK
<1>1. CASE UNCHANGED worker
  BY <1>1
<1>2. CASE /\ worker' = [worker EXCEPT !.pc = worker'.pc]
           /\ worker'.pc \notin {"inhibit", "drain", "settle", "busy", "decide"}
  BY <1>0, <1>2
<1>3. CASE \E n, a : BeginAttempt(n, a)
  <2>1. worker'.pc = "inhibit" /\ worker'.passes = 0
    BY <1>3 DEF BeginAttempt, IdleWorker
  <2> QED BY <2>1
<1>4. CASE WorkerStep
  <2>1. CASE Claim
    <3>1. \/ \E n, a : BeginAttempt(n, a)
          \/ worker' = [IdleWorker EXCEPT !.pc = "signal", !.txn = mailbox]
      BY <2>1 DEF Claim
    <3> QED BY <1>3, <3>1 DEF IdleWorker
  <2>2. CASE \/ Continue \/ StormSafeIdleClear \/ Arm \/ CheckMailbox \/ WakeUp
             \/ WaitEnds \/ Send \/ SignalCompletion
    <3>1. \E pc \in {"loop", "turn", "arm", "check", "exited", "sleep", "service",
                     "look", "release"} : Goto(pc)
      BY <2>2 DEF Continue, StormSafeIdleClear, Arm, CheckMailbox, WakeUp,
                  WaitEnds, Send, SignalCompletion
    <3> QED BY <1>0, <1>2, <3>1 DEF Goto, WorkerState
  <2>3. CASE AwaitInhibit
    <3>1. 0 < DrainPasses /\ worker.passes = 0
      BY <2>3, EngineConstants DEF AwaitInhibit
    <3> QED BY <1>0, <2>3, <3>1 DEF AwaitInhibit, Goto, WorkerState
  <2>4. CASE DrainInterrupts
    BY <1>0, <2>4 DEF DrainInterrupts, WorkerState
  <2>5. CASE ReadBack
    BY <1>0, <2>5 DEF ReadBack, WorkerState
  <2>6. CASE Look
    <3> DEFINE bits == worker.bits \cup Latched
               verdict == ClassifyPoll(bits, Cmd)
    <3>1. verdict \in {"fault", "hard", "ok", "keepPolling"}
      BY ClassifyType
    <3>2. \/ worker' = [worker EXCEPT !.pc = "wait", !.bits = bits,
                                      !.looks = @ + 1]
          \/ \E r \in {"fault", "hard", "ok", "spuriousOcr"} : Conclude(r)
      BY <2>6, <3>1 DEF Look
    <3> QED BY <1>0, <3>2 DEF Conclude, WorkerState
  <2>7. CASE Settle
    BY <1>0, <2>7 DEF Settle, Goto, WorkerState
  <2>8. CASE WaitForR1bBusy
    BY <1>0, <2>8 DEF WaitForR1bBusy, WorkerState
  <2>9. CASE Decide
    <3>1. \/ \E r : Finish(r)
          \/ \E n, a : BeginAttempt(n, a)
      BY <2>9, DecideCases DEF FailWith, ResetLinesThen, ResetBus
    <3>2. CASE \E r : Finish(r)
      BY <1>0, <1>2, <3>2 DEF Finish, Goto, WorkerState
    <3> QED BY <1>3, <3>1, <3>2
  <2>10. CASE ReleaseTicket
    BY <2>10 DEF ReleaseTicket, IdleWorker
  <2> QED BY <1>4, <2>1, <2>2, <2>3, <2>4, <2>5, <2>6, <2>7, <2>8, <2>9, <2>10
          DEF WorkerStep
<1>5. CASE ~WorkerStep
  <2>1. UNCHANGED worker
    BY <1>5 DEF Next, vars, software, Submit, CallerStep, DrainTokens,
       PostTicket, AwaitDone, AcquireCompletion, RestoreAfterReset,
       TerminateBus, ControllerStep, CommandDone, CommandFault, DataDone,
       DataFault, HandleInterruptMeow, Uninit
  <2> QED BY <1>1, <2>1
<1> QED BY <1>4, <1>5

\* Where the worker stands with respect to its ticket
Quiet == worker.pc \notin DrivingPc \cup {"signal", "release"}

PreSend == {"inhibit", "drain", "readback", "send"}

\* Steps that leave the tickets, the mailbox and the bus lock alone and let the
\* worker keep its ticket and its attempt
LEMMA FrameInv ==
    ASSUME TypeOK, Inv, AttemptInv',
           UNCHANGED <<ticket, made, mailbox, sends>>,
           \A c \in Caller : /\ caller'[c].ticket = caller[c].ticket
                             /\ InSubmit(c)' <=> InSubmit(c)
                             /\ Waits(c)' <=> Waits(c),
           worker'.txn = worker.txn,
           \/ /\ {worker.pc, worker'.pc} \subseteq DrivingPc
              /\ worker'.attempt = worker.attempt
              /\ worker'.pc \in PreSend => worker.pc \in PreSend
           \/ {worker.pc, worker'.pc} \subseteq {"signal", "release"}
           \/ Quiet /\ Quiet'
    PROVE  Inv'
<1> USE DEF Inv
<1>1. BusLockInv'
  BY DEF BusLockInv
<1>2. TicketInv'
  <2>1. \A c \in Caller : caller[c].pc \in {"submit", "post"}
                            <=> InSubmit(c) /\ ~Waits(c)
    BY DEF InSubmit, Waits
  <2>2. \A c \in Caller : caller'[c].pc \in {"submit", "post"}
                            <=> InSubmit(c)' /\ ~Waits(c)'
    BY DEF InSubmit, Waits
  <2> QED BY <2>1, <2>2 DEF TicketInv
<1>3. MailboxInv'
  BY DEF MailboxInv
<1>4. DriveInv'
  BY DEF DriveInv, Quiet, DrivingPc
<1>5. TicketsCounted'
  <2>1. \A n : Holders(n)' = Holders(n)
    BY DEF Holders
  <2>2. \A n : WorkerHolds(n)' <=> WorkerHolds(n)
    BY DEF WorkerHolds
  <2> QED BY <2>1, <2>2 DEF TicketsCounted
<1>6. WriteInv'
  BY DEF WriteInv, Cmd, Quiet, DrivingPc, PreSend
<1>7. WritesSentOnce'
  BY DEF WritesSentOnce
<1> QED BY <1>1, <1>2, <1>3, <1>4, <1>5, <1>6, <1>7

\* The worker's steps between the events of a ticket
LEMMA WorkerFrame ==
    ASSUME TypeOK, Inv, AttemptInv',
           \/ Continue \/ StormSafeIdleClear \/ Arm \/ CheckMailbox \/ WakeUp
           \/ AwaitInhibit \/ DrainInterrupts \/ ReadBack \/ Look \/ WaitEnds
           \/ Settle \/ WaitForR1bBusy \/ SignalCompletion
    PROVE  Inv'
<1> USE DEF software, InSubmit, Waits, Quiet, DrivingPc, PreSend
<1>0. worker \in WorkerState
  BY DEF TypeOK
<1>1. UNCHANGED <<caller, ticket, made, mailbox, sends>>
  BY DEF Continue, StormSafeIdleClear, Arm, CheckMailbox, WakeUp, AwaitInhibit,
         DrainInterrupts, ReadBack, Look, WaitEnds, Settle, WaitForR1bBusy,
         SignalCompletion
<1>2. CASE Continue \/ StormSafeIdleClear \/ Arm \/ CheckMailbox \/ WakeUp
  <2>1. worker'.txn = worker.txn /\ Quiet /\ Quiet'
    BY <1>0, <1>2 DEF Continue, StormSafeIdleClear, Arm, CheckMailbox, WakeUp,
                      Goto, WorkerState
  <2> QED BY <1>1, <2>1, FrameInv
<1>3. CASE \/ AwaitInhibit \/ DrainInterrupts \/ ReadBack \/ WaitEnds
           \/ Settle \/ WaitForR1bBusy
  <2>1. /\ worker'.txn = worker.txn /\ worker'.attempt = worker.attempt
        /\ {worker.pc, worker'.pc} \subseteq DrivingPc
        /\ worker'.pc \in PreSend => worker.pc \in PreSend
    BY <1>0, <1>3 DEF AwaitInhibit, DrainInterrupts, ReadBack, WaitEnds, Settle,
                      WaitForR1bBusy, Goto, WorkerState
  <2> QED BY <1>1, <2>1, FrameInv
<1>4. CASE Look
  <2>1. /\ worker'.txn = worker.txn /\ worker'.attempt = worker.attempt
        /\ worker.pc = "look" /\ worker'.pc \in {"wait", "settle"}
    BY <1>0, <1>4 DEF Look, Conclude, WorkerState
  <2> QED BY <1>1, <2>1, FrameInv
<1>5. CASE SignalCompletion
  <2>1. /\ worker'.txn = worker.txn
        /\ {worker.pc, worker'.pc} \subseteq {"signal", "release"}
    BY <1>0, <1>5 DEF SignalCompletion, Goto, WorkerState
  <2> QED BY <1>1, <2>1, FrameInv
<1> QED BY <1>2, <1>3, <1>4, <1>5

\* The controller, the interrupt handler, recovery, and the callers' steps that
\* only move the caller
LEMMA OtherFrame ==
    ASSUME TypeOK, Inv, AttemptInv',
           \/ ControllerStep \/ HandleInterruptMeow \/ Uninit
           \/ UNCHANGED vars
           \/ \E c \in Caller :
                  \/ DrainTokens(c) \/ AcquireCompletion(c)
                  \/ AwaitDone(c) /\ ~ticket[caller[c].ticket].done
                  \/ RestoreAfterReset(c) \/ TerminateBus(c)
    PROVE  Inv'
<1> USE DEF software
<1>0. caller \in [Caller -> CallerState]
  BY DEF TypeOK
<1>1. UNCHANGED <<ticket, made, mailbox, sends, worker>>
  BY DEF ControllerStep, CommandDone, CommandFault, DataDone, DataFault,
         HandleInterruptMeow, Uninit, vars, DrainTokens, AcquireCompletion,
         AwaitDone, RestoreAfterReset, TerminateBus
<1>2. \A c \in Caller : /\ caller'[c].ticket = caller[c].ticket
                        /\ InSubmit(c)' <=> InSubmit(c)
                        /\ Waits(c)' <=> Waits(c)
  <2>1. CASE UNCHANGED caller
    BY <2>1 DEF InSubmit, Waits
  <2>2. CASE \E c \in Caller :
                \/ DrainTokens(c) \/ AcquireCompletion(c)
                \/ AwaitDone(c) /\ ~ticket[caller[c].ticket].done
                \/ RestoreAfterReset(c) \/ TerminateBus(c)
    BY <1>0, <2>2 DEF DrainTokens, AcquireCompletion, AwaitDone,
       RestoreAfterReset, TerminateBus, InSubmit, Waits, CallerState
  <2> QED BY <2>1, <2>2 DEF ControllerStep, CommandDone, CommandFault, DataDone,
             DataFault, HandleInterruptMeow, Uninit, vars
<1>3. \/ worker.pc \in DrivingPc
      \/ worker.pc \in {"signal", "release"}
      \/ Quiet
  BY DEF Quiet
<1>4. Quiet => Quiet'
  BY <1>1 DEF Quiet
<1> QED BY <1>1, <1>2, <1>3, <1>4, FrameInv

LEMMA OneOrNone ==
    ASSUME NEW S, \A x, y \in S : x = y
    PROVE  Cardinality(S) = IF S = {} THEN 0 ELSE 1
<1>1. CASE S = {}
  BY <1>1, FS_EmptySet
<1>2. CASE S # {}
  <2>1. PICK x \in S : TRUE
    BY <1>2
  <2>2. S = {x}
    BY <2>1
  <2>3. Cardinality({x}) = 1
    BY FS_Singleton
  <2> QED BY <1>2, <2>2, <2>3
<1> QED BY <1>1, <1>2

\* What the counters range over
LEMMA IndexType ==
    ASSUME TypeOK, NEW n \in 1..made
    PROVE  n \in Ticket
<1>1. made \in 0..MaxTickets
  BY DEF TypeOK
<1> QED BY <1>1, EngineConstants DEF Ticket

\* A ticket has at most one caller
LEMMA HoldersCount ==
    ASSUME BusLockInv, NEW n
    PROVE  /\ Cardinality(Holders(n)) = IF Holders(n) = {} THEN 0 ELSE 1
           /\ Cardinality(Holders(n)) \in Nat
<1>1. \A x, y \in Holders(n) : x = y
  BY DEF Holders, BusLockInv
<1>2. Cardinality(Holders(n)) = IF Holders(n) = {} THEN 0 ELSE 1
  BY <1>1, OneOrNone
<1> QED BY <1>2

LEMMA SubmitInv ==
    ASSUME TypeOK, TypeOK', Inv, AttemptInv',
           NEW c \in Caller, NEW cmd \in Command, Submit(c, cmd)
    PROVE  Inv'
<1> USE DEF Inv, Submit
<1> DEFINE new == made + 1
<1>0. /\ caller \in [Caller -> CallerState] /\ made \in Nat
      /\ ticket \in [Ticket -> TicketState] /\ new \in Ticket
      /\ made' = new /\ worker.txn \in Nat /\ mailbox \in Nat
  BY EngineConstants DEF TypeOK, Ticket, WorkerState
<1>1. \A d \in Caller : ~InSubmit(d) /\ ~Waits(d)
  BY DEF InSubmit, Waits
<1>2. mailbox = 0 /\ worker.pc \notin DrivingPc
  BY <1>1 DEF MailboxInv, DriveInv
<1>3. worker.txn <= made
  BY DEF DriveInv
<1>4. \A d \in Caller : (InSubmit(d)' <=> d = c) /\ ~Waits(d)'
  BY <1>0, <1>1 DEF InSubmit, Waits
<1>5. caller'[c].ticket = new
  BY <1>0
<1>6. \A n \in Ticket : n # new => ticket'[n] = ticket[n]
  BY <1>0
<1>7. BusLockInv'
  BY <1>0, <1>4, <1>5 DEF BusLockInv
<1>8. TicketInv'
  <2>1. sends[new] = 0 /\ ~ticket'[new].done
    BY <1>0 DEF WriteInv
  <2> QED BY <1>0, <1>2, <1>3, <1>4, <2>1 DEF TicketInv
<1>9. MailboxInv'
  BY <1>2 DEF MailboxInv
<1>10. DriveInv'
  <2>1. worker.txn # 0 => worker.txn \in Ticket /\ worker.txn # new
    BY <1>0, <1>3, EngineConstants DEF Ticket, TypeOK, WorkerState
  <2>2. worker.pc \in {"signal", "release"} => ticket'[worker.txn].done
    BY <1>6, <2>1 DEF DriveInv
  <2> QED BY <1>0, <1>2, <1>3, <2>2 DEF DriveInv
<1>11. TicketsCounted'
  <2> SUFFICES ASSUME NEW n \in 1..new
               PROVE  ticket'[n].refs = Cardinality(Holders(n)')
                          + (IF WorkerHolds(n)' THEN 1 ELSE 0)
    BY <1>0 DEF TicketsCounted
  <2>1. WorkerHolds(n)' <=> WorkerHolds(n)
    BY DEF WorkerHolds
  <2>2. n \in Ticket
    BY <1>0, EngineConstants DEF Ticket
  <2>3. CASE n = new
    <3>1. Holders(n)' = {c}
      BY <1>0, <1>4, <1>5, <2>3 DEF Holders
    <3>2. Cardinality(Holders(n)') = 1
      BY <3>1, FS_Singleton
    <3>3. ~WorkerHolds(n)
      BY <1>0, <1>2, <1>3, <2>3 DEF WorkerHolds
    <3>4. ticket'[n].refs = 1
      BY <1>0, <2>3
    <3> QED BY <2>1, <3>2, <3>3, <3>4
  <2>4. CASE n # new
    <3>1. Holders(n)' = {} /\ Holders(n) = {}
      BY <1>1, <1>4, <1>5, <2>4 DEF Holders
    <3>2. n \in 1..made /\ ticket'[n].refs = ticket[n].refs
      BY <1>0, <1>6, <2>2, <2>4
    <3> QED BY <2>1, <3>1, <3>2 DEF TicketsCounted
  <2> QED BY <2>3, <2>4
<1>12. WriteInv'
  <2>1. \A n \in Ticket : n > new => n > made
    BY <1>0 DEF Ticket
  <2> QED BY <1>0, <1>2, <2>1 DEF WriteInv
<1>13. WritesSentOnce'
  <2>1. sends[new] <= 1
    BY <1>0 DEF WriteInv
  <2> QED BY <1>6, <2>1 DEF WritesSentOnce
<1> QED BY <1>7, <1>8, <1>9, <1>10, <1>11, <1>12, <1>13

LEMMA PostTicketInv ==
    ASSUME TypeOK, Inv, AttemptInv', NEW c \in Caller, PostTicket(c)
    PROVE  Inv'
<1> USE DEF Inv, PostTicket
<1>0. /\ caller \in [Caller -> CallerState]
      /\ ticket \in [Ticket -> TicketState]
  BY DEF TypeOK
<1>1. InSubmit(c) /\ ~Waits(c)
  BY DEF InSubmit, Waits
<1>2. /\ caller[c].ticket = made /\ made \in Ticket /\ made \in 1..made
      /\ Holders(made) # {}
  BY <1>1, CallerTicketType
<1>3. /\ mailbox = 0 /\ worker.txn # made /\ sends[made] = 0
      /\ \A d \in Caller : InSubmit(d) => d = c
  BY <1>1 DEF TicketInv, BusLockInv
<1>4. mailbox' = made
  BY <1>2, <1>3
<1>5. /\ ticket'[made].refs = ticket[made].refs + 1
      /\ \A n \in Ticket : /\ ticket'[n].done = ticket[n].done
                           /\ ticket'[n].cmd = ticket[n].cmd
                           /\ n # made => ticket'[n] = ticket[n]
  BY <1>0, <1>2 DEF TicketState
<1>6. \A d \in Caller : /\ InSubmit(d)' <=> InSubmit(d)
                        /\ Waits(d)' <=> d = c
                        /\ caller'[d].ticket = caller[d].ticket
  BY <1>0, <1>1, <1>3 DEF InSubmit, Waits, CallerState
<1>7. BusLockInv'
  BY <1>6 DEF BusLockInv
<1>8. TicketInv'
  <2>1. \A d \in Caller : caller'[d].pc \notin {"submit", "post"}
    BY <1>0, <1>3 DEF InSubmit
  <2> QED BY <1>4, <2>1 DEF TicketInv
<1>9. worker.pc \notin DrivingPc
  BY <1>3 DEF DriveInv
<1>10. ~ticket[made].done
  BY DEF TicketInv
<1>11. MailboxInv'
  BY <1>2, <1>3, <1>4, <1>5, <1>6, <1>10 DEF MailboxInv
<1>12. DriveInv'
  <2>1. worker.pc \in {"signal", "release"} => ticket'[worker.txn].done
    <3>1. worker.pc \in {"signal", "release"} => worker.txn \in Ticket
      BY TxnType DEF Txn
    <3> QED BY <1>5, <3>1 DEF DriveInv
  <2> QED BY <1>9, <2>1 DEF DriveInv
<1>13. TicketsCounted'
  <2> SUFFICES ASSUME NEW n \in 1..made
               PROVE  ticket'[n].refs = Cardinality(Holders(n)')
                          + (IF WorkerHolds(n)' THEN 1 ELSE 0)
    BY DEF TicketsCounted
  <2>1. Holders(n)' = Holders(n)
    BY <1>6 DEF Holders
  <2>2. ticket[n].refs = Cardinality(Holders(n))
                         + (IF WorkerHolds(n) THEN 1 ELSE 0)
    BY DEF TicketsCounted
  <2>3. n \in Ticket
    BY IndexType
  <2>4. CASE n = made
    <3>1. WorkerHolds(n)' /\ ~WorkerHolds(n)
      BY <1>2, <1>3, <1>4, <2>4 DEF WorkerHolds
    <3>2. Cardinality(Holders(n)) \in Nat
      BY HoldersCount
    <3> QED BY <1>5, <2>1, <2>2, <2>4, <3>1, <3>2
  <2>5. CASE n # made
    <3>1. WorkerHolds(n)' <=> WorkerHolds(n)
      BY <1>2, <1>3, <1>4, <2>5 DEF WorkerHolds
    <3> QED BY <1>5, <2>1, <2>2, <2>3, <2>5, <3>1
  <2> QED BY <2>4, <2>5
<1>14. WriteInv'
  BY <1>9 DEF WriteInv
<1>15. WritesSentOnce'
  BY <1>5 DEF WritesSentOnce
<1> QED BY <1>7, <1>8, <1>11, <1>12, <1>13, <1>14, <1>15

\* The caller leaves with its result: its ticket is neither in the mailbox nor
\* driven any more
LEMMA AwaitDoneInv ==
    ASSUME TypeOK, Inv, AttemptInv', NEW c \in Caller, AwaitDone(c),
           ticket[caller[c].ticket].done
    PROVE  Inv'
<1> USE DEF Inv
<1>0. /\ caller \in [Caller -> CallerState]
      /\ ticket \in [Ticket -> TicketState]
      /\ UNCHANGED <<made, mailbox, worker, sends>>
  BY DEF TypeOK, AwaitDone
<1>1. InSubmit(c) /\ Waits(c)
  BY DEF InSubmit, Waits, AwaitDone
<1>2. /\ caller[c].ticket = made /\ made \in Ticket /\ made \in 1..made
      /\ Holders(made) # {} /\ ticket[made].done
  BY <1>1, CallerTicketType
<1>3. \A d \in Caller : InSubmit(d) => d = c
  BY <1>1 DEF BusLockInv
<1>4. \A d \in Caller : ~InSubmit(d)' /\ ~Waits(d)'
                        /\ caller'[d].pc \notin {"submit", "post"}
  BY <1>0, <1>3 DEF AwaitDone, IdleCaller, InSubmit, Waits
<1>5. mailbox = 0 /\ worker.pc \notin DrivingPc
  BY <1>2 DEF MailboxInv, DriveInv
<1>6. /\ ticket'[made].refs = ticket[made].refs - 1
      /\ \A n \in Ticket : /\ ticket'[n].done = ticket[n].done
                           /\ ticket'[n].cmd = ticket[n].cmd
                           /\ n # made => ticket'[n] = ticket[n]
  BY <1>0, <1>2 DEF AwaitDone, Released, TicketState
<1>7. BusLockInv' /\ TicketInv' /\ MailboxInv'
  BY <1>0, <1>4, <1>5 DEF BusLockInv, TicketInv, MailboxInv
<1>8. DriveInv'
  <2>1. worker.pc \in {"signal", "release"} => ticket'[worker.txn].done
    <3>1. worker.pc \in {"signal", "release"} => worker.txn \in Ticket
      BY TxnType DEF Txn
    <3> QED BY <1>6, <3>1 DEF DriveInv
  <2> QED BY <1>0, <1>5, <2>1 DEF DriveInv
<1>9. TicketsCounted'
  <2> SUFFICES ASSUME NEW n \in 1..made
               PROVE  ticket'[n].refs = Cardinality(Holders(n)')
                          + (IF WorkerHolds(n)' THEN 1 ELSE 0)
    BY <1>0 DEF TicketsCounted
  <2>1. Cardinality(Holders(n)') = 0
    <3>1. Holders(n)' = {}
      BY <1>4 DEF Holders
    <3> QED BY <3>1, FS_EmptySet
  <2>2. ticket[n].refs = Cardinality(Holders(n))
                         + (IF WorkerHolds(n) THEN 1 ELSE 0)
    BY DEF TicketsCounted
  <2>3. n \in Ticket
    BY IndexType
  <2>4. WorkerHolds(n)' <=> WorkerHolds(n)
    BY <1>0 DEF WorkerHolds
  <2>5. CASE n = made
    <3>1. Cardinality(Holders(n)) = 1
      BY <1>2, <2>5, HoldersCount
    <3> QED BY <1>6, <2>1, <2>2, <2>4, <2>5, <3>1
  <2>6. CASE n # made
    <3>1. Holders(n) = {}
      BY <1>2, <1>3, <2>6 DEF Holders
    <3>2. Cardinality(Holders(n)) = 0
      BY <3>1, FS_EmptySet
    <3> QED BY <1>6, <2>1, <2>2, <2>3, <2>4, <2>6, <3>2
  <2> QED BY <2>5, <2>6
<1>10. WriteInv'
  BY <1>0, <1>5 DEF WriteInv
<1>11. WritesSentOnce'
  BY <1>0, <1>6 DEF WritesSentOnce
<1> QED BY <1>7, <1>8, <1>9, <1>10, <1>11

\* The worker takes the ticket out of the mailbox
LEMMA ClaimInv ==
    ASSUME TypeOK, Inv, AttemptInv', Claim
    PROVE  Inv'
<1> USE DEF Inv
<1>0. /\ ticket \in [Ticket -> TicketState] /\ worker.txn \in Nat
      /\ UNCHANGED <<caller, made, sends>> /\ mailbox' = 0 /\ made \in Nat
  BY EngineConstants DEF TypeOK, Claim, WorkerState
<1>1. /\ mailbox = made /\ made # 0 /\ worker.txn # made
      /\ ~ticket[made].done /\ sends[made] = 0
      /\ \E c \in Caller : Waits(c)
  BY DEF Claim, MailboxInv
<1>2. worker.pc = "service" /\ worker.txn = 0
  BY DEF Claim, DriveInv, DrivingPc
<1>3. made \in Ticket
  BY <1>1, EngineConstants DEF TypeOK, Ticket
<1>4. /\ worker'.txn = made
      /\ \A n \in Ticket : /\ ticket'[n].refs = ticket[n].refs
                           /\ ticket'[n].cmd = ticket[n].cmd
                           /\ n # made => ticket'[n] = ticket[n]
      /\ \/ worker'.pc = "signal" /\ ticket'[made].done
         \/ worker'.pc = "inhibit" /\ worker'.attempt = 0 /\ UNCHANGED ticket
  <2>1. CASE ticket[mailbox].cmd = "empty"
    <3>1. worker'.txn = mailbox /\ worker'.pc = "signal"
      BY <2>1 DEF Claim, IdleWorker
    <3>2. MarkDone(mailbox, "ok")
      BY <2>1 DEF Claim
    <3>3. mailbox \in Ticket
      BY <1>1, <1>3
    <3>4. /\ ticket'[mailbox].done
          /\ \A n \in Ticket : /\ ticket'[n].refs = ticket[n].refs
                               /\ ticket'[n].cmd = ticket[n].cmd
                               /\ n # mailbox => ticket'[n] = ticket[n]
      BY <1>0, <3>2, <3>3 DEF MarkDone, TicketState
    <3> QED BY <1>1, <3>1, <3>4
  <2>2. CASE ticket[mailbox].cmd # "empty"
    <3>1. BeginAttempt(mailbox, 0) /\ UNCHANGED ticket
      BY <2>2 DEF Claim
    <3>2. worker'.txn = mailbox /\ worker'.pc = "inhibit" /\ worker'.attempt = 0
      BY <3>1 DEF BeginAttempt, IdleWorker
    <3> QED BY <1>1, <3>1, <3>2
  <2> QED BY <2>1, <2>2
<1>5. \A c \in Caller : /\ InSubmit(c)' <=> InSubmit(c)
                        /\ Waits(c)' <=> Waits(c)
                        /\ Waits(c) => caller[c].pc \notin {"submit", "post"}
                        /\ Waits(c) => InSubmit(c)
  BY <1>0 DEF InSubmit, Waits
<1>6. \A c \in Caller : caller[c].pc \notin {"submit", "post"}
  BY <1>1 DEF TicketInv
<1>7. BusLockInv'
  BY <1>0, <1>5 DEF BusLockInv
<1>8. TicketInv'
  BY <1>0, <1>4, <1>6 DEF TicketInv
<1>9. MailboxInv'
  BY <1>0 DEF MailboxInv
<1>10. DriveInv'
  BY <1>0, <1>1, <1>4, <1>5 DEF DriveInv, DrivingPc
<1>11. TicketsCounted'
  <2>1. \A n \in 1..made : n \in Ticket
    BY IndexType
  <2>2. \A n : Holders(n)' = Holders(n)
    BY <1>0, <1>5 DEF Holders
  <2>3. \A n \in 1..made : WorkerHolds(n)' <=> WorkerHolds(n)
    BY <1>0, <1>1, <1>2, <1>4 DEF WorkerHolds
  <2> QED BY <1>0, <1>4, <2>1, <2>2, <2>3 DEF TicketsCounted
<1>12. WriteInv'
  BY <1>0, <1>1, <1>4 DEF WriteInv, DrivingPc
<1>13. WritesSentOnce'
  BY <1>0, <1>4 DEF WritesSentOnce
<1> QED BY <1>7, <1>8, <1>9, <1>10, <1>11, <1>12, <1>13

\* A write is sent in its only attempt, before which it was never sent
LEMMA SendInv ==
    ASSUME TypeOK, Inv, AttemptInv', Send
    PROVE  Inv'
<1> USE DEF Inv
<1>0. /\ worker \in WorkerState /\ sends \in [Ticket -> Nat]
      /\ UNCHANGED <<caller, ticket, made, mailbox>>
  BY DEF TypeOK, Send, software
<1>1. worker.pc = "send" /\ worker.txn = made /\ ~ticket[made].done
      /\ mailbox = 0 /\ made \in Ticket
  BY TxnType DEF Send, DriveInv, DrivingPc, Txn
<1>2. /\ worker'.pc = "look" /\ worker'.txn = made
      /\ worker'.attempt = worker.attempt
  BY <1>0, <1>1 DEF Send, Goto, WorkerState
<1>3. /\ sends'[made] = sends[made] + 1
      /\ \A n \in Ticket : n # made => sends'[n] = sends[n]
  BY <1>0, <1>1 DEF Send, Txn
<1>4. \A c \in Caller : /\ InSubmit(c)' <=> InSubmit(c)
                        /\ Waits(c)' <=> Waits(c)
                        /\ caller[c].pc \notin {"submit", "post"}
  BY <1>0, <1>1 DEF InSubmit, Waits, TicketInv
<1>5. BusLockInv'
  BY <1>0, <1>4 DEF BusLockInv
<1>6. TicketInv' /\ MailboxInv'
  BY <1>0, <1>1, <1>2, <1>4 DEF TicketInv, MailboxInv
<1>7. DriveInv'
  BY <1>0, <1>1, <1>2, <1>4 DEF DriveInv, DrivingPc
<1>8. TicketsCounted'
  <2>1. \A n : Holders(n)' = Holders(n) /\ (WorkerHolds(n)' <=> WorkerHolds(n))
    BY <1>0, <1>1, <1>2 DEF Holders, WorkerHolds, InSubmit
  <2> QED BY <1>0, <2>1 DEF TicketsCounted
<1>9. WriteInv'
  <2>1. \A n \in Ticket : n > made => n # made
    BY <1>1 DEF Ticket
  <2> QED BY <1>0, <1>1, <1>2, <1>3, <2>1 DEF WriteInv, DrivingPc, Cmd
<1>10. WritesSentOnce'
  <2>1. ticket[made].cmd = "write" => sends[made] = 0
    BY <1>1 DEF WriteInv, DrivingPc, Cmd
  <2> QED BY <1>0, <1>1, <1>3, <2>1 DEF WritesSentOnce
<1> QED BY <1>5, <1>6, <1>7, <1>8, <1>9, <1>10

\* The attempt is over: the ticket is done, or a command that is no write
\* begins another one
LEMMA DecideInv ==
    ASSUME TypeOK, Inv, AttemptInv', Decide
    PROVE  Inv'
<1> USE DEF Inv
<1>0. /\ worker \in WorkerState /\ ticket \in [Ticket -> TicketState]
      /\ UNCHANGED <<caller, made, mailbox, sends>>
  BY DEF TypeOK, Decide, software
<1>1. /\ worker.pc = "decide" /\ worker.txn = made /\ ~ticket[made].done
      /\ mailbox = 0 /\ made \in Ticket /\ \E c \in Caller : Waits(c)
  BY TxnType DEF Decide, DriveInv, DrivingPc, Txn
<1>2. /\ worker'.txn = made
      /\ \A n \in Ticket : /\ ticket'[n].refs = ticket[n].refs
                           /\ ticket'[n].cmd = ticket[n].cmd
                           /\ n # made => ticket'[n] = ticket[n]
      /\ \/ worker'.pc = "signal" /\ ticket'[made].done
         \/ /\ worker'.pc = "inhibit" /\ UNCHANGED ticket
            /\ ticket[made].cmd # "write"
  <2>1. \/ \E r : Finish(r)
        \/ /\ BeginAttempt(Txn, worker.attempt + 1) /\ UNCHANGED ticket
           /\ worker.attempt + 1 < Attempts(Cmd)
    BY DecideCases DEF FailWith, ResetLinesThen, ResetBus
  <2>2. CASE \E r : Finish(r)
    BY <1>0, <1>1, <2>2 DEF Finish, MarkDone, Goto, Txn, WorkerState, TicketState
  <2>3. CASE /\ BeginAttempt(Txn, worker.attempt + 1) /\ UNCHANGED ticket
             /\ worker.attempt + 1 < Attempts(Cmd)
    <3>1. Cmd # "write"
      <4>1. Attempts("write") = 1
        BY DEF Attempts, Constraints
      <4>2. worker.attempt \in Nat
        BY <1>0 DEF WorkerState
      <4> QED BY <2>3, <4>1, <4>2
    <3> QED BY <1>0, <1>1, <2>3, <3>1
            DEF BeginAttempt, IdleWorker, Txn, Cmd
  <2> QED BY <2>1, <2>2, <2>3
<1>3. \A c \in Caller : /\ InSubmit(c)' <=> InSubmit(c)
                        /\ Waits(c)' <=> Waits(c)
                        /\ caller[c].pc \notin {"submit", "post"}
  BY <1>0, <1>1 DEF InSubmit, Waits, TicketInv
<1>4. BusLockInv'
  BY <1>0, <1>3 DEF BusLockInv
<1>5. TicketInv' /\ MailboxInv'
  BY <1>0, <1>1, <1>2, <1>3 DEF TicketInv, MailboxInv
<1>6. DriveInv'
  BY <1>0, <1>1, <1>2, <1>3 DEF DriveInv, DrivingPc
<1>7. TicketsCounted'
  <2>1. \A n \in 1..made : n \in Ticket
    BY IndexType
  <2>2. \A n : Holders(n)' = Holders(n) /\ (WorkerHolds(n)' <=> WorkerHolds(n))
    BY <1>0, <1>1, <1>2 DEF Holders, WorkerHolds, InSubmit
  <2> QED BY <1>0, <1>2, <2>1, <2>2 DEF TicketsCounted
<1>8. WriteInv'
  BY <1>0, <1>1, <1>2 DEF WriteInv, DrivingPc, Cmd
<1>9. WritesSentOnce'
  BY <1>0, <1>2 DEF WritesSentOnce
<1> QED BY <1>4, <1>5, <1>6, <1>7, <1>8, <1>9

\* The worker drops its reference after the caller was signalled
LEMMA ReleaseInv ==
    ASSUME TypeOK, Inv, AttemptInv', ReleaseTicket
    PROVE  Inv'
<1> USE DEF Inv
<1>0. /\ ticket \in [Ticket -> TicketState]
      /\ UNCHANGED <<caller, made, mailbox, sends>> /\ made \in Nat
      /\ worker'.txn = 0 /\ worker'.pc = "turn"
  BY EngineConstants DEF TypeOK, ReleaseTicket, software, IdleWorker
<1> DEFINE old == worker.txn
<1>1. old \in Ticket /\ old \in 1..made /\ ticket[old].done /\ old # 0
  BY TxnType DEF ReleaseTicket, DriveInv, Txn
<1>2. /\ ticket'[old].refs = ticket[old].refs - 1
      /\ \A n \in Ticket : /\ ticket'[n].done = ticket[n].done
                           /\ ticket'[n].cmd = ticket[n].cmd
                           /\ n # old => ticket'[n] = ticket[n]
  BY <1>0, <1>1 DEF ReleaseTicket, Released, Txn, TicketState
<1>3. mailbox # old
  BY <1>1 DEF MailboxInv
<1> HIDE DEF old
<1>4. \A c \in Caller : /\ InSubmit(c)' <=> InSubmit(c)
                        /\ Waits(c)' <=> Waits(c)
                        /\ Waits(c) => InSubmit(c)
                        /\ caller[c].pc \in {"submit", "post"} => InSubmit(c)
  BY <1>0 DEF InSubmit, Waits
<1>5. BusLockInv'
  BY <1>0, <1>4 DEF BusLockInv
<1>6. \A c \in Caller : InSubmit(c) => made \in Ticket /\ made # 0
  BY CallerTicketType, EngineConstants DEF BusLockInv
<1>7. TicketInv'
  <2>1. \A c \in Caller : Waits(c) =>
            ticket[made].done \/ mailbox = made
    BY <1>1 DEF TicketInv, old
  <2> QED BY <1>0, <1>2, <1>4, <1>6, <2>1 DEF TicketInv
<1>8. MailboxInv'
  BY <1>0, <1>2, <1>4, <1>6 DEF MailboxInv
<1>9. DriveInv'
  BY <1>0 DEF DriveInv, DrivingPc
<1>10. TicketsCounted'
  <2> SUFFICES ASSUME NEW n \in 1..made
               PROVE  ticket'[n].refs = Cardinality(Holders(n)')
                          + (IF WorkerHolds(n)' THEN 1 ELSE 0)
    BY <1>0 DEF TicketsCounted
  <2>1. Holders(n)' = Holders(n) /\ Cardinality(Holders(n)) \in Nat
    BY <1>0, <1>4, HoldersCount DEF Holders
  <2>2. ticket[n].refs = Cardinality(Holders(n))
                         + (IF WorkerHolds(n) THEN 1 ELSE 0)
    BY DEF TicketsCounted
  <2>3. n \in Ticket
    BY IndexType
  <2>4. CASE n = old
    <3>1. WorkerHolds(n) /\ ~WorkerHolds(n)'
      BY <1>0, <1>1, <1>3, <2>4 DEF WorkerHolds, old
    <3> QED BY <1>2, <2>1, <2>2, <2>4, <3>1
  <2>5. CASE n # old
    <3>1. WorkerHolds(n)' <=> WorkerHolds(n)
      BY <1>0, <2>5 DEF WorkerHolds, old
    <3> QED BY <1>2, <2>1, <2>2, <2>3, <2>5, <3>1
  <2> QED BY <2>4, <2>5
<1>11. WriteInv'
  BY <1>0 DEF WriteInv, DrivingPc
<1>12. WritesSentOnce'
  BY <1>0, <1>2 DEF WritesSentOnce
<1> QED BY <1>5, <1>7, <1>8, <1>9, <1>10, <1>11, <1>12

\* Every step preserves the rest of the invariant
LEMMA NextInv ==
    ASSUME TypeOK, TypeOK', Inv, [Next]_vars
    PROVE  Inv'
<1>1. AttemptInv'
  BY AttemptLocals DEF Inv
<1>2. CASE \E c \in Caller :
              \/ \E cmd \in Command : Submit(c, cmd)
              \/ CallerStep(c) \/ TerminateBus(c)
  BY <1>1, <1>2, SubmitInv, PostTicketInv, AwaitDoneInv, OtherFrame
     DEF CallerStep
<1>3. CASE WorkerStep
  BY <1>1, <1>3, WorkerFrame, ClaimInv, SendInv, DecideInv, ReleaseInv
     DEF WorkerStep
<1>4. CASE ControllerStep \/ HandleInterruptMeow \/ Uninit \/ UNCHANGED vars
  BY <1>1, <1>4, OtherFrame
<1> QED BY <1>2, <1>3, <1>4 DEF Next

LEMMA InitInv ==
    ASSUME Init
    PROVE  IInv
<1>1. TypeOK
  <2>1. IdleCaller \in CallerState
    BY EngineConstants DEF IdleCaller, CallerState
  <2>2. [cmd |-> "plain", refs |-> 0, done |-> FALSE, result |-> "none"]
            \in TicketState
    BY DEF TicketState, CommandName
  <2>3. 0 \in 0..MaxTickets
    BY EngineConstants
  <2> QED BY <2>1, <2>2, <2>3, IdleWorkerType, ResetControllerType
          DEF Init, TypeOK
<1>2. \A c \in Caller : ~InSubmit(c) /\ ~Waits(c)
                        /\ caller[c].pc \notin {"submit", "post"}
  BY DEF Init, IdleCaller, InSubmit, Waits
<1>3. worker.pc = "loop" /\ worker.txn = 0
  BY DEF Init, IdleWorker
<1>4. BusLockInv /\ TicketInv /\ MailboxInv /\ AttemptInv
  BY <1>2, <1>3 DEF Init, BusLockInv, TicketInv, MailboxInv, AttemptInv
<1>5. DriveInv
  BY <1>3 DEF Init, DriveInv, DrivingPc
<1>6. TicketsCounted /\ WriteInv /\ WritesSentOnce
  BY <1>3 DEF Init, TicketsCounted, WriteInv, WritesSentOnce, DrivingPc
<1> QED BY <1>1, <1>4, <1>5, <1>6 DEF IInv

-----------------------------------------------------------------------------
\* IInv is invariant: whatever the callers, the card and the controller do, at
\* most one ticket is under way and the worker, the mailbox and the caller
\* agree where it is.
THEOREM Invariance == Spec => []IInv
<1>1. Init => IInv
  BY InitInv
<1>2. IInv /\ [Next]_vars => IInv'
  <2> SUFFICES ASSUME IInv, [Next]_vars
               PROVE  IInv'
    OBVIOUS
  <2>1. TypeOK /\ Inv
    BY DEF IInv, Inv
  <2>2. TypeOK'
    BY <2>1, NextType
  <2>3. Inv'
    BY <2>1, <2>2, NextInv
  <2> QED BY <2>2, <2>3 DEF IInv, Inv
<1> QED BY <1>1, <1>2, PTL DEF Spec

\* Every variable of the engine keeps its type, and the counting semaphore
\* never goes below zero.
THEOREM TypeCorrect == Spec => []TypeOK
<1>1. IInv => TypeOK
  BY DEF IInv
<1> QED BY <1>1, Invariance, PTL

\* TransactionMailbox::Post never finds the slot occupied, so its unchecked
\* compare-and-swap never drops a ticket.
THEOREM MailboxCorrect == Spec => []MailboxEmptyAtPost
<1>1. IInv => MailboxEmptyAtPost
  BY DEF IInv, TicketInv, MailboxEmptyAtPost
<1> QED BY <1>1, Invariance, PTL

\* A ticket's reference count is exactly the number of its holders: it is freed
\* neither early nor never.
THEOREM TicketsCorrect == Spec => []TicketsCounted
<1>1. IInv => TicketsCounted
  BY DEF IInv
<1> QED BY <1>1, Invariance, PTL

\* No retry path of _DriveTransaction and DecideRetry issues a write twice.
THEOREM WritesCorrect == Spec => []WritesSentOnce
<1>1. IInv => WritesSentOnce
  BY DEF IInv
<1> QED BY <1>1, Invariance, PTL

-----------------------------------------------------------------------------
(***************************************************************************)
(* DMA and the answers of the card.  The worker looks for the end of a     *)
(* transfer only after a Send for which the data line was idle and nothing *)
(* was latched, so what it sees belongs to this attempt.                   *)
(***************************************************************************)

Sent == {"look", "wait", "settle", "decide"}
DataEnded == {"transfer", "buffer"} \cap (worker.bits \cup Latched) # {}
Accepted == worker.result \in {"ok", "spuriousOcr"}

\* The controller moves data only for the ticket that is driven, between its
\* Send and the end of its transfer
DmaInv ==
    /\ hw.dma # 0 => /\ hw.dma = made /\ hw.data = made
                     /\ worker.pc \in Sent /\ HasData(Cmd)
    /\ worker.pc \in PreSend => worker.bits = {}
    /\ worker.pc \in {"drain", "readback", "send"} /\ HasData(Cmd) => hw.data = 0
    /\ worker.pc = "send" /\ HasData(Cmd) => ~DataEnded
    /\ worker.pc \in {"look", "wait"} /\ DataEnded => hw.dma = 0
    /\ worker.pc \in {"settle", "decide"} /\ Accepted => hw.dma = 0

\* No command leaves the data line busy after its answer
NoBusyReplies == \A n \in Ticket : ~HasBusyReply(ticket[n].cmd)

\* Then what is latched after a Send tells what the card did for that ticket
EvidenceInv ==
    /\ worker.pc # "busy"
    /\ hw.enabled /\ hw.data # 0 =>
           hw.data = made /\ worker.pc \in Sent /\ HasData(Cmd)
    /\ worker.pc \in {"drain", "readback", "send"} => hw.command = 0
    /\ worker.pc = "send" => ~DataEnded /\ "command" \notin Latched
    /\ worker.pc \in {"look", "wait"} =>
           /\ hw.command \in {0, made}
           /\ "command" \in worker.bits \cup Latched => <<"command", made>> \in performed
           /\ DataEnded => /\ {<<"command", made>>, <<"data", made>>} \subseteq performed
                           /\ hw.data = 0
    /\ worker.pc \in {"settle", "decide"} /\ Accepted =>
           /\ <<"command", made>> \in performed
           /\ HasData(Cmd) => <<"data", made>> \in performed /\ hw.data = 0

\* What a step adds to the latch, and what an acknowledgement leaves
LEMMA LatchedAdds ==
    ASSUME NEW bit, NEW n, hw'.latch = hw.latch \cup {<<bit, n>>}
    PROVE  Latched' = Latched \cup {bit}
<1>1. <<bit, n>>[1] = bit
  OBVIOUS
<1>2. \A x : x \in Latched' <=> \E p \in hw.latch \cup {<<bit, n>>} : x = p[1]
  BY DEF Latched
<1>3. \A x : x \in Latched <=> \E p \in hw.latch : x = p[1]
  BY DEF Latched
<1>4. \A x : x \in Latched' <=> x \in Latched \/ x = bit
  BY <1>1, <1>2, <1>3
<1> QED BY <1>4

LEMMA LatchedCleared ==
    ASSUME TypeOK, hw' = [hw EXCEPT !.latch = Acknowledged(@)]
    PROVE  /\ hw'.latch = {} /\ Latched' = {}
           /\ hw'.dma = hw.dma /\ hw'.data = hw.data /\ hw'.command = hw.command
           /\ hw'.enabled = hw.enabled
<1>1. hw \in Controller
  BY DEF TypeOK
<1>2. Acknowledged(hw.latch) = {}
  BY <1>1 DEF Acknowledged, Controller
<1>3. hw'.latch = {}
  BY <1>1, <1>2 DEF Controller
<1> QED BY <1>1, <1>3 DEF Controller, Latched

\* An error latches, and may free the data line
LEMMA FaultFields ==
    ASSUME hw \in Controller, NEW d, NEW l
    PROVE  /\ [hw EXCEPT !.command = 0, !.data = d, !.latch = l].data = d
           /\ [hw EXCEPT !.command = 0, !.data = d, !.latch = l].latch = l
           /\ [hw EXCEPT !.command = 0, !.data = d, !.latch = l].dma = hw.dma
           /\ [hw EXCEPT !.command = 0, !.data = d, !.latch = l].command = 0
           /\ [hw EXCEPT !.command = 0, !.data = d, !.latch = l].enabled = hw.enabled
           /\ [hw EXCEPT !.latch = l].data = hw.data
           /\ [hw EXCEPT !.latch = l].latch = l
           /\ [hw EXCEPT !.latch = l].dma = hw.dma
           /\ [hw EXCEPT !.latch = l].command = hw.command
           /\ [hw EXCEPT !.latch = l].enabled = hw.enabled
BY DEF Controller

LEMMA FaultCases ==
    ASSUME TypeOK, CommandFault \/ DataFault
    PROVE  /\ hw'.dma = hw.dma /\ hw'.enabled = hw.enabled
           /\ hw'.data = hw.data \/ (hw'.data = 0 /\ hw.data # hw.dma)
           /\ hw'.command \in {0, hw.command}
           /\ Latched' = Latched \cup {"fault"} \/ Latched' = Latched \cup {"hard"}
<1>0. hw \in Controller
  BY DEF TypeOK
<1>1. CASE CommandFault
  <2>1. PICK kind \in {"fault", "hard"} :
           hw' = [hw EXCEPT !.command = 0,
                            !.data = IF hw.data = hw.command /\ hw.data # hw.dma
                                     THEN 0 ELSE hw.data,
                            !.latch = hw.latch \cup {<<kind, hw.command>>}]
    BY <1>1 DEF CommandFault
  <2>2. /\ hw'.dma = hw.dma /\ hw'.enabled = hw.enabled /\ hw'.command = 0
        /\ hw'.data = IF hw.data = hw.command /\ hw.data # hw.dma THEN 0 ELSE hw.data
        /\ hw'.latch = hw.latch \cup {<<kind, hw.command>>}
    BY <1>0, <2>1, FaultFields
  <2>3. Latched' = Latched \cup {kind}
    BY <2>2, LatchedAdds
  <2> QED BY <2>2, <2>3
<1>2. CASE DataFault
  <2>1. PICK kind \in {"fault", "hard"} :
           hw' = [hw EXCEPT !.latch = hw.latch \cup {<<kind, hw.data>>}]
    BY <1>2 DEF DataFault
  <2>2. /\ hw'.dma = hw.dma /\ hw'.enabled = hw.enabled /\ hw'.command = hw.command
        /\ hw'.data = hw.data /\ hw'.latch = hw.latch \cup {<<kind, hw.data>>}
    BY <1>0, <2>1, FaultFields
  <2>3. Latched' = Latched \cup {kind}
    BY <2>2, LatchedAdds
  <2> QED BY <2>2, <2>3
<1> QED BY <1>1, <1>2

\* After an attempt the controller is reset, unless the answer is accepted or
\* nothing was to be transferred
LEMMA DecideLines ==
    ASSUME TypeOK, AttemptInv, Decide
    PROVE  /\ worker.pc = "decide"
           /\ worker'.pc = "signal" \/ (worker'.pc = "inhibit" /\ worker'.bits = {})
           /\ \/ hw' = LinesReset(hw)
              \/ hw' \in Restored(Terminated(hw))
              \/ hw' = hw /\ (Accepted \/ ~HasData(Cmd))
           /\ UNCHANGED ticket
              \/ \E r : MarkDone(Txn, r) /\ (r = "ok" => Accepted)
<1>worker. worker \in WorkerState
  BY DEF TypeOK
<1>1. worker'.pc = "signal" \/ (worker'.pc = "inhibit" /\ worker'.bits = {})
  <2>1. Goto("signal") \/ BeginAttempt(Txn, worker.attempt + 1)
    BY DecideCases DEF FailWith, ResetLinesThen, ResetBus, Finish
  <2>2. CASE Goto("signal")
    BY <1>worker, <2>2 DEF Goto, WorkerState
  <2>3. CASE BeginAttempt(Txn, worker.attempt + 1)
    BY <2>3 DEF BeginAttempt, IdleWorker
  <2> QED BY <2>1, <2>2, <2>3
<1>2. /\ \/ hw' = LinesReset(hw)
         \/ hw' \in Restored(Terminated(hw))
         \/ hw' = hw /\ (Accepted \/ ~HasData(Cmd))
      /\ UNCHANGED ticket
         \/ \E r : MarkDone(Txn, r) /\ (r = "ok" => Accepted)
  <2>1. PICK p \in BOOLEAN :
           LET action == DecideRetry(worker.result, worker.attempt, Cmd, p)
               again == BeginAttempt(Txn, worker.attempt + 1)
           IN CASE action = "Succeed" -> Finish("ok") /\ UNCHANGED hw
                [] action = "Fail" -> FailWith
                [] action = "ResetAndReidentify" -> ResetBus
                [] action = "RetryResetLines" ->
                       ResetLinesThen(again /\ UNCHANGED ticket)
                [] action = "Retry" -> again /\ UNCHANGED <<ticket, hw>>
    BY DEF Decide
  <2> DEFINE action == DecideRetry(worker.result, worker.attempt, Cmd, p)
  <2>2. worker.result \in AttemptResult \ {"none"} /\ worker.attempt \in Nat
    BY <1>worker DEF Decide, AttemptInv, WorkerState
  <2>3. action \in {"Succeed", "Retry", "Fail", "RetryResetLines", "ResetAndReidentify"}
    BY <2>2, DecideRetryType
  <2>4. action \in {"Succeed", "Retry"} => Accepted
    BY <2>2 DEF DecideRetry, Accepted, AttemptResult
  <2> HIDE DEF action
  <2>5. CASE action \in {"Succeed", "Retry"}
    BY <2>1, <2>4, <2>5 DEF action, Finish
  <2>6. CASE action = "Fail"
    <3>1. FailWith
      BY <2>1, <2>6 DEF action
    <3> QED BY <3>1 DEF FailWith, ResetLinesThen, ResetBus, Finish
  <2>7. CASE action = "RetryResetLines"
    <3>1. ResetBus \/ (hw' = LinesReset(hw) /\ UNCHANGED ticket)
      BY <2>1, <2>7 DEF action, ResetLinesThen
    <3> QED BY <3>1 DEF ResetBus, Finish
  <2>8. CASE action = "ResetAndReidentify"
    BY <2>1, <2>8 DEF action, ResetBus, Finish
  <2> QED BY <2>3, <2>5, <2>6, <2>7, <2>8
<1> QED BY <1>1, <1>2 DEF Decide

\* What a reset leaves of the data line
LEMMA ResetsLines ==
    ASSUME TypeOK
    PROVE  /\ LinesReset(hw).dma = 0 /\ LinesReset(hw).data = 0
           /\ \A r \in Restored(Terminated(hw)) : r.dma = 0 /\ (r.data = 0 \/ ~r.enabled)
<1>1. hw \in Controller
  BY DEF TypeOK
<1>2. LinesReset(hw).dma = 0 /\ LinesReset(hw).data = 0
  BY <1>1 DEF LinesReset, Controller
<1>3. Terminated(hw).dma = 0 /\ ~Terminated(hw).enabled
  BY <1>1 DEF Terminated, Controller
<1>4. \A b : ResetController(b).dma = 0 /\ ResetController(b).data = 0
  BY DEF ResetController
<1> QED BY <1>2, <1>3, <1>4 DEF Restored

\* What a look makes of the bits
LEMMA LookCases ==
    ASSUME TypeOK, Look
    PROVE  /\ worker.pc = "look"
           /\ \/ /\ worker'.pc = "wait" /\ worker'.bits = worker.bits \cup Latched
                 /\ worker'.txn = worker.txn
              \/ /\ worker'.pc = "settle" /\ worker'.txn = worker.txn
                 /\ Accepted' => ClassifyPoll(worker.bits \cup Latched, Cmd) = "ok"
<1> DEFINE bits == worker.bits \cup Latched
           verdict == ClassifyPoll(bits, Cmd)
<1>1. verdict \in {"fault", "hard", "ok", "keepPolling"}
  BY ClassifyType
<1>2. \/ worker' = [worker EXCEPT !.pc = "wait", !.bits = bits, !.looks = @ + 1]
      \/ \E r \in {"fault", "hard", "ok", "spuriousOcr"} :
            Conclude(r) /\ (r \in {"ok", "spuriousOcr"} => verdict = "ok")
  <2>1. CASE verdict = "keepPolling"
    BY <2>1 DEF Look
  <2>2. CASE verdict # "keepPolling"
    <3>1. PICK r \in IF verdict = "ok" /\ Constraints(Cmd).validateOcr
                     THEN {"ok", "spuriousOcr"} ELSE {verdict} : Conclude(r)
      BY <2>2 DEF Look
    <3> QED BY <1>1, <2>2, <3>1
  <2> QED BY <2>1, <2>2
<1>3. worker \in WorkerState
  BY DEF TypeOK
<1> HIDE DEF verdict
<1>4. ASSUME NEW r \in {"fault", "hard", "ok", "spuriousOcr"}, Conclude(r),
             r \in {"ok", "spuriousOcr"} => verdict = "ok"
      PROVE  worker'.pc = "settle" /\ worker'.txn = worker.txn /\ (Accepted' => verdict = "ok")
  BY <1>3, <1>4 DEF Conclude, Accepted, WorkerState
<1>5. ASSUME worker' = [worker EXCEPT !.pc = "wait", !.bits = bits, !.looks = @ + 1]
      PROVE  worker'.pc = "wait" /\ worker'.bits = bits /\ worker'.txn = worker.txn
  BY <1>3, <1>5 DEF WorkerState
<1>6. worker.pc = "look"
  BY DEF Look
<1> QED BY <1>2, <1>4, <1>5, <1>6 DEF verdict

\* Nothing is accepted before the transfer of a data command has ended
LEMMA AcceptedEnded ==
    ASSUME HasData(Cmd), ClassifyPoll(worker.bits \cup Latched, Cmd) = "ok"
    PROVE  DataEnded
BY DEF HasData, ClassifyPoll, DataEnded

\* What a step does to the tickets that are there: only Claim and Decide answer one
LEMMA TicketSteps ==
    ASSUME TypeOK, Inv, [Next]_vars, \A c \in Caller, cmd \in Command : ~Submit(c, cmd)
    PROVE  /\ UNCHANGED made
           /\ \A n \in Ticket : ticket'[n].cmd = ticket[n].cmd
           /\ Claim \/ Decide
              \/ \A n \in Ticket : /\ ticket'[n].done = ticket[n].done
                                   /\ ticket'[n].result = ticket[n].result
<1>1. ticket \in [Ticket -> TicketState]
  BY DEF TypeOK
<1>2. ASSUME NEW n, ticket' = Released(n) \/ ticket' = [ticket EXCEPT ![n].refs = @ + 1]
      PROVE  \A m \in Ticket : /\ ticket'[m].cmd = ticket[m].cmd
                               /\ ticket'[m].done = ticket[m].done
                               /\ ticket'[m].result = ticket[m].result
  BY <1>1, <1>2 DEF Released, TicketState
<1>3. ASSUME NEW n, NEW r, MarkDone(n, r)
      PROVE  \A m \in Ticket : ticket'[m].cmd = ticket[m].cmd
  BY <1>1, <1>3 DEF MarkDone, TicketState
<1>4. UNCHANGED made
  BY DEF Next, vars, software, CallerStep, DrainTokens, PostTicket, AwaitDone,
     AcquireCompletion, RestoreAfterReset, TerminateBus, WorkerStep, Continue, Claim,
     StormSafeIdleClear, Arm, CheckMailbox, WakeUp, AwaitInhibit, DrainInterrupts, ReadBack,
     Send, Look, WaitEnds, Settle, WaitForR1bBusy, Decide, SignalCompletion, ReleaseTicket,
     ControllerStep, CommandDone, CommandFault, DataDone, DataFault, HandleInterruptMeow,
     Uninit
<1>5. CASE \E c \in Caller : CallerStep(c) \/ TerminateBus(c)
  <2>1. \/ UNCHANGED ticket
        \/ \E n : ticket' = Released(n)
        \/ \E n : ticket' = [ticket EXCEPT ![n].refs = @ + 1]
    BY <1>5 DEF CallerStep, DrainTokens, PostTicket, AwaitDone, AcquireCompletion,
                RestoreAfterReset, TerminateBus
  <2> QED BY <1>2, <1>4, <2>1
<1>6. CASE Decide
  <2>1. UNCHANGED ticket \/ \E r : MarkDone(Txn, r)
    BY <1>6, DecideCases DEF FailWith, ResetLinesThen, ResetBus, Finish, Inv
  <2> QED BY <1>3, <1>4, <1>6, <2>1
<1>7. CASE Claim
  <2>1. UNCHANGED ticket \/ MarkDone(mailbox, "ok")
    BY <1>7 DEF Claim
  <2> QED BY <1>3, <1>4, <1>7, <2>1
<1>8. CASE WorkerStep /\ ~Decide /\ ~Claim
  <2>1. UNCHANGED ticket \/ ticket' = Released(Txn)
    BY <1>8 DEF WorkerStep, Continue, StormSafeIdleClear, Arm, CheckMailbox, WakeUp,
       AwaitInhibit, DrainInterrupts, ReadBack, Send, Look, WaitEnds, Settle,
       WaitForR1bBusy, SignalCompletion, ReleaseTicket
  <2> QED BY <1>2, <1>4, <2>1
<1>9. CASE ControllerStep \/ HandleInterruptMeow \/ Uninit \/ UNCHANGED vars
  <2>1. UNCHANGED ticket
    BY <1>9 DEF ControllerStep, CommandDone, CommandFault, DataDone, DataFault,
                HandleInterruptMeow, Uninit, vars
  <2> QED BY <1>4, <2>1
<1> QED BY <1>5, <1>6, <1>7, <1>8, <1>9 DEF Next

\* The worker's ticket keeps its command
LEMMA CmdKept ==
    ASSUME TypeOK, Inv, [Next]_vars, worker.pc \in DrivingPc, worker'.txn = worker.txn
    PROVE  Cmd' = Cmd /\ made' = made
<1>1. Txn \in Ticket
  BY TxnType DEF Inv
<1>2. \A c \in Caller, cmd \in Command : ~Submit(c, cmd)
  BY DEF Submit, Inv, DriveInv, Waits, InSubmit
<1> QED BY <1>1, <1>2, TicketSteps DEF Cmd, Txn

\* A step of an attempt
KeepsAttempt ==
    /\ worker'.txn = worker.txn /\ worker.txn = made /\ UNCHANGED <<made, performed>>
    /\ Cmd' = Cmd
SameLines ==
    /\ hw'.dma = hw.dma /\ hw'.data = hw.data /\ hw'.command = hw.command
    /\ hw'.enabled = hw.enabled

\* What the steps of an attempt do
LEMMA AttemptSteps ==
    ASSUME TypeOK, Inv, WorkerStep
    PROVE  /\ AwaitInhibit =>
                /\ KeepsAttempt /\ UNCHANGED hw /\ worker'.bits = worker.bits
                /\ worker.pc = "inhibit"
                /\ \/ /\ worker'.pc = "drain" /\ hw.command = 0
                      /\ HasData(Cmd) => hw.data = 0
                   \/ worker'.pc = "decide" /\ worker'.result = "busy"
           /\ DrainInterrupts =>
                /\ KeepsAttempt /\ SameLines /\ Latched' = {} /\ worker'.bits = worker.bits
                /\ worker.pc = "drain" /\ worker'.pc \in {"send", "readback"}
           /\ ReadBack =>
                /\ KeepsAttempt /\ UNCHANGED hw /\ worker'.bits = worker.bits
                /\ worker.pc = "readback"
                /\ \/ worker'.pc = "send" /\ Latched' = {}
                   \/ worker'.pc = "drain"
                   \/ worker'.pc = "decide" /\ worker'.result = "busy"
           /\ Send =>
                /\ KeepsAttempt /\ worker'.bits = worker.bits /\ Latched' = Latched
                /\ worker.pc = "send" /\ worker'.pc = "look"
                /\ hw'.command = made /\ hw'.enabled = hw.enabled
                /\ hw'.data = IF RequiresDataLineIdle(Cmd) THEN made ELSE hw.data
                /\ hw'.dma = IF HasData(Cmd) /\ hw.enabled THEN made ELSE hw.dma
           /\ Look =>
                /\ KeepsAttempt /\ SameLines /\ Latched' = {} /\ worker.pc = "look"
                /\ \/ worker'.pc = "wait" /\ worker'.bits = worker.bits \cup Latched
                   \/ /\ worker'.pc = "settle"
                      /\ Accepted' => ClassifyPoll(worker.bits \cup Latched, Cmd) = "ok"
           /\ WaitEnds =>
                /\ KeepsAttempt /\ UNCHANGED hw /\ worker'.bits = worker.bits
                /\ worker.pc = "wait" /\ worker'.pc = "look"
           /\ Settle =>
                /\ KeepsAttempt /\ SameLines /\ worker'.result = worker.result
                /\ worker.pc = "settle"
                /\ worker'.pc = IF worker.result = "ok" /\ HasBusyReply(Cmd)
                                THEN "busy" ELSE "decide"
           /\ WaitForR1bBusy =>
                /\ UNCHANGED hw /\ worker.pc = "busy" /\ worker'.pc = "decide"
<1> USE DEF software
<1>worker. worker \in WorkerState
  BY DEF TypeOK
<1>hw. hw \in Controller
  BY DEF TypeOK
<1>keeps. worker.pc \in DrivingPc /\ worker'.txn = worker.txn /\ UNCHANGED performed
            => KeepsAttempt
  BY CmdKept DEF KeepsAttempt, Inv, DriveInv, Next
<1>1. ASSUME AwaitInhibit
      PROVE  /\ KeepsAttempt /\ UNCHANGED hw /\ worker'.bits = worker.bits
             /\ worker.pc = "inhibit"
             /\ \/ /\ worker'.pc = "drain" /\ hw.command = 0
                   /\ HasData(Cmd) => hw.data = 0
                \/ worker'.pc = "decide" /\ worker'.result = "busy"
  <2>1. worker.pc = "inhibit" /\ UNCHANGED <<hw, performed>>
    BY <1>1 DEF AwaitInhibit
  <2>2. /\ worker'.bits = worker.bits /\ worker'.txn = worker.txn
        /\ \/ worker'.pc = "drain" /\ hw.command = 0 /\ (RequiresDataLineIdle(Cmd) => hw.data = 0)
           \/ worker'.pc = "decide" /\ worker'.result = "busy"
    BY <1>1, <1>worker DEF AwaitInhibit, Goto, WorkerState
  <2> QED BY <1>keeps, <2>1, <2>2 DEF DrivingPc, RequiresDataLineIdle
<1>2. ASSUME DrainInterrupts
      PROVE  /\ KeepsAttempt /\ SameLines /\ Latched' = {} /\ worker'.bits = worker.bits
             /\ worker.pc = "drain" /\ worker'.pc \in {"send", "readback"}
  <2>1. worker.pc = "drain" /\ UNCHANGED performed /\ SameLines /\ Latched' = {}
    BY <1>2, LatchedCleared DEF DrainInterrupts, SameLines
  <2>2. /\ worker'.bits = worker.bits /\ worker'.txn = worker.txn
        /\ worker'.pc \in {"send", "readback"}
    BY <1>2, <1>worker DEF DrainInterrupts, WorkerState
  <2> QED BY <1>keeps, <2>1, <2>2 DEF DrivingPc
<1>3. ASSUME ReadBack
      PROVE  /\ KeepsAttempt /\ UNCHANGED hw /\ worker'.bits = worker.bits
             /\ worker.pc = "readback"
             /\ \/ worker'.pc = "send" /\ Latched' = {}
                \/ worker'.pc = "drain"
                \/ worker'.pc = "decide" /\ worker'.result = "busy"
  <2>1. worker.pc = "readback" /\ UNCHANGED <<hw, performed>>
    BY <1>3 DEF ReadBack
  <2>2. /\ worker'.bits = worker.bits /\ worker'.txn = worker.txn
        /\ \/ worker'.pc = "send" /\ hw.latch = {}
           \/ worker'.pc = "drain"
           \/ worker'.pc = "decide" /\ worker'.result = "busy"
    BY <1>3, <1>worker DEF ReadBack, WorkerState
  <2>3. hw.latch = {} => Latched' = {}
    BY <2>1 DEF Latched
  <2> QED BY <1>keeps, <2>1, <2>2, <2>3 DEF DrivingPc
<1>4. ASSUME Send
      PROVE  /\ KeepsAttempt /\ worker'.bits = worker.bits /\ Latched' = Latched
             /\ worker.pc = "send" /\ worker'.pc = "look"
             /\ hw'.command = made /\ hw'.enabled = hw.enabled
             /\ hw'.data = IF RequiresDataLineIdle(Cmd) THEN made ELSE hw.data
             /\ hw'.dma = IF HasData(Cmd) /\ hw.enabled THEN made ELSE hw.dma
  <2>1. worker.pc = "send" /\ UNCHANGED performed
    BY <1>4 DEF Send
  <2>2. worker'.bits = worker.bits /\ worker'.txn = worker.txn /\ worker'.pc = "look"
    BY <1>4, <1>worker DEF Send, Goto, WorkerState
  <2>3. KeepsAttempt
    BY <1>keeps, <2>1, <2>2 DEF DrivingPc
  <2>4. /\ hw'.latch = hw.latch /\ hw'.command = Txn /\ hw'.enabled = hw.enabled
        /\ hw'.data = IF RequiresDataLineIdle(Cmd) THEN Txn ELSE hw.data
        /\ hw'.dma = IF HasData(Cmd) /\ hw.enabled THEN Txn ELSE hw.dma
    BY <1>4, <1>hw DEF Send, Controller
  <2>5. Latched' = Latched
    BY <2>4 DEF Latched
  <2> QED BY <2>1, <2>2, <2>3, <2>4, <2>5 DEF KeepsAttempt, Txn
<1>5. ASSUME Look
      PROVE  /\ KeepsAttempt /\ SameLines /\ Latched' = {} /\ worker.pc = "look"
             /\ \/ worker'.pc = "wait" /\ worker'.bits = worker.bits \cup Latched
                \/ /\ worker'.pc = "settle"
                   /\ Accepted' => ClassifyPoll(worker.bits \cup Latched, Cmd) = "ok"
  <2>1. UNCHANGED performed /\ SameLines /\ Latched' = {}
    BY <1>5, LatchedCleared DEF Look, SameLines
  <2> QED BY <1>5, <1>keeps, <2>1, LookCases DEF DrivingPc
<1>6. ASSUME WaitEnds
      PROVE  /\ KeepsAttempt /\ UNCHANGED hw /\ worker'.bits = worker.bits
             /\ worker.pc = "wait" /\ worker'.pc = "look"
  <2>1. worker.pc = "wait" /\ UNCHANGED <<hw, performed>>
    BY <1>6 DEF WaitEnds
  <2>2. worker'.bits = worker.bits /\ worker'.txn = worker.txn /\ worker'.pc = "look"
    BY <1>6, <1>worker DEF WaitEnds, Goto, WorkerState
  <2> QED BY <1>keeps, <2>1, <2>2 DEF DrivingPc
<1>7. ASSUME Settle
      PROVE  /\ KeepsAttempt /\ SameLines /\ worker'.result = worker.result
             /\ worker.pc = "settle"
             /\ worker'.pc = IF worker.result = "ok" /\ HasBusyReply(Cmd)
                             THEN "busy" ELSE "decide"
  <2>1. worker.pc = "settle" /\ UNCHANGED performed /\ SameLines
    BY <1>7, LatchedCleared DEF Settle, SameLines
  <2>2. /\ worker'.result = worker.result /\ worker'.txn = worker.txn
        /\ worker'.pc = IF worker.result = "ok" /\ HasBusyReply(Cmd)
                        THEN "busy" ELSE "decide"
    BY <1>7, <1>worker DEF Settle, Goto, WorkerState
  <2> QED BY <1>keeps, <2>1, <2>2 DEF DrivingPc
<1>8. ASSUME WaitForR1bBusy
      PROVE  UNCHANGED hw /\ worker.pc = "busy" /\ worker'.pc = "decide"
  BY <1>8, <1>worker DEF WaitForR1bBusy, WorkerState
<1> QED BY <1>1, <1>2, <1>3, <1>4, <1>5, <1>6, <1>7, <1>8

\* The steps of the worker when it drives no ticket
LEMMA QuietSteps ==
    ASSUME TypeOK,
           \/ Continue \/ StormSafeIdleClear \/ Arm \/ CheckMailbox \/ WakeUp
           \/ SignalCompletion \/ ReleaseTicket
    PROVE  /\ worker.pc \notin DrivingPc /\ worker'.pc \notin DrivingPc
           /\ SameLines
<1>1. worker \in WorkerState
  BY DEF TypeOK
<1>2. worker.pc \notin DrivingPc /\ worker'.pc \notin DrivingPc
  BY <1>1 DEF Continue, StormSafeIdleClear, Arm, CheckMailbox, WakeUp,
     SignalCompletion, ReleaseTicket, Goto, IdleWorker, WorkerState, DrivingPc
<1>3. SameLines
  BY LatchedCleared DEF Continue, StormSafeIdleClear, Arm, CheckMailbox,
     WakeUp, SignalCompletion, ReleaseTicket, software, SameLines
<1> QED BY <1>2, <1>3

\* A recovery never starts the data line again
LEMMA RecoveryLines ==
    ASSUME TypeOK, \E c \in Caller : TerminateBus(c) \/ RestoreAfterReset(c)
    PROVE  /\ UNCHANGED <<worker, made, performed>>
           /\ \/ hw' = hw
              \/ /\ hw'.dma = 0 /\ hw'.data \in {0, hw.data} /\ Latched' \subseteq Latched
                 /\ hw'.command \in {0, hw.command}
                 /\ hw'.data = 0 \/ ~hw'.enabled
<1>1. hw \in Controller
  BY DEF TypeOK
<1>2. UNCHANGED <<worker, made, performed>>
  BY DEF TerminateBus, RestoreAfterReset, software
<1>3. CASE hw' = Terminated(hw)
  <2>1. /\ hw'.dma = 0 /\ hw'.data = hw.data /\ hw'.latch = hw.latch
        /\ hw'.command = hw.command /\ ~hw'.enabled
    BY <1>1, <1>3 DEF Terminated, Controller
  <2> QED BY <1>2, <2>1 DEF Latched
<1>4. CASE hw' \in {ResetController(TRUE), ResetController(FALSE)}
  <2>1. hw'.dma = 0 /\ hw'.data = 0 /\ hw'.latch = {} /\ hw'.command = 0
    BY <1>4 DEF ResetController
  <2> QED BY <1>2, <2>1 DEF Latched
<1>5. hw' = hw \/ hw' = Terminated(hw) \/ hw' \in {ResetController(TRUE), ResetController(FALSE)}
  BY DEF TerminateBus, RestoreAfterReset, Restored
<1> QED BY <1>2, <1>3, <1>4, <1>5

\* Steps that leave the controller, the worker and its command alone
LEMMA DmaFrame ==
    ASSUME DmaInv, UNCHANGED <<hw, worker, made>>,
           worker.pc \in DrivingPc => Cmd' = Cmd
    PROVE  DmaInv'
BY DEF DmaInv, DataEnded, Latched, Accepted, PreSend, Sent, DrivingPc

LEMMA DmaStep ==
    ASSUME TypeOK, Inv, DmaInv, [Next]_vars
    PROVE  DmaInv'
<1>hw. hw \in Controller
  BY DEF TypeOK
<1>cmd. worker.pc \in DrivingPc /\ worker'.txn = worker.txn => Cmd' = Cmd /\ made' = made
  BY CmdKept
<1>idle. worker.pc \notin Sent => hw.dma = 0
  BY DEF DmaInv
<1>1. CASE \E c \in Caller, cmd \in Command : Submit(c, cmd)
  <2>1. worker.pc \notin DrivingPc
    BY <1>1 DEF Submit, Inv, DriveInv, Waits, InSubmit
  <2>2. hw.dma = 0 /\ UNCHANGED <<hw, worker>>
    BY <1>1, <1>idle, <2>1 DEF Submit, Sent, DrivingPc
  <2> QED BY <2>1, <2>2 DEF DmaInv, PreSend, DrivingPc
<1>2. CASE \E c \in Caller : TerminateBus(c) \/ RestoreAfterReset(c)
  <2>1. UNCHANGED <<worker, made>> /\ (worker.pc \in DrivingPc => Cmd' = Cmd)
    BY <1>2, <1>cmd, RecoveryLines
  <2>2. CASE hw' = hw
    BY <2>1, <2>2, DmaFrame
  <2>3. CASE hw' # hw
    <3>1. hw'.dma = 0 /\ hw'.data \in {0, hw.data} /\ Latched' \subseteq Latched
      BY <1>2, <2>3, RecoveryLines
    <3> QED BY <2>1, <3>1 DEF DmaInv, DataEnded, Accepted, PreSend, DrivingPc
  <2> QED BY <2>2, <2>3
<1>3. CASE \/ HandleInterruptMeow \/ Uninit \/ UNCHANGED vars
           \/ \E c \in Caller : CallerStep(c) /\ ~RestoreAfterReset(c)
  <2>1. UNCHANGED <<hw, worker, made>>
    BY <1>3 DEF HandleInterruptMeow, Uninit, vars, CallerStep, DrainTokens, PostTicket,
                AwaitDone, AcquireCompletion
  <2> QED BY <1>cmd, <2>1, DmaFrame
<1>4. CASE ControllerStep
  <2>0. UNCHANGED <<worker, made>> /\ (worker.pc \in DrivingPc => Cmd' = Cmd)
    BY <1>4, <1>cmd DEF ControllerStep, CommandDone, CommandFault, DataDone, DataFault, software
  <2>1. CASE CommandDone
    <3>1. hw'.latch = hw.latch \cup {<<"command", hw.command>>} /\ hw'.dma = hw.dma
          /\ hw'.data = hw.data
      BY <1>hw, <2>1 DEF CommandDone, Controller
    <3>2. Latched' = Latched \cup {"command"}
      BY <3>1, LatchedAdds
    <3> QED BY <2>0, <3>1, <3>2 DEF DmaInv, DataEnded, Accepted, PreSend, DrivingPc, Sent
  <2>2. CASE CommandFault \/ DataFault
    BY <2>0, <2>2, FaultCases DEF DmaInv, DataEnded, Accepted, PreSend, DrivingPc, Sent
  <2>3. CASE DataDone
    <3>1. hw.data # 0 /\ hw'.dma = 0 /\ hw'.data = 0
      BY <1>hw, <2>3 DEF DataDone, Controller
    <3> QED BY <2>0, <3>1 DEF DmaInv, Accepted, PreSend, DrivingPc, Sent
  <2> QED BY <1>4, <2>1, <2>2, <2>3 DEF ControllerStep
<1>5. CASE WorkerStep
  <2>1. CASE \/ Continue \/ StormSafeIdleClear \/ Arm \/ CheckMailbox \/ WakeUp
             \/ SignalCompletion \/ ReleaseTicket
    BY <1>idle, <2>1, QuietSteps DEF DmaInv, SameLines, DrivingPc, PreSend, Sent
  <2>2. CASE Claim
    <3>1. worker.pc \notin Sent /\ UNCHANGED hw
      BY <2>2 DEF Claim, Sent
    <3>2. worker'.pc = "signal" \/ (worker'.pc = "inhibit" /\ worker'.bits = {})
      BY <2>2 DEF Claim, BeginAttempt, IdleWorker
    <3> QED BY <1>idle, <3>1, <3>2 DEF DmaInv, PreSend
  <2>3. CASE AwaitInhibit
    BY <1>5, <1>idle, <2>3, AttemptSteps DEF KeepsAttempt, DmaInv, Accepted, PreSend, Sent
  <2>4. CASE DrainInterrupts
    BY <1>5, <1>idle, <2>4, AttemptSteps
       DEF KeepsAttempt, SameLines, DmaInv, DataEnded, PreSend, Sent
  <2>5. CASE ReadBack
    BY <1>5, <1>idle, <2>5, AttemptSteps
       DEF KeepsAttempt, DmaInv, DataEnded, Accepted, PreSend, Sent
  <2>6. CASE Send
    BY <1>5, <1>idle, <2>6, AttemptSteps
       DEF KeepsAttempt, RequiresDataLineIdle, DmaInv, DataEnded, PreSend, Sent
  <2>7. CASE Look
    <3>1. worker'.pc = "wait" => (DataEnded' => DataEnded)
      BY <1>5, <2>7, AttemptSteps DEF DataEnded
    <3>2. worker'.pc = "settle" /\ Accepted' => (HasData(Cmd) => DataEnded)
      BY <1>5, <2>7, AttemptSteps, AcceptedEnded
    <3> QED BY <1>5, <2>7, <3>1, <3>2, AttemptSteps
            DEF KeepsAttempt, SameLines, DmaInv, PreSend, Sent
  <2>8. CASE WaitEnds
    BY <1>5, <2>8, AttemptSteps DEF KeepsAttempt, DmaInv, DataEnded, Latched, PreSend, Sent
  <2>9. CASE Settle
    BY <1>5, <2>9, AttemptSteps DEF KeepsAttempt, SameLines, DmaInv, Accepted, PreSend, Sent
  <2>10. CASE WaitForR1bBusy
    BY <1>5, <1>idle, <2>10, AttemptSteps DEF DmaInv, PreSend, Sent
  <2>11. CASE Decide
    <3>1. hw'.dma = 0
      BY <2>11, DecideLines, ResetsLines DEF Inv, DmaInv
    <3> QED BY <2>11, <3>1, DecideLines DEF Inv, DmaInv, PreSend
  <2> QED BY <1>5, <2>1, <2>2, <2>3, <2>4, <2>5, <2>6, <2>7, <2>8, <2>9, <2>10, <2>11
          DEF WorkerStep
<1> QED BY <1>1, <1>2, <1>3, <1>4, <1>5 DEF Next

\* "DMA memory outlives active or unquiesced hardware", for every command
THEOREM DmaOutlivedCorrect == Spec => []DmaOutlived
<1>1. Init => DmaInv
  BY DEF Init, IdleWorker, ResetController, DmaInv, PreSend
<1>2. IInv /\ DmaInv /\ [Next]_vars => DmaInv'
  BY DmaStep DEF IInv, Inv
<1>3. IInv /\ DmaInv => DmaOutlived
  <2> SUFFICES ASSUME IInv, DmaInv, hw.dma # 0
               PROVE  ~ticket[hw.dma].done /\ Holders(hw.dma) # {}
    BY DEF DmaOutlived
  <2>1. hw.dma = made /\ worker.pc \in DrivingPc
    BY DEF DmaInv, Sent, DrivingPc
  <2>2. ~ticket[made].done /\ \E c \in Caller : Waits(c)
    BY <2>1 DEF IInv, DriveInv
  <2>3. PICK c \in Caller : InSubmit(c) /\ caller[c].ticket = made
    BY <2>2 DEF Waits, InSubmit, IInv, BusLockInv
  <2> QED BY <2>1, <2>2, <2>3 DEF Holders
<1> QED BY <1>1, <1>2, <1>3, Invariance, PTL DEF Spec

\* Steps that leave the controller, the worker, its command and the card alone
LEMMA EvidenceFrame ==
    ASSUME EvidenceInv, UNCHANGED <<hw, worker, made, performed>>,
           worker.pc \in DrivingPc => Cmd' = Cmd
    PROVE  EvidenceInv'
BY DEF EvidenceInv, DataEnded, Latched, Accepted, Sent, DrivingPc

LEMMA EvidenceStep ==
    ASSUME TypeOK, Inv, DmaInv, NoBusyReplies, EvidenceInv, [Next]_vars
    PROVE  EvidenceInv'
<1>hw. hw \in Controller
  BY DEF TypeOK
<1>cmd. worker.pc \in DrivingPc /\ worker'.txn = worker.txn => Cmd' = Cmd /\ made' = made
  BY CmdKept
<1>quiet. worker.pc \in DrivingPc => ~HasBusyReply(Cmd)
  BY TxnType DEF NoBusyReplies, Inv, Cmd, Txn
<1>idle. worker.pc \notin Sent => hw.data = 0 \/ ~hw.enabled
  BY DEF EvidenceInv
<1>1. CASE \E c \in Caller, cmd \in Command : Submit(c, cmd)
  <2>1. worker.pc \notin DrivingPc
    BY <1>1 DEF Submit, Inv, DriveInv, Waits, InSubmit
  <2>2. UNCHANGED <<hw, worker>>
    BY <1>1 DEF Submit
  <2> QED BY <1>idle, <2>1, <2>2 DEF EvidenceInv, Sent, DrivingPc
<1>2. CASE \E c \in Caller : TerminateBus(c) \/ RestoreAfterReset(c)
  <2>1. UNCHANGED <<worker, made, performed>> /\ (worker.pc \in DrivingPc => Cmd' = Cmd)
    BY <1>2, <1>cmd, RecoveryLines
  <2>2. CASE hw' = hw
    BY <2>1, <2>2, EvidenceFrame
  <2>3. CASE hw' # hw
    <3>1. /\ hw'.data \in {0, hw.data} /\ Latched' \subseteq Latched
          /\ hw'.command \in {0, hw.command} /\ (hw'.data = 0 \/ ~hw'.enabled)
      BY <1>2, <2>3, RecoveryLines
    <3> QED BY <2>1, <3>1 DEF EvidenceInv, DataEnded, Accepted, Sent, DrivingPc
  <2> QED BY <2>2, <2>3
<1>3. CASE \/ HandleInterruptMeow \/ Uninit \/ UNCHANGED vars
           \/ \E c \in Caller : CallerStep(c) /\ ~RestoreAfterReset(c)
  <2>1. UNCHANGED <<hw, worker, made, performed>>
    BY <1>3 DEF HandleInterruptMeow, Uninit, vars, CallerStep, DrainTokens, PostTicket,
                AwaitDone, AcquireCompletion
  <2> QED BY <1>cmd, <2>1, EvidenceFrame
<1>4. CASE ControllerStep
  <2>0. /\ UNCHANGED <<worker, made>> /\ (worker.pc \in DrivingPc => Cmd' = Cmd)
        /\ performed \subseteq performed'
    BY <1>4, <1>cmd DEF ControllerStep, CommandDone, CommandFault, DataDone, DataFault, software
  <2>1. CASE CommandDone
    <3>1. /\ hw'.latch = hw.latch \cup {<<"command", hw.command>>}
          /\ hw'.data = hw.data /\ hw'.command = 0 /\ hw'.enabled = hw.enabled
          /\ hw.command # 0 /\ <<"command", hw.command>> \in performed'
      BY <1>hw, <2>1 DEF CommandDone, Controller
    <3>2. Latched' = Latched \cup {"command"}
      BY <3>1, LatchedAdds
    <3> QED BY <2>0, <3>1, <3>2 DEF EvidenceInv, DataEnded, Accepted, DrivingPc, Sent
  <2>2. CASE CommandFault \/ DataFault
    BY <2>0, <2>2, FaultCases DEF EvidenceInv, DataEnded, Accepted, DrivingPc, Sent
  <2>3. CASE DataDone
    <3>1. /\ hw.enabled /\ hw.data # 0 /\ hw'.data = 0 /\ hw'.command = hw.command
          /\ <<"command", hw.data>> \in performed /\ <<"data", hw.data>> \in performed'
          /\ \/ hw'.latch = hw.latch \cup {<<"buffer", hw.data>>}
             \/ hw'.latch = hw.latch \cup {<<"transfer", hw.data>>}
      BY <1>hw, <2>3 DEF DataDone, Controller
    <3>2. Latched' = Latched \cup {"buffer"} \/ Latched' = Latched \cup {"transfer"}
      BY <3>1, LatchedAdds
    <3> QED BY <2>0, <3>1, <3>2 DEF EvidenceInv, DataEnded, Accepted, DrivingPc, Sent
  <2> QED BY <1>4, <2>1, <2>2, <2>3 DEF ControllerStep
<1>5. CASE WorkerStep
  <2>0. UNCHANGED performed
    BY <1>5 DEF WorkerStep, Continue, Claim, StormSafeIdleClear, Arm, CheckMailbox, WakeUp,
       AwaitInhibit, DrainInterrupts, ReadBack, Send, Look, WaitEnds, Settle,
       WaitForR1bBusy, Decide, SignalCompletion, ReleaseTicket
  <2>1. CASE \/ Continue \/ StormSafeIdleClear \/ Arm \/ CheckMailbox \/ WakeUp
             \/ SignalCompletion \/ ReleaseTicket
    BY <1>idle, <2>1, QuietSteps DEF EvidenceInv, SameLines, DrivingPc, Sent
  <2>2. CASE Claim
    <3>1. worker.pc \notin Sent /\ UNCHANGED hw
      BY <2>2 DEF Claim, Sent
    <3>2. worker'.pc \in {"signal", "inhibit"}
      BY <2>2 DEF Claim, BeginAttempt, IdleWorker
    <3> QED BY <1>idle, <3>1, <3>2 DEF EvidenceInv
  <2>3. CASE AwaitInhibit
    BY <1>5, <1>idle, <2>3, AttemptSteps DEF KeepsAttempt, EvidenceInv, Accepted, Sent
  <2>4. CASE DrainInterrupts
    BY <1>5, <1>idle, <2>4, AttemptSteps
       DEF KeepsAttempt, SameLines, EvidenceInv, DmaInv, DataEnded, PreSend, Sent
  <2>5. CASE ReadBack
    BY <1>5, <1>idle, <2>5, AttemptSteps
       DEF KeepsAttempt, EvidenceInv, DmaInv, DataEnded, Accepted, PreSend, Sent
  <2>6. CASE Send
    <3>1. worker.bits = {} /\ worker.pc = "send"
      BY <1>5, <2>6, AttemptSteps DEF DmaInv, PreSend
    <3> QED BY <1>5, <1>idle, <1>quiet, <2>6, <3>1, AttemptSteps
            DEF KeepsAttempt, RequiresDataLineIdle, EvidenceInv, DataEnded, Sent, DrivingPc
  <2>7. CASE Look
    <3>1. CASE worker'.pc = "wait"
      BY <1>5, <2>7, <3>1, AttemptSteps
         DEF KeepsAttempt, SameLines, EvidenceInv, DataEnded, Sent
    <3>2. CASE worker'.pc = "settle"
      <4>1. Accepted' => \/ DataEnded
                         \/ "command" \in worker.bits \cup Latched /\ ~HasData(Cmd)
        BY <1>5, <2>7, <3>2, AttemptSteps DEF ClassifyPoll, HasData, DataEnded
      <4> QED BY <1>5, <2>7, <3>2, <4>1, AttemptSteps
              DEF KeepsAttempt, SameLines, EvidenceInv, Sent
    <3> QED BY <1>5, <2>7, <3>1, <3>2, AttemptSteps
  <2>8. CASE WaitEnds
    BY <1>5, <2>8, AttemptSteps DEF KeepsAttempt, EvidenceInv, DataEnded, Latched, Sent
  <2>9. CASE Settle
    BY <1>5, <1>quiet, <2>9, AttemptSteps
       DEF KeepsAttempt, SameLines, EvidenceInv, Accepted, Sent, DrivingPc
  <2>10. CASE WaitForR1bBusy
    BY <2>10 DEF WaitForR1bBusy, EvidenceInv
  <2>11. CASE Decide
    <3>1. hw'.data = 0 \/ ~hw'.enabled
      BY <2>11, DecideLines, ResetsLines DEF Inv, EvidenceInv
    <3> QED BY <2>11, <3>1, DecideLines DEF Inv, EvidenceInv
  <2> QED BY <1>5, <2>1, <2>2, <2>3, <2>4, <2>5, <2>6, <2>7, <2>8, <2>9, <2>10, <2>11
          DEF WorkerStep
<1> QED BY <1>1, <1>2, <1>3, <1>4, <1>5 DEF Next

LEMMA NoBusyRepliesStep ==
    ASSUME \A cmd \in Command : ~HasBusyReply(cmd),
           TypeOK, Inv, NoBusyReplies, [Next]_vars
    PROVE  NoBusyReplies'
<1>1. CASE \E c \in Caller, cmd \in Command : Submit(c, cmd)
  <2>1. PICK c \in Caller, cmd \in Command : Submit(c, cmd)
    BY <1>1
  <2>2. \A n \in Ticket : ticket'[n] = ticket[n] \/ ticket'[n].cmd = cmd
    BY <2>1 DEF Submit, TypeOK
  <2> QED BY <2>2 DEF NoBusyReplies
<1>2. CASE \A c \in Caller, cmd \in Command : ~Submit(c, cmd)
  BY <1>2, TicketSteps DEF NoBusyReplies
<1> QED BY <1>1, <1>2

\* An answer "ok" is given on what the card did
LEMMA NoFalseSuccessStep ==
    ASSUME TypeOK, Inv, NoBusyReplies, EvidenceInv, NoFalseSuccess, [Next]_vars
    PROVE  NoFalseSuccess'
<1>0. ticket \in [Ticket -> TicketState]
  BY DEF TypeOK
<1>performed. performed \subseteq performed'
  BY DEF Next, vars, software, Submit, CallerStep, DrainTokens, PostTicket, AwaitDone,
     AcquireCompletion, RestoreAfterReset, TerminateBus, WorkerStep, Continue, Claim,
     StormSafeIdleClear, Arm, CheckMailbox, WakeUp, AwaitInhibit, DrainInterrupts, ReadBack,
     Send, Look, WaitEnds, Settle, WaitForR1bBusy, Decide, SignalCompletion, ReleaseTicket,
     ControllerStep, CommandDone, CommandFault, DataDone, DataFault, HandleInterruptMeow,
     Uninit
<1>1. CASE \E c \in Caller, cmd \in Command : Submit(c, cmd)
  <2>1. \A n \in Ticket : ticket'[n] = ticket[n] \/ ~ticket'[n].done
    BY <1>0, <1>1 DEF Submit
  <2> QED BY <1>performed, <2>1 DEF NoFalseSuccess
<1>2. CASE Claim
  <2>1. \A n \in Ticket : ticket'[n] = ticket[n] \/ ticket'[n].cmd = "empty"
    BY <1>0, <1>2 DEF Claim, MarkDone, TicketState
  <2> QED BY <1>performed, <2>1 DEF NoFalseSuccess
<1>3. CASE Decide
  <2>1. CASE UNCHANGED ticket
    BY <1>performed, <2>1 DEF NoFalseSuccess
  <2>2. CASE ~UNCHANGED ticket
    <3>1. PICK r : MarkDone(Txn, r) /\ (r = "ok" => Accepted)
      BY <1>3, <2>2, DecideLines DEF Inv
    <3>2. Txn = made /\ made \in Ticket /\ worker.pc = "decide"
      BY <1>3, TxnType DEF Decide, Inv, DriveInv, DrivingPc, Txn
    <3>3. \A n \in Ticket : n # made => ticket'[n] = ticket[n]
      BY <1>0, <3>1, <3>2 DEF MarkDone
    <3>4. ticket'[made].result = r /\ ticket'[made].cmd = Cmd
      BY <1>0, <3>1, <3>2 DEF MarkDone, TicketState, Cmd, Txn
    <3>5. r = "ok" => /\ <<"command", made>> \in performed
                      /\ RequiresDataLineIdle(Cmd) => <<"data", made>> \in performed
      BY <3>1, <3>2 DEF EvidenceInv, RequiresDataLineIdle, NoBusyReplies, Cmd, Txn
    <3> QED BY <1>performed, <3>3, <3>4, <3>5 DEF NoFalseSuccess
  <2> QED BY <2>1, <2>2
<1>4. CASE /\ \A c \in Caller, cmd \in Command : ~Submit(c, cmd)
           /\ ~Claim /\ ~Decide
  <2>1. \A n \in Ticket : /\ ticket'[n].cmd = ticket[n].cmd
                          /\ ticket'[n].done = ticket[n].done
                          /\ ticket'[n].result = ticket[n].result
    BY <1>4, TicketSteps
  <2> QED BY <1>performed, <2>1 DEF NoFalseSuccess
<1> QED BY <1>1, <1>2, <1>3, <1>4

\* Without the commands whose reply is R1b, a command reported successful was
\* performed by the card, data included; with them it need not be
THEOREM SuccessCorrect ==
    ASSUME Command \cap {"switch", "stop"} = {}
    PROVE  Spec => []NoFalseSuccess
<1> DEFINE AnswerInv == IInv /\ DmaInv /\ NoBusyReplies /\ EvidenceInv /\ NoFalseSuccess
<1>1. Init => AnswerInv
  <2>1. Init => NoBusyReplies /\ NoFalseSuccess
    BY DEF Init, NoBusyReplies, HasBusyReply, NoFalseSuccess
  <2>2. Init => EvidenceInv /\ DmaInv
    BY DEF Init, IdleWorker, ResetController, EvidenceInv, DmaInv, PreSend
  <2> QED BY <2>1, <2>2, InitInv
<1>2. AnswerInv /\ [Next]_vars => AnswerInv'
  <2> SUFFICES ASSUME AnswerInv, [Next]_vars
               PROVE  AnswerInv'
    OBVIOUS
  <2>1. TypeOK /\ Inv
    BY DEF IInv, Inv
  <2>2. IInv'
    BY <2>1, NextType, NextInv DEF IInv, Inv
  <2>3. \A cmd \in Command : ~HasBusyReply(cmd)
    BY DEF HasBusyReply
  <2> QED BY <2>1, <2>2, <2>3, DmaStep, EvidenceStep, NoBusyRepliesStep, NoFalseSuccessStep
<1> QED BY <1>1, <1>2, PTL DEF Spec
=======
