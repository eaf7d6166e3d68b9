-------------------------- MODULE RenderQueue_proofs --------------------------
EXTENDS RenderQueue, SequenceTheorems, FiniteSetTheorems, WellFoundedInduction,
        TLAPS

LEMMA QueueType ==
    ASSUME NEW s \in QueueState, CanQueueRenderJob(s, queuedJobs)
    PROVE  QueueRenderJob(s) \in QueueState
<1>1. s.next + 1 \in 1..LastFence /\ s.queued + 1 \in Nat
  BY QueueLimits DEF QueueState, CanQueueRenderJob
<1> QED BY <1>1 DEF QueueState, QueueRenderJob

LEMMA StartType ==
    ASSUME NEW s \in QueueState, NEW f \in 0..LastFence, CanStart(s, f)
    PROVE  StartRenderJob(s, f) \in QueueState
<1>1. s.queued - 1 \in Nat
  BY DEF QueueState, CanStart
<1> QED BY <1>1 DEF QueueState, StartRenderJob

LEMMA FinishType ==
    ASSUME NEW s \in QueueState, NEW f \in 0..LastFence
    PROVE  FinishRunningRenderJob(s, f) \in QueueState
BY DEF QueueState, FinishRunningRenderJob

LEMMA CancelType ==
    ASSUME NEW s \in QueueState, NEW f \in 0..LastFence, CanCancel(s, f)
    PROVE  CancelQueuedRenderJob(s, f) \in QueueState
<1>1. s.queued - 1 \in Nat
  BY DEF QueueState, CanCancel
<1> QED BY <1>1 DEF QueueState, CancelQueuedRenderJob

LEMMA DecrementType == \A n \in Nat : Decrement(n) \in Nat
BY DEF Decrement

SelectType == [Client -> [Event -> {"off", "armed", "fired"}]]

LEMMA NotifiedType ==
    ASSUME selected \in SelectType, NEW c \in Client, NEW events
    PROVE  Notified(c, events) \in SelectType
BY DEF Notified, SelectType

LEMMA StartJobType ==
    ASSUME TypeOK, NEW c \in Client, StartJob(c)
    PROVE  TypeOK'
<1> DEFINE job == Head(fifo[c])
<1>1. fifo[c] \in Seq(Job) /\ fifo[c] # <<>>
  BY DEF StartJob, IsNextReady, Ready, TypeOK
<1>2. job \in Job /\ Tail(fifo[c]) \in Seq(Job)
  BY <1>1, HeadTailProperties
<1>3. job.fence \in 0..LastFence
  BY <1>2 DEF Job
<1>a. queueState' \in [Client -> QueueState]
  <2>1. queueState \in [Client -> QueueState] BY DEF TypeOK
  <2>2. CASE CanStart(queueState[c], job.fence)
    BY <2>1, <2>2, <1>3, StartType DEF StartJob
  <2>3. CASE ~CanStart(queueState[c], job.fence)
    BY <2>1, <2>3 DEF StartJob
  <2> QED BY <2>2, <2>3
<1>b. queueLost' \in [Client -> BOOLEAN]
  BY DEF LoseQueue, TypeOK, StartJob
<1>c. lastFailed' \in [Client -> 0..LastFence]
  BY <1>3 DEF LoseQueue, TypeOK, StartJob
<1>d. failNext' \in [Client -> BOOLEAN] /\ activeJob' \in [Client -> BOOLEAN]
  BY DEF TypeOK, StartJob
<1>e. fifo' \in [Client -> Seq(Job)]
  BY <1>2 DEF TypeOK, StartJob
<1>f. selected' \in [Client -> [Event -> {"off", "armed", "fired"}]]
  BY NotifiedType DEF TypeOK, StartJob, SelectType
<1>g. queuedJobs' \in Nat
  BY DecrementType DEF TypeOK, StartJob
<1>h. worker' \in Worker
  BY <1>2 DEF Worker, TypeOK, StartJob
<1> QED BY <1>a, <1>b, <1>c, <1>d, <1>e, <1>f, <1>g, <1>h DEF TypeOK, StartJob, bufferVars, closeVars, history

LEMMA IdleType == IdleWorker \in Worker /\ IdleThread \in ThreadState
<1>1. NoJob \in Job
  BY QueueLimits DEF NoJob, Job
<1>2. <<>> \in Seq(Job)
  BY EmptySeq
<1> QED BY <1>1, <1>2, QueueLimits
        DEF IdleWorker, Worker, IdleThread, ThreadState

LEMMA ReleaseType ==
    ASSUME TypeOK, NEW c \in Client \cup {NoClient}, NEW names,
           ReleaseReferences(c, names)
    PROVE  /\ queuedReferences' \in [Client -> [Buffer -> Nat]]
           /\ bufferState' \in
                [Client -> [Buffer -> {"absent", "open", "closePending", "freed"}]]
<1>1. /\ queuedReferences \in [Client -> [Buffer -> Nat]]
      /\ bufferState \in
           [Client -> [Buffer -> {"absent", "open", "closePending", "freed"}]]
  BY DEF TypeOK
<1>2. ASSUME c \in Client
      PROVE  [b \in Buffer |-> IF b \in names /\ queuedReferences[c][b] # 0
                               THEN queuedReferences[c][b] - 1
                               ELSE queuedReferences[c][b]] \in [Buffer -> Nat]
  BY <1>1, <1>2
<1>3. queuedReferences' \in [Client -> [Buffer -> Nat]]
  BY <1>1, <1>2 DEF ReleaseReferences
<1>4. bufferState' \in
        [Client -> [Buffer -> {"absent", "open", "closePending", "freed"}]]
  BY <1>1 DEF ReleaseReferences
<1> QED BY <1>3, <1>4

LEMMA AppendType ==
    ASSUME TypeOK, NEW c \in Client, NEW j \in Job, NEW r \in Result,
           NEW a \in BOOLEAN, AppendCompletion(c, j, r, a)
    PROVE  records' \in [Client -> Seq(Record)]
<1> DEFINE new == [fence |-> j.fence, result |-> r]
<1>1. new \in Record
  BY DEF Job, Record
<1>2. Pruned(records[c]) \in Seq(Record)
  <2>1. records[c] \in Seq(Record) BY DEF TypeOK
  <2> QED BY <2>1, HeadTailProperties DEF Pruned
<1>3. Append(Pruned(records[c]), new) \in Seq(Record)
  BY <1>1, <1>2, AppendProperties
<1> QED BY <1>2, <1>3 DEF AppendCompletion, TypeOK

LEMMA ResolveType ==
    ASSUME TypeOK, NEW c \in Client, NEW f, NEW r \in Result, Resolve(c, f, r)
    PROVE  outcome' \in [Client -> [Fence -> Result \cup {"pending"}]]
BY DEF Resolve, TypeOK

LEMMA SignalType == \A a \in BOOLEAN : Signal(a) \in Nat
BY DEF Signal

LEMMA CompleteJobType ==
    ASSUME TypeOK, WorkerInv, CompleteJob
    PROVE  TypeOK'
<1> DEFINE c == worker.client
<1>1. c \in Client /\ worker.job \in Job /\ worker.job.fence \in 0..LastFence
  BY DEF WorkerInv, CompleteJob, ActivePc, TypeOK, Worker, Job
<1>2. queueState' \in [Client -> QueueState]
  BY <1>1, FinishType DEF CompleteJob, TypeOK
<1>3. PICK a \in RecordAllocated :
        /\ AppendCompletion(c, worker.job, "complete", a)
        /\ worker' = [worker EXCEPT !.pc = "notify", !.signals = Signal(a)]
  BY DEF CompleteJob
<1>4. a \in BOOLEAN
  BY QueueConstants
<1>5. records' \in [Client -> Seq(Record)]
  BY <1>1, <1>3, <1>4, AppendType DEF Result
<1>6. worker' \in Worker
  BY <1>3, <1>4, SignalType DEF TypeOK, Worker
<1>7. outcome' \in [Client -> [Fence -> Result \cup {"pending"}]]
  BY <1>1, ResolveType DEF CompleteJob, Result
<1> QED
  BY <1>2, <1>5, <1>6, <1>7 DEF CompleteJob, TypeOK, bufferVars, closeVars,
     deviceVars

LEMMA FailJobType ==
    ASSUME TypeOK, WorkerInv, FailJob
    PROVE  TypeOK'
<1> DEFINE c == worker.client
<1>1. c \in Client /\ worker.job \in Job /\ worker.job.fence \in 0..LastFence
  BY DEF WorkerInv, FailJob, ActivePc, TypeOK, Worker, Job
<1>2. queueState' \in [Client -> QueueState]
  BY <1>1, FinishType DEF FailJob, TypeOK
<1>3. PICK a \in RecordAllocated :
        /\ AppendCompletion(c, worker.job, "failed", a)
        /\ worker' = [worker EXCEPT !.pc = "cancel", !.ok = FALSE,
                                    !.signals = Signal(a),
                                    !.todo = fifo[c],
                                    !.cancelled = fifo[c]]
  BY DEF FailJob
<1>4. a \in BOOLEAN
  BY QueueConstants
<1>5. records' \in [Client -> Seq(Record)]
  BY <1>1, <1>3, <1>4, AppendType DEF Result
<1>6. worker' \in Worker
  <2>1. fifo[c] \in Seq(Job) BY <1>1 DEF TypeOK
  <2> QED BY <2>1, <1>3, <1>4, SignalType DEF TypeOK, Worker
<1>7. outcome' \in [Client -> [Fence -> Result \cup {"pending"}]]
  BY <1>1, ResolveType DEF FailJob, Result
<1>8. /\ queueLost' \in [Client -> BOOLEAN]
      /\ lastFailed' \in [Client -> 0..LastFence]
  BY <1>1 DEF FailJob, LoseQueue, TypeOK
<1>9. fifo' \in [Client -> Seq(Job)]
  <2>1. fifo \in [Client -> Seq(Job)] BY DEF TypeOK
  <2>2. fifo' = [fifo EXCEPT ![c] = <<>>] BY DEF FailJob
  <2> QED BY <2>1, <2>2, EmptySeq
<1> QED
  BY <1>2, <1>5, <1>6, <1>7, <1>8, <1>9 DEF FailJob, TypeOK, bufferVars,
     closeVars, deviceVars

LEMMA CancelJobType ==
    ASSUME TypeOK, WorkerInv, CancelJob
    PROVE  TypeOK'
<1> DEFINE c == worker.client
           job == Head(worker.todo)
<1>1. /\ c \in Client
      /\ job \in Job
      /\ job.fence \in 0..LastFence
      /\ Tail(worker.todo) \in Seq(Job)
  <2>1. worker.todo \in Seq(Job) /\ worker.todo # <<>>
    BY DEF CancelJob, TypeOK, Worker
  <2>2. job \in Job /\ Tail(worker.todo) \in Seq(Job)
    BY <2>1, HeadTailProperties
  <2> QED BY <2>2 DEF WorkerInv, CancelJob, ActivePc, TypeOK, Job
<1>2. queueState' \in [Client -> QueueState]
  BY <1>1, CancelType DEF CancelJob, TypeOK
<1>3. PICK a \in RecordAllocated :
        /\ AppendCompletion(c, job, "cancelled", a)
        /\ worker' = [worker EXCEPT !.todo = Tail(@),
                                    !.signals = @ + Signal(a)]
  BY DEF CancelJob
<1>4. a \in BOOLEAN
  BY QueueConstants
<1>5. records' \in [Client -> Seq(Record)]
  BY <1>1, <1>3, <1>4, AppendType DEF Result
<1>6. worker' \in Worker
  <2>1. worker.signals + Signal(a) \in Nat
    <3>1. worker.signals \in Nat BY DEF TypeOK, Worker
    <3>2. Signal(a) \in Nat BY <1>4, SignalType
    <3> QED BY <3>1, <3>2
  <2> QED BY <2>1, <1>1, <1>3 DEF TypeOK, Worker
<1>7. outcome' \in [Client -> [Fence -> Result \cup {"pending"}]]
  BY <1>1, ResolveType DEF CancelJob, Result
<1>8. queuedJobs' \in Nat
  BY DecrementType DEF CancelJob, TypeOK
<1> QED
  BY <1>2, <1>5, <1>6, <1>7, <1>8 DEF CancelJob, TypeOK, bufferVars, closeVars

LEMMA WorkerType ==
    ASSUME TypeOK, WorkerInv, WorkerStep
    PROVE  TypeOK'
<1> USE DEF clientVars, signalVars, bufferVars, closeVars, deviceVars, history
<1>1. CASE AcquireQueueSem
  <2>1. queueSem' \in Nat
    <3>1. queueSem \in Nat BY DEF TypeOK
    <3> QED BY <1>1, <3>1 DEF AcquireQueueSem
  <2>2. worker' \in Worker
    BY <1>1 DEF AcquireQueueSem, TypeOK, Worker
  <2> QED BY <1>1, <2>1, <2>2 DEF AcquireQueueSem, TypeOK
<1>2. CASE SelectNothing
  BY <1>2 DEF SelectNothing, TypeOK, Worker
<1>3. CASE \E c \in Client : StartJob(c)
  BY <1>3, StartJobType
<1>4. CASE ExecuteJob
  <2>1. worker.client \in Client \cup {NoClient}
    BY DEF TypeOK, Worker
  <2>2. /\ queuedReferences' \in [Client -> [Buffer -> Nat]]
        /\ bufferState' \in [Client -> [Buffer ->
                                {"absent", "open", "closePending", "freed"}]]
    BY <1>4, <2>1, ReleaseType DEF ExecuteJob
  <2>3. worker' \in Worker
    BY <1>4 DEF ExecuteJob, TypeOK, Worker
  <2> QED BY <1>4, <2>2, <2>3 DEF ExecuteJob, TypeOK
<1>5. CASE CompleteJob
  BY <1>5, CompleteJobType
<1>6. CASE FailJob
  BY <1>6, FailJobType
<1>7. CASE CancelJob
  BY <1>7, CancelJobType
<1>8. CASE CancelDone
  BY <1>8 DEF CancelDone, TypeOK, Worker
<1>9. CASE DropCancelled
  <2>1. worker.client \in Client \cup {NoClient}
    BY DEF TypeOK, Worker
  <2>2. /\ queuedReferences' \in [Client -> [Buffer -> Nat]]
        /\ bufferState' \in [Client -> [Buffer ->
                                {"absent", "open", "closePending", "freed"}]]
    BY <1>9, <2>1, ReleaseType DEF DropCancelled, TypeOK
  <2>3. worker' \in Worker
    <3>1. worker \in Worker /\ worker.cancelled \in Seq(Job)
      BY DEF TypeOK, Worker
    <3>2. CASE worker.cancelled = <<>>
      BY <1>9, <3>1, <3>2 DEF DropCancelled, Worker
    <3>3. CASE worker.cancelled # <<>>
      <4>1. Tail(worker.cancelled) \in Seq(Job)
        BY <3>1, <3>3, HeadTailProperties
      <4> QED BY <1>9, <3>1, <3>3, <4>1 DEF DropCancelled, Worker
    <3> QED BY <3>2, <3>3
  <2> QED BY <1>9, <2>2, <2>3 DEF DropCancelled, TypeOK
<1>10. CASE NotifyCompletion
  <2>1. /\ worker \in Worker
        /\ worker.signals \in Nat
        /\ completionSem \in [Client -> Nat]
        /\ selected \in SelectType
    BY DEF TypeOK, Worker, SelectType
  <2>2. CASE worker.signals = 0
    <3>1. worker' \in Worker
      BY <1>10, <2>1, <2>2 DEF NotifyCompletion, Worker
    <3> QED BY <1>10, <2>2, <3>1 DEF NotifyCompletion, TypeOK
  <2>3. CASE worker.signals # 0
    <3>0. worker.client \in Client
      BY <1>10 DEF WorkerInv, NotifyCompletion, ActivePc
    <3>1. worker.signals - 1 \in Nat
      BY <2>1, <2>3
    <3>2. worker' \in Worker
      BY <1>10, <2>1, <2>3, <3>1 DEF NotifyCompletion, Worker
    <3>3. completionSem' \in [Client -> Nat]
      BY <1>10, <2>1, <2>3 DEF NotifyCompletion
    <3>4. selected' \in SelectType
      BY <1>10, <2>1, <2>3, <3>0, NotifiedType DEF NotifyCompletion
    <3> QED BY <1>10, <2>3, <3>2, <3>3, <3>4
            DEF NotifyCompletion, TypeOK, SelectType
  <2> QED BY <2>2, <2>3
<1>11. CASE FinishJob
  <2>1. worker' \in Worker
    BY <1>11, IdleType DEF FinishJob, TypeOK, Worker
  <2>2. activeJob' \in [Client -> BOOLEAN]
    BY <1>11 DEF FinishJob, TypeOK
  <2> QED BY <1>11, <2>1, <2>2 DEF FinishJob, TypeOK
<1>12. CASE WakeFree
  <2>1. idleSem' \in [Client -> Nat]
    <3>1. idleSem \in [Client -> Nat] BY DEF TypeOK
    <3>2. worker.client \in Client
      BY <1>12 DEF WorkerInv, WakeFree
    <3>3. idleSem[worker.client] + 1 \in Nat
      BY <3>1, <3>2
    <3>4. idleSem' = [idleSem EXCEPT ![worker.client] =
                          idleSem[worker.client] + 1]
      BY <1>12 DEF WakeFree
    <3> QED BY <3>1, <3>3, <3>4
  <2> QED BY <1>12, <2>1, IdleType DEF WakeFree, TypeOK
<1> QED
  BY <1>1, <1>2, <1>3, <1>4, <1>5, <1>6, <1>7, <1>8, <1>9, <1>10, <1>11, <1>12
     DEF WorkerStep

LEMMA AppendJobType ==
    ASSUME TypeOK, NEW t \in Thread, NEW kind \in {"commands", "present"},
           NEW stream \in Stream \cup {0}, NEW names \in SUBSET Buffer,
           AppendJob(t, kind, stream, names)
    PROVE  TypeOK'
<1> DEFINE c == Owner[t]
           job == [fence |-> queueState[c].next, kind |-> kind,
                   stream |-> stream, buffers |-> names, drop |-> FALSE]
           older == IF kind = "present" THEN Superseded(fifo[c], job)
                                        ELSE fifo[c]
<1>1. c \in Client
  BY QueueConstants
<1>2. job \in Job
  <2>1. queueState[c].next \in 0..LastFence
    BY <1>1, QueueLimits DEF TypeOK, QueueState
  <2> QED BY <2>1 DEF Job
<1>3. queueState' \in [Client -> QueueState]
  <2>1. queueState[c] \in QueueState
    BY <1>1 DEF TypeOK
  <2>2. QueueRenderJob(queueState[c]) \in QueueState
    BY <2>1, QueueType DEF AppendJob
  <2> QED BY <2>2 DEF AppendJob, TypeOK
<1>4. older \in Seq(Job)
  <2>1. fifo[c] \in Seq(Job)
    BY <1>1 DEF TypeOK
  <2>2. Superseded(fifo[c], job) \in Seq(Job)
    <3>1. /\ Len(fifo[c]) \in Nat
          /\ DOMAIN fifo[c] = 1..Len(fifo[c])
          /\ \A i \in 1..Len(fifo[c]) : fifo[c][i] \in Job
      BY <2>1, LenProperties, ElementOfSeq
    <3>2. \A i \in 1..Len(fifo[c]) : [fifo[c][i] EXCEPT !.drop = TRUE] \in Job
      <4>1. \A j \in Job : [j EXCEPT !.drop = TRUE] \in Job
        BY DEF Job
      <4> QED BY <3>1, <4>1
    <3>3. Superseded(fifo[c], job) \in [1..Len(fifo[c]) -> Job]
      BY <3>1, <3>2 DEF Superseded
    <3> QED BY <3>1, <3>3, SeqDef
  <2> QED BY <2>1, <2>2
<1>5. fifo' \in [Client -> Seq(Job)]
  <2>1. Append(older, job) \in Seq(Job)
    BY <1>2, <1>4, AppendProperties
  <2>2. fifo' = [fifo EXCEPT ![c] = Append(older, job)]
    BY DEF AppendJob
  <2> QED BY <2>1, <2>2 DEF TypeOK
<1>6. queuedJobs' \in Nat
  <2>1. queuedJobs \in Nat /\ queuedJobs' = queuedJobs + 1
    BY DEF AppendJob, TypeOK
  <2> QED BY <2>1
<1>7. queuedReferences' \in [Client -> [Buffer -> Nat]]
  <2>1. queuedReferences \in [Client -> [Buffer -> Nat]]
    BY DEF TypeOK
  <2> QED BY <1>1, <2>1 DEF AppendJob
<1>8. thread' \in [Thread -> ThreadState]
  BY IdleType DEF AppendJob, TypeOK, ThreadState
<1> QED
  BY <1>3, <1>5, <1>6, <1>7, <1>8 DEF AppendJob, TypeOK, signalVars, closeVars,
     history

LEMMA LookUpType ==
    ASSUME TypeOK, NEW t \in Thread, NEW f \in 0..LastFence, LookUpFence(t, f)
    PROVE  TypeOK'
<1> DEFINE c == Owner[t]
<1>1. c \in Client
  BY QueueConstants
<1>2. FenceResult(c, f) \in Result
  <2>1. CASE RecordedFence(c, f) # {}
    <3> DEFINE i == CHOOSE i \in RecordedFence(c, f) : TRUE
    <3>1. i \in DOMAIN records[c]
      BY <2>1 DEF RecordedFence
    <3>2. records[c] \in Seq(Record)
      BY <1>1 DEF TypeOK
    <3>3. records[c][i] \in Record
      BY <3>1, <3>2, LenProperties, ElementOfSeq
    <3> QED BY <2>1, <3>3 DEF FenceResult, Record
  <2>2. CASE RecordedFence(c, f) = {}
    BY <2>2 DEF FenceResult, Result
  <2> QED BY <2>1, <2>2
<1>3. thread' \in [Thread -> ThreadState]
  <2>1. thread \in [Thread -> ThreadState]
    BY DEF TypeOK
  <2>2. [pc |-> "idle", fence |-> f, result |-> FenceResult(c, f)]
            \in ThreadState
    BY <1>2 DEF ThreadState
  <2>3. [pc |-> "asleep", fence |-> f, result |-> "none"] \in ThreadState
    BY DEF ThreadState
  <2> QED BY <2>1, <2>2, <2>3, IdleType DEF LookUpFence
<1> QED
  BY <1>3 DEF LookUpFence, TypeOK, clientVars, signalVars, bufferVars,
     closeVars, deviceVars, history

LEMMA CallType ==
    ASSUME TypeOK, NEW t \in Thread, Call(t)
    PROVE  TypeOK'
<1> DEFINE c == Owner[t]
<1>0. c \in Client
  BY QueueConstants
<1>1. CASE \E mode \in Mode, inject \in BOOLEAN :
               ConfigureRenderQueue(t, mode, inject)
  <2>1. PICK mode \in Mode, inject \in BOOLEAN :
               ConfigureRenderQueue(t, mode, inject)
    BY <1>1
  <2>2. /\ queueMode' \in [Client -> Mode \cup {"safe"}]
        /\ failNext' \in [Client -> BOOLEAN]
        /\ queueLost' \in [Client -> BOOLEAN]
    BY <2>1 DEF ConfigureRenderQueue, TypeOK
  <2>3. lastFailed' \in [Client -> 0..LastFence]
    <3>1. lastFailed \in [Client -> 0..LastFence] /\ 0 \in 0..LastFence
      BY QueueLimits DEF TypeOK
    <3> QED BY <2>1, <3>1 DEF ConfigureRenderQueue
  <2>4. epoch' \in [Client -> 0..LastFence]
    <3>1. queueState[c].retired \in 0..LastFence
      BY <1>0 DEF TypeOK, QueueState
    <3> QED BY <2>1, <3>1 DEF ConfigureRenderQueue, TypeOK
  <2> QED
    BY <2>1, <2>2, <2>3, <2>4 DEF ConfigureRenderQueue, TypeOK, signalVars,
       bufferVars, closeVars, deviceVars
<1>2. CASE \E names \in SUBSET Buffer : EnqueueRenderCommands(t, names)
  BY <1>2, AppendJobType DEF EnqueueRenderCommands
<1>3. CASE \E b \in Buffer, stream \in Stream :
               EnqueueRenderDirectPresent(t, b, stream)
  BY <1>3, AppendJobType DEF EnqueueRenderDirectPresent
<1>4. CASE \E f \in Fence : WaitRenderQueueFence(t, f)
  <2>1. PICK f \in Fence : LookUpFence(t, f)
    BY <1>4 DEF WaitRenderQueueFence
  <2>2. f \in 0..LastFence
    BY QueueLimits DEF Fence
  <2> QED BY <2>1, <2>2, LookUpType
<1>5. CASE DequeueRenderCompletion(t)
  <2>1. records[c] \in Seq(Record) /\ records[c] # <<>>
    BY <1>0, <1>5 DEF DequeueRenderCompletion, TypeOK
  <2>2. Head(records[c]) \in Record /\ Tail(records[c]) \in Seq(Record)
    BY <2>1, HeadTailProperties
  <2>3. records' \in [Client -> Seq(Record)]
    BY <1>5, <2>2 DEF DequeueRenderCompletion, TypeOK
  <2>4. thread' \in [Thread -> ThreadState]
    BY <1>5, <2>2 DEF DequeueRenderCompletion, TypeOK, Record, ThreadState
  <2> QED
    BY <1>5, <2>3, <2>4 DEF DequeueRenderCompletion, TypeOK, clientVars,
       bufferVars, closeVars, deviceVars, history
<1> QED BY <1>1, <1>2, <1>3, <1>4, <1>5 DEF Call

LEMMA ThreadStepType ==
    ASSUME TypeOK, NEW t \in Thread, ThreadStep(t) \/ GiveUp(t)
    PROVE  TypeOK'
<1> USE DEF clientVars, signalVars, bufferVars, closeVars, deviceVars, history
<1> DEFINE c == Owner[t]
<1>0. /\ c \in Client
      /\ thread \in [Thread -> ThreadState]
      /\ completionSem \in [Client -> Nat]
      /\ queueSem \in Nat
  BY QueueConstants DEF TypeOK
<1>1. CASE PostJob(t)
  <2>1. queueSem' \in Nat /\ thread' \in [Thread -> ThreadState]
    BY <1>0, <1>1, IdleType DEF PostJob
  <2> QED BY <1>1, <2>1 DEF PostJob, TypeOK
<1>2. CASE AcquireCompletion(t)
  <2>1. completionSem' \in [Client -> Nat]
    BY <1>0, <1>2 DEF AcquireCompletion
  <2>2. thread' \in [Thread -> ThreadState]
    BY <1>0, <1>2 DEF AcquireCompletion, ThreadState
  <2> QED BY <1>2, <2>1, <2>2 DEF AcquireCompletion, TypeOK
<1>3. CASE CheckAgain(t)
  <2>1. thread[t].fence \in 0..LastFence
    BY <1>0 DEF ThreadState
  <2> QED BY <1>3, <2>1, LookUpType DEF CheckAgain
<1>4. CASE DrainToken(t)
  <2>1. completionSem' \in [Client -> Nat]
    BY <1>0, <1>4, DecrementType DEF DrainToken
  <2>2. thread' \in [Thread -> ThreadState]
    BY <1>0, <1>4 DEF DrainToken, ThreadState
  <2> QED BY <1>4, <2>1, <2>2 DEF DrainToken, TypeOK
<1>5. CASE GiveUp(t)
  <2>1. thread' \in [Thread -> ThreadState]
    BY <1>0, <1>5, IdleType DEF GiveUp
  <2> QED BY <1>5, <2>1 DEF GiveUp, TypeOK
<1> QED BY <1>1, <1>2, <1>3, <1>4, <1>5 DEF ThreadStep

LEMMA ClientCallType ==
    ASSUME TypeOK, NEW c \in Client, ClientCall(c)
    PROVE  TypeOK'
<1> USE DEF clientVars, signalVars, bufferVars, closeVars, deviceVars, history
<1>0. /\ bufferState \in
           [Client -> [Buffer -> {"absent", "open", "closePending", "freed"}]]
      /\ selected \in SelectType
  BY DEF TypeOK, SelectType
<1>1. CASE \E b \in Buffer : CreateRenderBuffer(c, b)
  <2>1. bufferState' \in
           [Client -> [Buffer -> {"absent", "open", "closePending", "freed"}]]
    BY <1>0, <1>1 DEF CreateRenderBuffer
  <2> QED BY <1>1, <2>1 DEF CreateRenderBuffer, TypeOK
<1>2. CASE \E b \in Buffer : CloseRenderBuffer(c, b)
  <2>1. bufferState' \in
           [Client -> [Buffer -> {"absent", "open", "closePending", "freed"}]]
    BY <1>0, <1>2 DEF CloseRenderBuffer
  <2> QED BY <1>2, <2>1 DEF CloseRenderBuffer, TypeOK
<1>3. CASE \E e \in Event : SelectRenderQueue(c, e)
  <2>1. selected' \in SelectType
    BY <1>0, <1>3 DEF SelectRenderQueue, SelectType
  <2> QED BY <1>3, <2>1 DEF SelectRenderQueue, TypeOK, SelectType
<1>4. CASE \E e \in Event : DeselectRenderQueue(c, e)
  <2>1. selected' \in SelectType
    BY <1>0, <1>4 DEF DeselectRenderQueue, SelectType
  <2> QED BY <1>4, <2>1 DEF DeselectRenderQueue, TypeOK, SelectType
<1> QED BY <1>1, <1>2, <1>3, <1>4 DEF ClientCall

LEMMA ListType ==
    ASSUME NEW c \in Client, renderClients \in Seq(Client), ListedInv,
           phase[c] = "unlink"
    PROVE  /\ Position(c) \in 1..Len(renderClients)
           /\ renderClients[Position(c)] = c
           /\ Len(renderClients) \in Nat \ {0}
           /\ ClientsWithout(c) \in Seq(Client)
           /\ Len(ClientsWithout(c)) = Len(renderClients) - 1
           /\ \A i \in 1..(Len(renderClients) - 1) : ClientsWithout(c)[i] =
                  renderClients[IF i < Position(c) THEN i ELSE i + 1]
<1> DEFINE n == Len(renderClients)
<1>1. /\ n \in Nat
      /\ DOMAIN renderClients = 1..n
      /\ \A i \in 1..n : renderClients[i] \in Client
  BY LenProperties, ElementOfSeq
<1>2. \E i \in 1..n : renderClients[i] = c
  BY DEF ListedInv
<1>3. Position(c) \in 1..n /\ renderClients[Position(c)] = c
  BY <1>1, <1>2 DEF Position
<1>4. n - 1 \in Nat /\ n \in Nat \ {0}
  BY <1>1, <1>3
<1> DEFINE f == [i \in 1..(n - 1) |->
                    renderClients[IF i < Position(c) THEN i ELSE i + 1]]
<1>5. f \in [1..(n - 1) -> Client]
  <2>1. \A i \in 1..(n - 1) : i \in 1..n /\ i + 1 \in 1..n
    BY <1>4
  <2> QED BY <1>1, <2>1
<1>6. ClientsWithout(c) = f
  BY DEF ClientsWithout
<1>7. f \in Seq(Client)
  BY <1>4, <1>5, SeqDef
<1>8. Len(f) = n - 1
  BY <1>4, <1>5, <1>7, LenProperties
<1> QED BY <1>3, <1>4, <1>6, <1>7, <1>8

LEMMA OpenFreeType ==
    ASSUME TypeOK, ListedInv, NEW c \in Client,
           OpenClient(c) \/ BeginFree(c) \/ FreeStep(c)
    PROVE  TypeOK'
<1> USE DEF signalVars, bufferVars, closeVars, deviceVars, history
<1>0. /\ phase \in [Client -> Phase]
      /\ closeTodo \in [Client -> Seq(Job)]
      /\ closeDrop \in [Client -> Seq(Job)]
      /\ fifo \in [Client -> Seq(Job)]
      /\ idleSem \in [Client -> Nat]
      /\ renderClients \in Seq(Client)
  BY DEF TypeOK
<1>1. CASE OpenClient(c)
  <2>1. phase' \in [Client -> Phase]
    BY <1>0, <1>1 DEF OpenClient, Phase
  <2>2. renderClients' \in Seq(Client)
    <3>1. <<c>> \in Seq(Client)
      OBVIOUS
    <3> QED BY <1>0, <1>1, <3>1, ConcatProperties DEF OpenClient
  <2> QED BY <1>1, <2>1, <2>2 DEF OpenClient, TypeOK
<1>2. CASE BeginFree(c)
  <2>1. phase' \in [Client -> Phase]
    BY <1>0, <1>2 DEF BeginFree, Phase
  <2>2. /\ closeTodo' \in [Client -> Seq(Job)]
        /\ closeDrop' \in [Client -> Seq(Job)]
        /\ fifo' \in [Client -> Seq(Job)]
    BY <1>0, <1>2, EmptySeq DEF BeginFree
  <2> QED BY <1>2, <2>1, <2>2 DEF BeginFree, TypeOK
<1>3. CASE CancelAtFree(c)
  <2> DEFINE job == Head(closeTodo[c])
  <2>1. /\ job \in Job
        /\ job.fence \in 0..LastFence
        /\ Tail(closeTodo[c]) \in Seq(Job)
    <3>1. closeTodo[c] \in Seq(Job) /\ closeTodo[c] # <<>>
      BY <1>0, <1>3 DEF CancelAtFree
    <3>2. job \in Job /\ Tail(closeTodo[c]) \in Seq(Job)
      BY <3>1, HeadTailProperties
    <3> QED BY <3>2 DEF Job
  <2>2. closeTodo' \in [Client -> Seq(Job)]
    BY <1>0, <1>3, <2>1 DEF CancelAtFree
  <2>3. queuedJobs' \in Nat
    BY <1>3, DecrementType DEF CancelAtFree, TypeOK
  <2>4. CASE CanCancel(queueState[c], job.fence)
    <3>1. queueState' \in [Client -> QueueState]
      <4>1. queueState \in [Client -> QueueState]
        BY DEF TypeOK
      <4>2. CancelQueuedRenderJob(queueState[c], job.fence) \in QueueState
        BY <2>1, <2>4, <4>1, CancelType
      <4>3. queueState' = [queueState EXCEPT ![c] =
                CancelQueuedRenderJob(queueState[c], job.fence)]
        BY <1>3, <2>4 DEF CancelAtFree
      <4> QED BY <4>1, <4>2, <4>3
    <3>2. outcome' \in [Client -> [Fence -> Result \cup {"pending"}]]
      BY <1>3, <2>4, ResolveType DEF CancelAtFree, Result
    <3> QED BY <1>3, <2>2, <2>3, <3>1, <3>2 DEF CancelAtFree, TypeOK
  <2>5. CASE ~CanCancel(queueState[c], job.fence)
    BY <1>3, <2>2, <2>3, <2>5 DEF CancelAtFree, TypeOK
  <2> QED BY <2>4, <2>5
<1>4. CASE CancelAtFreeDone(c)
  <2>1. phase' \in [Client -> Phase]
    BY <1>0, <1>4 DEF CancelAtFreeDone, Phase
  <2> QED BY <1>4, <2>1 DEF CancelAtFreeDone, TypeOK
<1>5. CASE DropAtFree(c)
  <2>1. phase' \in [Client -> Phase]
    BY <1>0, <1>5 DEF DropAtFree, Phase
  <2>2. CASE closeDrop[c] = <<>>
    BY <1>5, <2>1, <2>2 DEF DropAtFree, TypeOK
  <2>3. CASE closeDrop[c] # <<>>
    <3>1. closeDrop' \in [Client -> Seq(Job)]
      <4>1. closeDrop[c] \in Seq(Job)
        BY <1>0
      <4>2. Tail(closeDrop[c]) \in Seq(Job)
        BY <2>3, <4>1, HeadTailProperties
      <4> QED BY <1>0, <1>5, <2>3, <4>2 DEF DropAtFree
    <3>2. /\ queuedReferences' \in [Client -> [Buffer -> Nat]]
          /\ bufferState' \in [Client -> [Buffer ->
                                  {"absent", "open", "closePending", "freed"}]]
      BY <1>5, <2>3, ReleaseType DEF DropAtFree
    <3> QED BY <1>5, <2>1, <2>3, <3>1, <3>2 DEF DropAtFree, TypeOK
  <2> QED BY <2>2, <2>3
<1>6. CASE AwaitIdle(c)
  <2>1. phase' \in [Client -> Phase]
    BY <1>0, <1>6 DEF AwaitIdle, Phase
  <2>2. idleSem' \in [Client -> Nat]
    BY <1>0, <1>6 DEF AwaitIdle
  <2> QED BY <1>6, <2>1, <2>2 DEF AwaitIdle, TypeOK
<1>7. CASE UnlinkClient(c)
  <2>1. phase' \in [Client -> Phase]
    BY <1>0, <1>7 DEF UnlinkClient, Phase
  <2>2. renderClients' \in Seq(Client)
    BY <1>0, <1>7, ListType DEF UnlinkClient
  <2>3. cursor' \in Client \cup {NoClient}
    BY <1>7 DEF UnlinkClient, CursorWithout, TypeOK
  <2>4. records' \in [Client -> Seq(Record)]
    BY <1>7, EmptySeq DEF UnlinkClient, TypeOK
  <2>5. /\ completionSem' \in [Client -> Nat]
        /\ idleSem' \in [Client -> Nat]
    BY <1>7 DEF UnlinkClient, TypeOK
  <2>6. selected' \in SelectType
    BY <1>7 DEF UnlinkClient, TypeOK, SelectType
  <2>7. bufferState' \in
           [Client -> [Buffer -> {"absent", "open", "closePending", "freed"}]]
    BY <1>7 DEF UnlinkClient, TypeOK
  <2> QED BY <1>7, <2>1, <2>2, <2>3, <2>4, <2>5, <2>6, <2>7
          DEF UnlinkClient, TypeOK, SelectType
<1> QED BY <1>1, <1>2, <1>3, <1>4, <1>5, <1>6, <1>7 DEF FreeStep

LEMMA NextType ==
    ASSUME TypeOK, WorkerInv, ListedInv, [Next]_vars
    PROVE  TypeOK'
<1>1. CASE ShutdownRenderQueue
  <2>1. queueSem' \in Nat
    <3>1. queueSem \in Nat BY DEF TypeOK
    <3> QED BY <1>1, <3>1 DEF ShutdownRenderQueue
  <2> QED BY <1>1, <2>1 DEF ShutdownRenderQueue, TypeOK, clientVars,
             signalVars, bufferVars, closeVars, history
<1>2. CASE UNCHANGED vars
  BY <1>2 DEF vars, clientVars, signalVars, bufferVars, closeVars, deviceVars,
     history, TypeOK
<1> QED
  BY <1>1, <1>2, WorkerType, CallType, ThreadStepType, ClientCallType,
     OpenFreeType DEF Next

-----------------------------------------------------------------------------
Inv ==
    /\ WorkerInv
    /\ LockInv
    /\ ListsInv
    /\ TimelineInv
    /\ RetiredMeansResolved
    /\ CloseInv
    /\ ListedInv

core == <<phase, queueState, fifo, activeJob, idleSem, closeTodo,
          renderClients, cursor, worker, outcome>>

LEMMA FrameInv ==
    ASSUME Inv, UNCHANGED core
    PROVE  Inv'
<1> USE DEF Inv, core
<1>1. WorkerInv' BY DEF WorkerInv
<1>2. LockInv' BY DEF LockInv
<1>3. ListsInv' BY DEF ListsInv
<1>4. TimelineInv' BY DEF TimelineInv, Contiguous
<1>5. RetiredMeansResolved' BY DEF RetiredMeansResolved
<1>6. CloseInv' BY DEF CloseInv
<1>7. ListedInv' BY DEF ListedInv
<1> QED BY <1>1, <1>2, <1>3, <1>4, <1>5, <1>6, <1>7

(***************************************************************************)
(* Steps of the worker that only move its program counter or its locals.   *)
(***************************************************************************)
LEMMA AcquireInv ==
    ASSUME IInv, AcquireQueueSem \/ SelectNothing
    PROVE  Inv'
<1>1. /\ worker.pc \in {"wait", "select"}
      /\ worker'.pc \in {"wait", "select", "exited"}
      /\ worker'.client = worker.client
      /\ worker'.todo = worker.todo
      /\ worker'.job = worker.job
  BY DEF AcquireQueueSem, SelectNothing, IInv, TypeOK, Worker
<1>2. UNCHANGED <<phase, queueState, fifo, activeJob, idleSem, closeTodo,
                  renderClients, cursor, outcome>>
  BY DEF AcquireQueueSem, SelectNothing, clientVars, signalVars, closeVars,
     deviceVars, history
<1> USE <1>1, <1>2 DEF IInv
<1>3. WorkerInv' BY DEF WorkerInv, ActivePc
<1>4. LockInv' BY DEF LockInv
<1>5. ListsInv' BY DEF ListsInv
<1>6. TimelineInv' BY DEF TimelineInv, Contiguous
<1>7. RetiredMeansResolved' BY DEF RetiredMeansResolved
<1>8. CloseInv' BY DEF CloseInv
<1>9. ListedInv' BY DEF ListedInv
<1> QED BY <1>3, <1>4, <1>5, <1>6, <1>7, <1>8, <1>9 DEF Inv

LEMMA ExecuteInv ==
    ASSUME IInv, ExecuteJob
    PROVE  Inv'
<1>1. /\ worker.pc = "execute"
      /\ worker'.pc = "settle"
      /\ worker'.client = worker.client
      /\ worker'.todo = worker.todo
      /\ worker'.job = worker.job
  BY DEF ExecuteJob, IInv, TypeOK, Worker
<1>2. UNCHANGED <<phase, queueState, fifo, activeJob, idleSem, closeTodo,
                  renderClients, cursor, outcome>>
  BY DEF ExecuteJob, clientVars, signalVars, closeVars, deviceVars, history
<1> USE <1>1, <1>2 DEF IInv
<1>3. WorkerInv' BY DEF WorkerInv, ActivePc
<1>4. LockInv' BY DEF LockInv
<1>5. ListsInv' BY DEF ListsInv
<1>6. TimelineInv' BY DEF TimelineInv, Contiguous
<1>7. RetiredMeansResolved' BY DEF RetiredMeansResolved
<1>8. CloseInv' BY DEF CloseInv
<1>9. ListedInv' BY DEF ListedInv
<1> QED BY <1>3, <1>4, <1>5, <1>6, <1>7, <1>8, <1>9 DEF Inv

\* The lists are released and the signals sent after the lock is gone
LEMMA AfterwardsInv ==
    ASSUME IInv, CancelDone \/ DropCancelled \/ NotifyCompletion
    PROVE  Inv'
<1>1. /\ worker.pc \in {"cancel", "drop", "notify"}
      /\ worker'.pc \in {"drop", "notify", "finish"}
      /\ worker'.client = worker.client
      /\ worker'.todo = worker.todo
      /\ worker.todo = <<>>
      /\ worker'.job = worker.job
  <2>1. worker \in Worker /\ (worker.pc # "cancel" => worker.todo = <<>>)
    BY DEF IInv, TypeOK, ListsInv
  <2>2. CASE CancelDone
    BY <2>1, <2>2 DEF CancelDone, Worker
  <2>3. CASE DropCancelled
    BY <2>1, <2>3 DEF DropCancelled, Worker
  <2>4. CASE NotifyCompletion
    BY <2>1, <2>4 DEF NotifyCompletion, Worker
  <2> QED BY <2>2, <2>3, <2>4
<1>2. UNCHANGED <<phase, queueState, fifo, activeJob, idleSem, closeTodo,
                  renderClients, cursor, outcome>>
  BY DEF CancelDone, DropCancelled, NotifyCompletion, clientVars, signalVars,
     closeVars, deviceVars, history
<1> USE <1>1, <1>2 DEF IInv
<1>3. WorkerInv' BY DEF WorkerInv, ActivePc
<1>4. LockInv' BY DEF LockInv
<1>5. ListsInv' BY DEF ListsInv
<1>6. TimelineInv' BY DEF TimelineInv, Contiguous, ListsInv
<1>7. RetiredMeansResolved' BY DEF RetiredMeansResolved
<1>8. CloseInv' BY DEF CloseInv
<1>9. ListedInv' BY DEF ListedInv
<1> QED BY <1>3, <1>4, <1>5, <1>6, <1>7, <1>8, <1>9 DEF Inv

LEMMA FinishInv ==
    ASSUME IInv, FinishJob
    PROVE  Inv'
<1> DEFINE c == worker.client
<1>1. /\ worker.pc = "finish"
      /\ c \in Client
      /\ activeJob[c]
      /\ worker'.todo = <<>>
      /\ \A d \in Client : activeJob'[d] = (d # c /\ activeJob[d])
      /\ \A d \in Client : phase[d] # "cancelling"
  <2>1. worker.pc = "finish" /\ QueueLockFree /\ worker.todo = <<>>
    BY DEF FinishJob, IInv, ListsInv
  <2>2. c \in Client /\ activeJob[c]
    BY <2>1 DEF IInv, WorkerInv, ActivePc
  <2>3. worker'.todo = <<>>
    BY <2>1 DEF FinishJob, IInv, TypeOK, Worker, IdleWorker
  <2>4. \A d \in Client : activeJob'[d] = (d # c /\ activeJob[d])
    <3>1. activeJob \in [Client -> BOOLEAN]
      BY DEF IInv, TypeOK
    <3> QED BY <2>2, <3>1 DEF FinishJob
  <2> QED BY <2>1, <2>2, <2>3, <2>4 DEF QueueLockFree
<1>2. \/ /\ Closing(c)
         /\ worker'.pc = "wake"
         /\ worker'.client = c
      \/ /\ ~Closing(c)
         /\ worker'.pc = "wait"
         /\ worker'.client = NoClient
  BY DEF FinishJob, IInv, TypeOK, Worker, IdleWorker
<1>3. UNCHANGED <<phase, queueState, fifo, idleSem, closeTodo,
                  renderClients, cursor, outcome>>
  BY DEF FinishJob, signalVars, closeVars, deviceVars, history
<1> USE <1>1, <1>2, <1>3 DEF IInv
<1>4. WorkerInv' BY QueueConstants DEF WorkerInv, ActivePc
<1>5. LockInv' BY DEF LockInv
<1>6. ListsInv' BY QueueConstants DEF ListsInv
<1>7. TimelineInv' BY QueueConstants DEF TimelineInv, Contiguous
<1>8. RetiredMeansResolved' BY DEF RetiredMeansResolved
<1>9. CloseInv'
  <2>1. /\ phase \in [Client -> Phase]
        /\ phase[c] \in {"open", "dropThenWait", "waitIdle"}
    BY DEF CloseInv, TypeOK
  <2>2. ~Closing(c) => phase[c] = "open"
    BY <2>1 DEF Closing
  <2>3. Closing(c) => phase[c] \in {"dropThenWait", "waitIdle"}
    BY <2>1 DEF Closing
  <2>4. ASSUME NEW d \in Client, d # c
        PROVE  /\ idleSem[d] \in {0, 1}
               /\ activeJob'[d] => phase[d] \in
                      {"open", "cancelling", "dropThenWait", "waitIdle"}
               /\ worker'.client # d
               /\ idleSem[d] = 1 => phase[d] \in {"dropThenWait", "waitIdle"}
    <3>1. worker'.client # d
      BY <2>4, QueueConstants
    <3>2. activeJob'[d] => activeJob[d]
      BY <2>4
    <3> QED BY <3>1, <3>2 DEF CloseInv
  <2>5. /\ idleSem[c] = 0
        /\ ~activeJob'[c]
        /\ worker'.pc = "wake" => phase[c] \in {"dropThenWait", "waitIdle"}
    BY <2>3 DEF CloseInv
  <2> QED BY <2>4, <2>5 DEF CloseInv
<1>10. ListedInv' BY DEF ListedInv
<1> QED BY <1>4, <1>5, <1>6, <1>7, <1>8, <1>9, <1>10 DEF Inv

LEMMA WakeInv ==
    ASSUME IInv, WakeFree
    PROVE  Inv'
<1> DEFINE c == worker.client
<1>1. /\ worker.pc = "wake"
      /\ c \in Client
      /\ worker' = IdleWorker
      /\ idleSem[c] = 0
      /\ \A d \in Client : idleSem'[d] = IF d = c THEN 1 ELSE idleSem[d]
  BY DEF WakeFree, IInv, TypeOK, WorkerInv, CloseInv
<1>2. /\ worker'.pc = "wait"
      /\ worker'.client = NoClient
      /\ worker'.todo = <<>>
  BY <1>1 DEF IdleWorker
<1>3. UNCHANGED <<phase, queueState, fifo, activeJob, closeTodo,
                  renderClients, cursor, outcome>>
  BY DEF WakeFree, clientVars, closeVars, deviceVars, history
<1> USE <1>1, <1>2, <1>3 DEF IInv
<1>4. WorkerInv' BY QueueConstants DEF WorkerInv, ActivePc
<1>5. LockInv' BY DEF LockInv
<1>6. ListsInv' BY QueueConstants DEF ListsInv
<1>7. TimelineInv' BY QueueConstants DEF TimelineInv, Contiguous
<1>8. RetiredMeansResolved' BY DEF RetiredMeansResolved
<1>9. CloseInv' BY QueueConstants DEF CloseInv
<1>10. ListedInv' BY DEF ListedInv
<1> QED BY <1>4, <1>5, <1>6, <1>7, <1>8, <1>9, <1>10 DEF Inv

(***************************************************************************)
(* The timeline arithmetic of RenderQueueCore on a contiguous list of jobs.*)
(***************************************************************************)

\* Taking the first job off a list of consecutive fences
LEMMA TailFences ==
    ASSUME NEW s \in Seq(Job), s # <<>>, NEW b \in Nat,
           \A i \in 1..Len(s) : s[i].fence = b + i
    PROVE  /\ Len(s) \in Nat \ {0}
           /\ Tail(s) \in Seq(Job)
           /\ Len(Tail(s)) = Len(s) - 1
           /\ Head(s).fence = b + 1
           /\ \A i \in 1..Len(Tail(s)) : Tail(s)[i].fence = b + 1 + i
<1>1. /\ Len(s) \in Nat
      /\ Head(s) = s[1]
      /\ Tail(s) \in Seq(Job)
      /\ Len(Tail(s)) = Len(s) - 1
      /\ \A i \in 1..Len(Tail(s)) : Tail(s)[i] = s[i + 1]
  BY HeadTailProperties, LenProperties
<1>2. Len(s) # 0
  BY EmptySeq
<1>3. Head(s).fence = b + 1
  BY <1>1, <1>2
<1>4. ASSUME NEW i \in 1..Len(Tail(s))
      PROVE  Tail(s)[i].fence = b + 1 + i
  <2>1. i + 1 \in 1..Len(s) /\ Tail(s)[i] = s[i + 1]
    BY <1>1
  <2> QED BY <2>1
<1> QED BY <1>1, <1>2, <1>3, <1>4

\* StartRenderJob accepts the head of a contiguous FIFO
LEMMA ContiguousStart ==
    ASSUME NEW q \in QueueState, NEW s \in Seq(Job), s # <<>>,
           Contiguous(q, s), ~q.running
    PROVE  /\ Head(s).fence = q.retired + 1
           /\ CanStart(q, Head(s).fence)
           /\ Contiguous(StartRenderJob(q, Head(s).fence), Tail(s))
<1>1. q.retired \in Nat /\ q.queued \in Nat /\ q.next \in Nat
  BY QueueLimits DEF QueueState
<1>2. /\ Len(s) = q.queued
      /\ q.next = q.retired + q.queued + 1
      /\ \A i \in 1..Len(s) : s[i].fence = q.retired + i
  BY <1>1 DEF Contiguous
<1>3. /\ Len(s) \in Nat \ {0}
      /\ Len(Tail(s)) = Len(s) - 1
      /\ Head(s).fence = q.retired + 1
      /\ \A i \in 1..Len(Tail(s)) : Tail(s)[i].fence = q.retired + 1 + i
  BY <1>1, <1>2, TailFences
<1>4. CanStart(q, Head(s).fence)
  BY <1>1, <1>2, <1>3 DEF CanStart, InvalidFence
<1> DEFINE n == StartRenderJob(q, Head(s).fence)
<1>5. /\ n.running
      /\ n.queued = q.queued - 1
      /\ n.retired = q.retired
      /\ n.next = q.next
  BY DEF StartRenderJob, QueueState
<1>6. Contiguous(n, Tail(s))
  <2> HIDE DEF n
  <2> QED BY <1>1, <1>2, <1>3, <1>5 DEF Contiguous
<1> QED BY <1>3, <1>4, <1>6

\* Retiring the running job keeps the rest contiguous
LEMMA ContiguousFinish ==
    ASSUME NEW q \in QueueState, NEW s \in Seq(Job), Contiguous(q, s),
           q.running
    PROVE  Contiguous(FinishRunningRenderJob(q, q.retired + 1), s)
<1>1. q.retired \in Nat /\ q.queued \in Nat /\ q.next \in Nat
  BY QueueLimits DEF QueueState
<1> DEFINE n == FinishRunningRenderJob(q, q.retired + 1)
<1>2. /\ ~n.running
      /\ n.queued = q.queued
      /\ n.retired = q.retired + 1
      /\ n.next = q.next
  BY DEF FinishRunningRenderJob, QueueState
<1> HIDE DEF n
<1>3. /\ Len(s) = q.queued
      /\ q.next = q.retired + 1 + q.queued + 1
      /\ \A i \in 1..Len(s) : s[i].fence = q.retired + 1 + i
  BY <1>1 DEF Contiguous
<1>4. \A i \in 1..Len(s) : s[i].fence = n.retired + 0 + i
  BY <1>1, <1>2, <1>3
<1>5. n.next = n.retired + 0 + n.queued + 1
  BY <1>1, <1>2, <1>3
<1>6. Contiguous(n, s)
  BY <1>2, <1>3, <1>4, <1>5 DEF Contiguous
<1> QED BY <1>6 DEF n

\* CancelQueuedRenderJob accepts the head of a contiguous FIFO
LEMMA ContiguousCancel ==
    ASSUME NEW q \in QueueState, NEW s \in Seq(Job), s # <<>>,
           Contiguous(q, s), ~q.running
    PROVE  /\ Head(s).fence = q.retired + 1
           /\ CanCancel(q, Head(s).fence)
           /\ Contiguous(CancelQueuedRenderJob(q, Head(s).fence), Tail(s))
<1>1. q.retired \in Nat /\ q.queued \in Nat /\ q.next \in Nat
  BY QueueLimits DEF QueueState
<1>2. /\ Len(s) = q.queued
      /\ q.next = q.retired + q.queued + 1
      /\ \A i \in 1..Len(s) : s[i].fence = q.retired + i
  BY <1>1 DEF Contiguous
<1>3. /\ Len(s) \in Nat \ {0}
      /\ Len(Tail(s)) = Len(s) - 1
      /\ Head(s).fence = q.retired + 1
      /\ \A i \in 1..Len(Tail(s)) : Tail(s)[i].fence = q.retired + 1 + i
  BY <1>1, <1>2, TailFences
<1>4. CanCancel(q, Head(s).fence)
  BY <1>1, <1>2, <1>3 DEF CanCancel, InvalidFence
<1> DEFINE n == CancelQueuedRenderJob(q, Head(s).fence)
<1>5. /\ ~n.running
      /\ n.queued = q.queued - 1
      /\ n.retired = q.retired + 1
      /\ n.next = q.next
  BY <1>3 DEF CancelQueuedRenderJob, QueueState
<1>6. Contiguous(n, Tail(s))
  <2> HIDE DEF n
  <2>1. Len(Tail(s)) = n.queued
    BY <1>2, <1>3, <1>5
  <2>2. n.next = n.retired + 0 + n.queued + 1
    BY <1>1, <1>2, <1>5
  <2>3. \A i \in 1..Len(Tail(s)) : Tail(s)[i].fence = n.retired + 0 + i
    BY <1>1, <1>3, <1>5
  <2> QED BY <1>5, <2>1, <2>2, <2>3 DEF Contiguous
<1> QED BY <1>3, <1>4, <1>6

\* A job that carries q.next extends a contiguous FIFO
LEMMA ContiguousQueue ==
    ASSUME NEW q \in QueueState, NEW s \in Seq(Job), Contiguous(q, s),
           NEW r \in Seq(Job), NEW job \in Job, job.fence = q.next,
           Len(r) = Len(s), \A i \in 1..Len(s) : r[i].fence = s[i].fence
    PROVE  Contiguous(QueueRenderJob(q), Append(r, job))
<1>1. q.retired \in Nat /\ q.queued \in Nat /\ q.next \in Nat
  BY QueueLimits DEF QueueState
<1>2. /\ Len(s) \in Nat
      /\ Len(Append(r, job)) = Len(s) + 1
      /\ \A i \in 1..Len(s) : Append(r, job)[i] = r[i]
      /\ Append(r, job)[Len(s) + 1] = job
  BY AppendProperties, LenProperties
<1> DEFINE n == QueueRenderJob(q)
<1>3. /\ n.running = q.running
      /\ n.queued = q.queued + 1
      /\ n.retired = q.retired
      /\ n.next = q.next + 1
  BY DEF QueueRenderJob, QueueState
<1> HIDE DEF n
<1>4. ASSUME NEW i \in 1..(Len(s) + 1)
      PROVE  Append(r, job)[i].fence =
                 q.retired + (IF q.running THEN 1 ELSE 0) + i
  <2>1. CASE i \in 1..Len(s)
    BY <1>1, <1>2, <2>1 DEF Contiguous
  <2>2. CASE i = Len(s) + 1
    BY <1>1, <1>2, <2>2 DEF Contiguous
  <2> QED BY <1>2, <2>1, <2>2
<1>5. Len(Append(r, job)) = n.queued
  BY <1>2, <1>3 DEF Contiguous
<1>6. n.next = n.retired + (IF n.running THEN 1 ELSE 0) + n.queued + 1
  <2>1. CASE q.running
    BY <1>1, <1>3, <2>1 DEF Contiguous
  <2>2. CASE ~q.running
    BY <1>1, <1>3, <2>2 DEF Contiguous
  <2> QED BY <2>1, <2>2
<1>7. Len(Append(r, job)) = Len(s) + 1
  BY <1>2
<1>8. \A i \in 1..Len(Append(r, job)) : Append(r, job)[i].fence =
          n.retired + (IF n.running THEN 1 ELSE 0) + i
  BY <1>3, <1>4, <1>7
<1>9. Contiguous(n, Append(r, job))
  BY <1>5, <1>6, <1>8 DEF Contiguous
<1> QED BY <1>9 DEF n

-----------------------------------------------------------------------------
(***************************************************************************)
(* Steps that move the timeline.                                           *)
(***************************************************************************)

\* Between two jobs no client is marked as worked on
LEMMA IdleFacts ==
    ASSUME IInv, worker.pc \notin ActivePc \cup {"wake"}
    PROVE  /\ worker.client = NoClient
           /\ worker.todo = <<>>
           /\ \A d \in Client : /\ worker.client # d
                                /\ ~activeJob[d]
                                /\ ~queueState[d].running
                                /\ phase[d] \in {"unopened", "open"} =>
                                       Contiguous(queueState[d], fifo[d])
<1>1. worker.client = NoClient /\ worker.todo = <<>>
  BY DEF IInv, WorkerInv, ListsInv, ActivePc
<1>2. \A d \in Client : worker.client # d
  BY <1>1, QueueConstants
<1>3. \A d \in Client : ~activeJob[d] /\ ~queueState[d].running
  BY <1>2 DEF IInv, WorkerInv, TimelineInv
<1>4. \A d \in Client : phase[d] \in {"unopened", "open"} =>
          Contiguous(queueState[d], fifo[d])
  BY <1>2 DEF IInv, TimelineInv
<1> QED BY <1>1, <1>2, <1>3, <1>4

LEMMA StartJobInv ==
    ASSUME IInv, NEW c \in Client, StartJob(c)
    PROVE  Inv'
<1> DEFINE job == Head(fifo[c])
<1>1. /\ worker.pc = "select"
      /\ phase[c] = "open"
      /\ fifo[c] # <<>>
      /\ fifo[c] \in Seq(Job)
      /\ queueState \in [Client -> QueueState]
      /\ \A d \in Client : phase[d] # "cancelling"
  BY DEF StartJob, IsNextReady, Ready, QueueLockFree, IInv, TypeOK
<1>2. /\ worker.todo = <<>>
      /\ \A d \in Client : /\ worker.client # d
                           /\ ~activeJob[d]
                           /\ ~queueState[d].running
                           /\ phase[d] \in {"unopened", "open"} =>
                                  Contiguous(queueState[d], fifo[d])
  BY <1>1, IdleFacts DEF ActivePc
<1>3. /\ job.fence = queueState[c].retired + 1
      /\ CanStart(queueState[c], job.fence)
      /\ Contiguous(StartRenderJob(queueState[c], job.fence), Tail(fifo[c]))
  BY <1>1, <1>2, ContiguousStart
<1>4. \A d \in Client : queueState'[d] =
          IF d = c THEN StartRenderJob(queueState[c], job.fence)
          ELSE queueState[d]
  BY <1>1, <1>3 DEF StartJob
<1>5. /\ StartRenderJob(queueState[c], job.fence).running = TRUE
      /\ StartRenderJob(queueState[c], job.fence).started = job.fence
      /\ StartRenderJob(queueState[c], job.fence).retired =
             queueState[c].retired
  BY <1>1 DEF StartRenderJob, QueueState
<1>6. /\ worker'.pc = "execute"
      /\ worker'.client = c
      /\ worker'.job = job
      /\ worker'.todo = <<>>
  BY <1>2 DEF StartJob, IInv, TypeOK, Worker
<1>7. \A d \in Client : activeJob'[d] = (d = c)
  <2>1. activeJob' = [activeJob EXCEPT ![c] = TRUE]
        /\ activeJob \in [Client -> BOOLEAN]
    BY DEF StartJob, IInv, TypeOK
  <2> QED BY <1>2, <2>1
<1>8. \A d \in Client : fifo'[d] = IF d = c THEN Tail(fifo[c]) ELSE fifo[d]
  BY DEF StartJob, IInv, TypeOK
<1>9. /\ UNCHANGED <<phase, idleSem, closeTodo, renderClients, outcome>>
      /\ cursor' = c
  BY DEF StartJob, closeVars, history
<1> HIDE DEF job
<1>10. WorkerInv'
  BY <1>6, <1>7 DEF WorkerInv, ActivePc
<1>11. LockInv'
  BY <1>1, <1>9 DEF LockInv
<1>12. ListsInv'
  BY <1>1, <1>6, <1>8, <1>9 DEF ListsInv, IInv
<1>13. TimelineInv'
  <2>1. ASSUME NEW d \in Client, d # c
        PROVE  /\ queueState'[d] = queueState[d]
               /\ worker'.client # d
               /\ fifo'[d] = fifo[d]
    BY <1>4, <1>6, <1>8, <2>1
  <2>2. /\ queueState'[c].running = TRUE
        /\ queueState'[c].started = worker'.job.fence
        /\ worker'.job.fence = queueState'[c].retired + 1
        /\ Contiguous(queueState'[c], fifo'[c])
    BY <1>3, <1>4, <1>5, <1>6, <1>8 DEF job
  <2> QED BY <1>2, <1>6, <1>9, <2>1, <2>2 DEF TimelineInv
<1>14. RetiredMeansResolved'
  <2>1. \A d \in Client : queueState'[d].retired = queueState[d].retired
    BY <1>4, <1>5
  <2> QED BY <1>9, <2>1 DEF RetiredMeansResolved, IInv
<1>15. CloseInv'
  <2>1. idleSem[c] = 0
    <3>1. idleSem[c] \in {0, 1}
          /\ (idleSem[c] = 1 => phase[c] \in {"dropThenWait", "waitIdle"})
      BY DEF IInv, CloseInv
    <3> QED BY <1>1, <3>1
  <2> QED BY <1>1, <1>6, <1>7, <1>9, <2>1 DEF CloseInv, IInv
<1>16. ListedInv'
  <2>1. \E i \in 1..Len(renderClients) : renderClients[i] = c
    BY <1>1 DEF IInv, ListedInv
  <2> QED BY <1>9, <2>1 DEF IInv, ListedInv
<1> QED BY <1>10, <1>11, <1>12, <1>13, <1>14, <1>15, <1>16 DEF Inv

\* Retiring the next fence together with its outcome
LEMMA ResolveInv ==
    ASSUME IInv, NEW c \in Client, NEW r \in Result, NEW f \in 0..LastFence,
           f = queueState[c].retired + 1, Resolve(c, f, r),
           \A d \in Client : queueState'[d].retired =
               IF d = c THEN f ELSE queueState[d].retired
    PROVE  RetiredMeansResolved'
<1>1. /\ outcome \in [Client -> [Fence -> Result \cup {"pending"}]]
      /\ outcome' = [outcome EXCEPT ![c][f] = r]
      /\ queueState[c].retired \in Nat
      /\ r # "pending"
  BY QueueLimits DEF IInv, TypeOK, Resolve, Result, QueueState
<1>2. f \in Fence
  BY <1>1, QueueLimits DEF Fence
<1>3. ASSUME NEW d \in Client, NEW g \in Fence
      PROVE  outcome'[d][g] # "pending" <=> g <= queueState'[d].retired
  <2>1. CASE d # c
    BY <1>1, <2>1 DEF IInv, RetiredMeansResolved
  <2>2. CASE d = c /\ g # f
    <3>1. outcome'[d][g] = outcome[c][g]
      BY <1>1, <2>2
    <3>2. g <= f <=> g <= queueState[c].retired
      BY <1>1, <2>2, QueueLimits DEF Fence
    <3> QED BY <2>2, <3>1, <3>2 DEF IInv, RetiredMeansResolved
  <2>3. CASE d = c /\ g = f
    BY <1>1, <1>2, <2>3
  <2> QED BY <2>1, <2>2, <2>3
<1> QED BY <1>3 DEF RetiredMeansResolved

\* What CompleteJob and FailJob find: the running job is the next to retire
LEMMA SettleFacts ==
    ASSUME IInv, worker.pc = "settle"
    PROVE  /\ worker.client \in Client
           /\ worker.job \in Job
           /\ worker.job.fence \in 0..LastFence
           /\ worker.job.fence = queueState[worker.client].retired + 1
           /\ queueState[worker.client] \in QueueState
           /\ queueState[worker.client].running
           /\ CanFinish(queueState[worker.client], worker.job.fence)
           /\ activeJob[worker.client]
<1> DEFINE c == worker.client
<1>1. c \in Client /\ activeJob[c]
  BY DEF IInv, WorkerInv, ActivePc
<1>2. worker.job \in Job /\ worker.job.fence \in 0..LastFence
  BY DEF IInv, TypeOK, Worker, Job
<1>3. /\ queueState[c].running
      /\ worker.job.fence = queueState[c].retired + 1
      /\ worker.job.fence = queueState[c].started
  BY <1>1 DEF IInv, TimelineInv
<1>4. queueState[c] \in QueueState /\ queueState[c].retired \in Nat
  BY <1>1, QueueLimits DEF IInv, TypeOK, QueueState
<1>5. CanFinish(queueState[c], worker.job.fence)
  BY <1>3, <1>4 DEF CanFinish, InvalidFence
<1> QED BY <1>1, <1>2, <1>3, <1>4, <1>5

LEMMA CompleteJobInv ==
    ASSUME IInv, CompleteJob
    PROVE  Inv'
<1> DEFINE c == worker.client
           f == worker.job.fence
           q == FinishRunningRenderJob(queueState[c], f)
<1>1. worker.pc = "settle" /\ QueueLockFree
  BY DEF CompleteJob
<1>2. /\ c \in Client
      /\ f \in 0..LastFence
      /\ f = queueState[c].retired + 1
      /\ queueState[c] \in QueueState
      /\ queueState[c].running
      /\ activeJob[c]
  BY <1>1, SettleFacts
<1>3. \A d \in Client : queueState'[d] = IF d = c THEN q ELSE queueState[d]
  BY DEF CompleteJob, IInv, TypeOK
<1>4. q.running = FALSE /\ q.retired = f
  BY <1>2 DEF FinishRunningRenderJob, QueueState
<1>5. /\ worker'.pc = "notify"
      /\ worker'.client = c
      /\ worker'.job = worker.job
      /\ worker'.todo = worker.todo
      /\ worker.todo = <<>>
  BY <1>1 DEF CompleteJob, IInv, TypeOK, Worker, ListsInv
<1>6. UNCHANGED <<phase, fifo, activeJob, idleSem, closeTodo, renderClients,
                  cursor>>
  BY DEF CompleteJob, closeVars, deviceVars
<1> USE <1>6
<1>7. Contiguous(queueState[c], fifo[c]) => Contiguous(q, fifo[c])
  <2>1. fifo[c] \in Seq(Job)
    BY <1>2 DEF IInv, TypeOK
  <2> QED BY <1>2, <2>1, ContiguousFinish
<1> HIDE DEF c, f, q
<1>8. WorkerInv'
  BY <1>1, <1>2, <1>5 DEF IInv, WorkerInv, ActivePc, c
<1>9. LockInv'
  BY <1>5 DEF IInv, LockInv
<1>10. ListsInv'
  BY <1>1, <1>5 DEF IInv, ListsInv, c
<1>11. TimelineInv'
  <2>1. ASSUME NEW d \in Client, d # c
        PROVE  queueState'[d] = queueState[d] /\ worker'.client # d
               /\ worker.client # d
    BY <1>3, <1>5, <2>1 DEF c
  <2>2. /\ queueState'[c].running = FALSE
        /\ phase[c] \in {"unopened", "open"} =>
               Contiguous(queueState'[c], fifo[c])
    BY <1>1, <1>2, <1>3, <1>4, <1>7 DEF IInv, TimelineInv
  <2> QED BY <1>1, <1>2, <1>5, <2>1, <2>2 DEF IInv, TimelineInv, c
<1>12. RetiredMeansResolved'
  <2>1. \A d \in Client : queueState'[d].retired =
            IF d = c THEN f ELSE queueState[d].retired
    BY <1>3, <1>4
  <2>2. Resolve(c, f, "complete")
    BY DEF CompleteJob, c, f
  <2> QED BY <1>2, <2>1, <2>2, ResolveInv DEF Result
<1>13. CloseInv'
  BY <1>1, <1>5 DEF IInv, CloseInv, c
<1>14. ListedInv'
  BY DEF IInv, ListedInv
<1> QED BY <1>8, <1>9, <1>10, <1>11, <1>12, <1>13, <1>14 DEF Inv

LEMMA FailJobInv ==
    ASSUME IInv, FailJob
    PROVE  Inv'
<1> DEFINE c == worker.client
           f == worker.job.fence
           q == FinishRunningRenderJob(queueState[c], f)
<1>1. worker.pc = "settle" /\ QueueLockFree
  BY DEF FailJob
<1>2. /\ c \in Client
      /\ f \in 0..LastFence
      /\ f = queueState[c].retired + 1
      /\ queueState[c] \in QueueState
      /\ queueState[c].running
      /\ CanFinish(queueState[c], f)
      /\ activeJob[c]
  BY <1>1, SettleFacts
<1>3. \A d \in Client : queueState'[d] = IF d = c THEN q ELSE queueState[d]
  BY <1>2 DEF FailJob, IInv, TypeOK
<1>4. q.running = FALSE /\ q.retired = f
  BY <1>2 DEF FinishRunningRenderJob, QueueState
<1>5. /\ worker'.pc = "cancel"
      /\ worker'.client = c
      /\ worker'.job = worker.job
      /\ worker'.todo = fifo[c]
      /\ worker.todo = <<>>
  BY <1>1 DEF FailJob, IInv, TypeOK, Worker, ListsInv
<1>6. /\ UNCHANGED <<phase, activeJob, idleSem, closeTodo, renderClients,
                     cursor>>
      /\ \A d \in Client : fifo'[d] = IF d = c THEN <<>> ELSE fifo[d]
  BY DEF FailJob, closeVars, deviceVars, IInv, TypeOK
<1> USE <1>6
<1>7. Contiguous(queueState[c], fifo[c]) => Contiguous(q, fifo[c])
  <2>1. fifo[c] \in Seq(Job)
    BY <1>2 DEF IInv, TypeOK
  <2> QED BY <1>2, <2>1, ContiguousFinish
<1> HIDE DEF c, f, q
<1>8. WorkerInv'
  BY <1>1, <1>2, <1>5 DEF IInv, WorkerInv, ActivePc, c
<1>9. LockInv'
  BY <1>1 DEF LockInv, QueueLockFree
<1>10. ListsInv'
  BY <1>1, <1>5 DEF IInv, ListsInv, c
<1>11. TimelineInv'
  <2>1. ASSUME NEW d \in Client, d # c
        PROVE  queueState'[d] = queueState[d] /\ worker'.client # d
               /\ worker.client # d /\ fifo'[d] = fifo[d]
    BY <1>3, <1>5, <2>1 DEF c
  <2>2. /\ queueState'[c].running = FALSE
        /\ phase[c] \in {"unopened", "open"} =>
               Contiguous(queueState'[c], fifo[c])
    BY <1>1, <1>2, <1>3, <1>4, <1>7 DEF IInv, TimelineInv
  <2> QED BY <1>1, <1>2, <1>5, <2>1, <2>2 DEF IInv, TimelineInv, c
<1>12. RetiredMeansResolved'
  <2>1. \A d \in Client : queueState'[d].retired =
            IF d = c THEN f ELSE queueState[d].retired
    BY <1>3, <1>4
  <2>2. Resolve(c, f, "failed")
    BY DEF FailJob, c, f
  <2> QED BY <1>2, <2>1, <2>2, ResolveInv DEF Result
<1>13. CloseInv'
  BY <1>1, <1>5 DEF IInv, CloseInv, c
<1>14. ListedInv'
  BY DEF IInv, ListedInv
<1> QED BY <1>8, <1>9, <1>10, <1>11, <1>12, <1>13, <1>14 DEF Inv

LEMMA CancelJobInv ==
    ASSUME IInv, CancelJob
    PROVE  Inv'
<1> DEFINE c == worker.client
           job == Head(worker.todo)
           f == job.fence
           q == CancelQueuedRenderJob(queueState[c], f)
<1>1. /\ worker.pc = "cancel"
      /\ worker.todo # <<>>
      /\ worker.todo \in Seq(Job)
      /\ c \in Client
      /\ phase[c] = "open"
  <2>1. worker.pc = "cancel" /\ worker.todo # <<>> /\ c \in Client
    BY DEF CancelJob, IInv, WorkerInv, ActivePc
  <2>2. worker.todo \in Seq(Job)
    BY DEF IInv, TypeOK, Worker
  <2>3. phase[c] = "open"
    BY <2>1 DEF IInv, ListsInv
  <2> QED BY <2>1, <2>2, <2>3
<1>2. /\ queueState[c] \in QueueState
      /\ ~queueState[c].running
      /\ Contiguous(queueState[c], worker.todo)
  BY <1>1 DEF IInv, TypeOK, TimelineInv
<1>3. /\ f = queueState[c].retired + 1
      /\ CanCancel(queueState[c], f)
      /\ Contiguous(q, Tail(worker.todo))
  BY <1>1, <1>2, ContiguousCancel
<1>4. job \in Job /\ f \in 0..LastFence
  <2>1. job \in Job
    BY <1>1, HeadTailProperties
  <2> QED BY <2>1 DEF Job
<1>5. \A d \in Client : queueState'[d] = IF d = c THEN q ELSE queueState[d]
  BY <1>3 DEF CancelJob, IInv, TypeOK
<1>6. q.running = FALSE /\ q.retired = f
  BY <1>2 DEF CancelQueuedRenderJob, QueueState
<1>7. /\ worker'.pc = "cancel"
      /\ worker'.client = c
      /\ worker'.todo = Tail(worker.todo)
  BY <1>1 DEF CancelJob, IInv, TypeOK, Worker
<1>8. UNCHANGED <<phase, fifo, activeJob, idleSem, closeTodo, renderClients,
                  cursor>>
  BY DEF CancelJob, closeVars
<1> USE <1>8
<1> HIDE DEF c, job, f, q
<1>9. WorkerInv'
  BY <1>1, <1>7 DEF IInv, WorkerInv, ActivePc, c
<1>10. LockInv'
  BY <1>1, <1>7 DEF IInv, LockInv
<1>11. ListsInv'
  BY <1>1, <1>7 DEF IInv, ListsInv, c
<1>12. TimelineInv'
  <2>1. ASSUME NEW d \in Client, d # c
        PROVE  queueState'[d] = queueState[d] /\ worker'.client # d
               /\ worker.client # d
    BY <1>5, <1>7, <2>1 DEF c
  <2>2. /\ queueState'[c].running = FALSE
        /\ Contiguous(queueState'[c], worker'.todo)
    BY <1>1, <1>3, <1>5, <1>6, <1>7
  <2> QED BY <1>1, <1>7, <2>1, <2>2 DEF IInv, TimelineInv, c
<1>13. RetiredMeansResolved'
  <2>1. \A d \in Client : queueState'[d].retired =
            IF d = c THEN f ELSE queueState[d].retired
    BY <1>5, <1>6
  <2>2. Resolve(c, f, "cancelled")
    BY DEF CancelJob, c, f, job
  <2> QED BY <1>1, <1>3, <1>4, <2>1, <2>2, ResolveInv DEF Result
<1>14. CloseInv'
  BY <1>1, <1>7 DEF IInv, CloseInv, c
<1>15. ListedInv'
  BY DEF IInv, ListedInv
<1> QED BY <1>9, <1>10, <1>11, <1>12, <1>13, <1>14, <1>15 DEF Inv

\* Superseding a present changes no fence
LEMMA SupersededFences ==
    ASSUME NEW s \in Seq(Job), NEW job
    PROVE  /\ Superseded(s, job) \in Seq(Job)
           /\ Len(Superseded(s, job)) = Len(s)
           /\ \A i \in 1..Len(s) : Superseded(s, job)[i].fence = s[i].fence
<1>1. /\ Len(s) \in Nat
      /\ DOMAIN s = 1..Len(s)
      /\ \A i \in 1..Len(s) : s[i] \in Job
  BY LenProperties, ElementOfSeq
<1>2. \A j \in Job : /\ [j EXCEPT !.drop = TRUE] \in Job
                     /\ [j EXCEPT !.drop = TRUE].fence = j.fence
  BY DEF Job
<1>3. \A i \in 1..Len(s) : /\ Superseded(s, job)[i] \in Job
                           /\ Superseded(s, job)[i].fence = s[i].fence
  BY <1>1, <1>2 DEF Superseded
<1>4. Superseded(s, job) \in [1..Len(s) -> Job]
  <2>1. Superseded(s, job) =
            [i \in 1..Len(s) |-> Superseded(s, job)[i]]
    BY <1>1 DEF Superseded
  <2> QED BY <1>3, <2>1
<1>5. Superseded(s, job) \in Seq(Job)
  BY <1>1, <1>4, SeqDef
<1>6. Len(Superseded(s, job)) = Len(s)
  BY <1>1, <1>4, <1>5, LenProperties
<1> QED BY <1>3, <1>5, <1>6

LEMMA AppendJobInv ==
    ASSUME IInv, NEW t \in Thread, Calls(t),
           NEW kind \in {"commands", "present"},
           NEW stream \in Stream \cup {0}, NEW names \in SUBSET Buffer,
           AppendJob(t, kind, stream, names)
    PROVE  Inv'
<1> DEFINE c == Owner[t]
           job == [fence |-> queueState[c].next, kind |-> kind,
                   stream |-> stream, buffers |-> names, drop |-> FALSE]
           older == IF kind = "present" THEN Superseded(fifo[c], job)
                                        ELSE fifo[c]
           q == QueueRenderJob(queueState[c])
<1>1. /\ c \in Client
      /\ phase[c] = "open"
      /\ worker.pc # "cancel"
      /\ fifo[c] \in Seq(Job)
      /\ queueState[c] \in QueueState
  BY QueueConstants DEF Calls, AppendJob, QueueLockFree, IInv, TypeOK
<1>2. job \in Job
  <2>1. queueState[c].next \in 0..LastFence
    BY <1>1, QueueLimits DEF QueueState
  <2> QED BY <2>1 DEF Job
<1>3. /\ older \in Seq(Job)
      /\ Len(older) = Len(fifo[c])
      /\ \A i \in 1..Len(fifo[c]) : older[i].fence = fifo[c][i].fence
  BY <1>1, SupersededFences
<1>4. Contiguous(queueState[c], fifo[c])
  BY <1>1 DEF IInv, TimelineInv
<1>5. Contiguous(q, Append(older, job))
  <2>1. job.fence = queueState[c].next
    OBVIOUS
  <2> HIDE DEF job, older
  <2> QED BY <1>1, <1>2, <1>3, <1>4, <2>1, ContiguousQueue
<1>6. \A d \in Client :
          /\ queueState'[d] = IF d = c THEN q ELSE queueState[d]
          /\ fifo'[d] = IF d = c THEN Append(older, job) ELSE fifo[d]
  BY DEF AppendJob, IInv, TypeOK
<1>7. /\ q.running = queueState[c].running
      /\ q.retired = queueState[c].retired
      /\ q.started = queueState[c].started
  BY <1>1 DEF QueueRenderJob, QueueState
<1>8. UNCHANGED <<phase, activeJob, idleSem, closeTodo, renderClients,
                  cursor, worker, outcome>>
  <2>1. UNCHANGED <<phase, activeJob, signalVars, closeVars, renderClients,
                    cursor, worker, history>>
    <3> HIDE DEF job, older, q
    <3> QED BY DEF AppendJob
  <2> QED BY <2>1 DEF signalVars, closeVars, history
<1> USE <1>8
<1> HIDE DEF c, job, older, q
<1>9. WorkerInv'
  BY DEF IInv, WorkerInv
<1>10. LockInv'
  BY DEF IInv, LockInv
<1>11. ListsInv'
  BY <1>1, <1>6 DEF IInv, ListsInv
<1>12. TimelineInv'
  <2>1. \A d \in Client :
            /\ queueState'[d].running = queueState[d].running
            /\ queueState'[d].retired = queueState[d].retired
            /\ queueState'[d].started = queueState[d].started
    BY <1>6, <1>7
  <2>2. \A d \in Client : d # c => queueState'[d] = queueState[d]
                                   /\ fifo'[d] = fifo[d]
    BY <1>6
  <2>3. Contiguous(queueState'[c], fifo'[c])
    BY <1>1, <1>5, <1>6
  <2> QED BY <1>1, <2>1, <2>2, <2>3 DEF IInv, TimelineInv
<1>13. RetiredMeansResolved'
  <2>1. \A d \in Client : queueState'[d].retired = queueState[d].retired
    BY <1>6, <1>7
  <2> QED BY <2>1 DEF IInv, RetiredMeansResolved
<1>14. CloseInv'
  BY DEF IInv, CloseInv
<1>15. ListedInv'
  BY DEF IInv, ListedInv
<1> QED BY <1>9, <1>10, <1>11, <1>12, <1>13, <1>14, <1>15 DEF Inv

(***************************************************************************)
(* Open and Free.                                                          *)
(***************************************************************************)
LEMMA OpenInv ==
    ASSUME IInv, NEW c \in Client, OpenClient(c)
    PROVE  Inv'
<1>1. /\ phase \in [Client -> Phase]
      /\ phase[c] = "unopened"
      /\ \A d \in Client : phase'[d] = IF d = c THEN "open" ELSE phase[d]
      /\ worker.pc # "cancel"
      /\ \A d \in Client : phase[d] # "cancelling"
  BY DEF OpenClient, QueueLockFree, IInv, TypeOK
<1>2. UNCHANGED <<queueState, fifo, activeJob, idleSem, closeTodo, cursor,
                  worker, outcome>>
  BY DEF OpenClient, signalVars, closeVars, history
<1> USE <1>2
<1>3. WorkerInv'
  BY DEF IInv, WorkerInv
<1>4. LockInv'
  BY <1>1 DEF LockInv
<1>5. ListsInv'
  BY <1>1 DEF IInv, ListsInv
<1>6. TimelineInv'
  <2>1. \A d \in Client : phase'[d] \in {"unopened", "open"} =>
            phase[d] \in {"unopened", "open"}
    BY <1>1
  <2> QED BY <2>1 DEF IInv, TimelineInv
<1>7. RetiredMeansResolved'
  BY DEF IInv, RetiredMeansResolved
<1>8. CloseInv'
  <2>1. ASSUME NEW d \in Client, d # c
        PROVE  phase'[d] = phase[d]
    BY <1>1, <2>1
  <2>2. /\ idleSem[c] = 0
        /\ worker.client = c => worker.pc # "wake"
    BY <1>1 DEF IInv, CloseInv
  <2>3. phase'[c] = "open"
    BY <1>1
  <2> QED BY <2>1, <2>2, <2>3 DEF IInv, CloseInv
<1>9. ListedInv'
  <2> DEFINE n == Len(renderClients)
  <2>1. /\ renderClients \in Seq(Client)
        /\ n \in Nat
        /\ \A i \in 1..n : renderClients[i] \in Client
    BY LenProperties, ElementOfSeq DEF IInv, TypeOK
  <2>2. <<c>> \in Seq(Client) /\ Len(<<c>>) = 1 /\ <<c>>[1] = c
    OBVIOUS
  <2>3. /\ Len(renderClients') = n + 1
        /\ renderClients'[1] = c
        /\ \A i \in 1..n : renderClients'[i + 1] = renderClients[i]
    <3>1. renderClients' = <<c>> \o renderClients
      BY DEF OpenClient
    <3>2. /\ Len(<<c>> \o renderClients) = 1 + n
          /\ \A i \in 1..(1 + n) : (<<c>> \o renderClients)[i] =
                 IF i <= 1 THEN <<c>>[i] ELSE renderClients[i - 1]
      BY <2>1, <2>2, ConcatProperties
    <3>3. ASSUME NEW i \in 1..n
          PROVE  renderClients'[i + 1] = renderClients[i]
      <4>1. i + 1 \in 1..(1 + n) /\ ~(i + 1 <= 1) /\ (i + 1) - 1 = i
        BY <2>1
      <4>2. (<<c>> \o renderClients)[i + 1] = renderClients[(i + 1) - 1]
        BY <3>2, <4>1
      <4> QED BY <3>1, <4>1, <4>2
    <3>4. renderClients'[1] = c
      BY <2>1, <2>2, <3>1, <3>2
    <3> QED BY <2>1, <3>1, <3>2, <3>3, <3>4
  <2>4. \A i \in 1..(n + 1) : i = 1 \/ (i - 1 \in 1..n
            /\ renderClients'[i] = renderClients[i - 1])
    <3>1. ASSUME NEW i \in 1..(n + 1), i # 1
          PROVE  i - 1 \in 1..n /\ renderClients'[i] = renderClients[i - 1]
      <4>1. i - 1 \in 1..n /\ (i - 1) + 1 = i
        BY <2>1, <3>1
      <4> QED BY <2>3, <4>1
    <3> QED BY <3>1
  <2>5. \A i \in 1..n : renderClients[i] # c
    BY <1>1 DEF IInv, ListedInv
  <2>6. ASSUME NEW d \in Client
        PROVE  phase'[d] \notin {"unopened", "gone"} <=>
                   \E i \in 1..(n + 1) : renderClients'[i] = d
    <3>1. CASE d = c
      BY <1>1, <2>1, <2>3, <3>1
    <3>2. CASE d # c
      <4>1. (\E i \in 1..n : renderClients[i] = d)
                <=> \E i \in 1..(n + 1) : renderClients'[i] = d
        <5>1. ASSUME NEW i \in 1..n, renderClients[i] = d
              PROVE  i + 1 \in 1..(n + 1) /\ renderClients'[i + 1] = d
          BY <2>1, <2>3, <5>1
        <5>2. ASSUME NEW i \in 1..(n + 1), renderClients'[i] = d
              PROVE  i - 1 \in 1..n /\ renderClients[i - 1] = d
          BY <2>3, <2>4, <3>2, <5>2
        <5> QED BY <5>1, <5>2
      <4> QED BY <1>1, <3>2, <4>1 DEF IInv, ListedInv
    <3> QED BY <3>1, <3>2
  <2>7. ASSUME NEW i \in 1..(n + 1), NEW j \in 1..(n + 1),
               renderClients'[i] = renderClients'[j]
        PROVE  i = j
    <3>1. CASE i = 1 /\ j = 1
      BY <3>1
    <3>2. CASE i = 1 /\ j # 1
      BY <2>3, <2>4, <2>5, <2>7, <3>2
    <3>3. CASE i # 1 /\ j = 1
      BY <2>3, <2>4, <2>5, <2>7, <3>3
    <3>4. CASE i # 1 /\ j # 1
      <4>1. /\ i - 1 \in 1..n /\ j - 1 \in 1..n
            /\ renderClients[i - 1] = renderClients[j - 1]
        BY <2>4, <2>7, <3>4
      <4>2. i - 1 = j - 1
        BY <4>1 DEF IInv, ListedInv
      <4> QED BY <4>2
    <3> QED BY <3>1, <3>2, <3>3, <3>4
  <2>8. cursor # NoClient =>
            \E i \in 1..(n + 1) : renderClients'[i] = cursor
    <3>1. ASSUME NEW i \in 1..n, renderClients[i] = cursor
          PROVE  i + 1 \in 1..(n + 1) /\ renderClients'[i + 1] = cursor
      BY <2>1, <2>3, <3>1
    <3> QED BY <3>1 DEF IInv, ListedInv
  <2> QED BY <2>3, <2>6, <2>7, <2>8 DEF ListedInv
<1> QED BY <1>3, <1>4, <1>5, <1>6, <1>7, <1>8, <1>9 DEF Inv

LEMMA BeginFreeInv ==
    ASSUME IInv, NEW c \in Client, BeginFree(c)
    PROVE  Inv'
<1>1. /\ phase[c] = "open"
      /\ worker.pc # "cancel"
      /\ \A d \in Client : phase[d] # "cancelling"
      /\ \A d \in Client :
             /\ phase'[d] = IF d = c THEN "cancelling" ELSE phase[d]
             /\ fifo'[d] = IF d = c THEN <<>> ELSE fifo[d]
             /\ closeTodo'[d] = IF d = c THEN fifo[c] ELSE closeTodo[d]
  BY DEF BeginFree, QueueLockFree, IInv, TypeOK
<1>2. UNCHANGED <<queueState, activeJob, idleSem, renderClients, cursor,
                  worker>>
  BY DEF BeginFree, signalVars, deviceVars
<1>3. UNCHANGED outcome
  BY DEF BeginFree, history
<1> USE <1>2, <1>3
<1>4. WorkerInv'
  BY DEF IInv, WorkerInv
<1>5. LockInv'
  BY <1>1 DEF LockInv
<1>6. ListsInv'
  BY <1>1 DEF IInv, ListsInv
<1>7. TimelineInv'
  BY <1>1 DEF IInv, TimelineInv
<1>8. RetiredMeansResolved'
  BY DEF IInv, RetiredMeansResolved
<1>9. CloseInv'
  BY <1>1 DEF IInv, CloseInv
<1>10. ListedInv'
  <2>1. \A d \in Client : phase'[d] \notin {"unopened", "gone"} <=>
                          phase[d] \notin {"unopened", "gone"}
    BY <1>1
  <2> QED BY <2>1 DEF IInv, ListedInv
<1> QED BY <1>4, <1>5, <1>6, <1>7, <1>8, <1>9, <1>10 DEF Inv

LEMMA CancelAtFreeInv ==
    ASSUME IInv, NEW c \in Client, CancelAtFree(c)
    PROVE  Inv'
<1> DEFINE f == Head(closeTodo[c]).fence
           q == CancelQueuedRenderJob(queueState[c], f)
<1>1. /\ phase[c] = "cancelling"
      /\ closeTodo[c] # <<>>
      /\ closeTodo[c] \in Seq(Job)
      /\ queueState[c] \in QueueState
  BY DEF CancelAtFree, IInv, TypeOK
<1>2. f \in 0..LastFence
  <2>1. Head(closeTodo[c]) \in Job
    BY <1>1, HeadTailProperties
  <2> QED BY <2>1 DEF Job
<1>3. UNCHANGED <<phase, fifo, activeJob, idleSem, renderClients, cursor,
                  worker>>
  BY DEF CancelAtFree, signalVars
<1>4. \A d \in Client : d # c => closeTodo'[d] = closeTodo[d]
  BY DEF CancelAtFree, IInv, TypeOK
<1> USE <1>3
<1>5. \/ /\ CanCancel(queueState[c], f)
         /\ \A d \in Client :
                queueState'[d] = IF d = c THEN q ELSE queueState[d]
         /\ Resolve(c, f, "cancelled")
      \/ UNCHANGED <<queueState, outcome>>
  BY DEF CancelAtFree, IInv, TypeOK
<1>6. CanCancel(queueState[c], f) =>
          /\ ~queueState[c].running
          /\ q.running = FALSE
          /\ q.retired = f
          /\ f = queueState[c].retired + 1
  BY <1>1 DEF CanCancel, CancelQueuedRenderJob, QueueState
<1> HIDE DEF f, q
<1>7. WorkerInv'
  BY DEF IInv, WorkerInv
<1>8. LockInv'
  BY DEF IInv, LockInv
<1>9. ListsInv'
  BY <1>1, <1>4 DEF IInv, ListsInv
<1>10. TimelineInv'
  <2>1. ASSUME NEW d \in Client, d # c
        PROVE  queueState'[d] = queueState[d]
    BY <1>5, <2>1
  <2>2. \/ queueState'[c] = queueState[c]
        \/ queueState'[c].running = FALSE /\ ~queueState[c].running
    BY <1>5, <1>6
  <2> QED BY <1>1, <2>1, <2>2 DEF IInv, TimelineInv
<1>11. RetiredMeansResolved'
  <2>1. CASE UNCHANGED <<queueState, outcome>>
    BY <2>1 DEF IInv, RetiredMeansResolved
  <2>2. CASE /\ CanCancel(queueState[c], f)
             /\ \A d \in Client :
                    queueState'[d] = IF d = c THEN q ELSE queueState[d]
             /\ Resolve(c, f, "cancelled")
    <3>1. \A d \in Client : queueState'[d].retired =
              IF d = c THEN f ELSE queueState[d].retired
      BY <1>6, <2>2
    <3> QED BY <1>2, <1>6, <2>2, <3>1, ResolveInv DEF Result
  <2> QED BY <1>5, <2>1, <2>2
<1>12. CloseInv'
  BY DEF IInv, CloseInv
<1>13. ListedInv'
  BY DEF IInv, ListedInv
<1> QED BY <1>7, <1>8, <1>9, <1>10, <1>11, <1>12, <1>13 DEF Inv

\* Free goes on without touching the timeline
LEMMA ClosingInv ==
    ASSUME IInv, NEW c \in Client,
           CancelAtFreeDone(c) \/ DropAtFree(c) \/ AwaitIdle(c)
    PROVE  Inv'
<1>1. /\ phase \in [Client -> Phase]
      /\ closeTodo[c] = <<>>
      /\ \A d \in Client : d # c => phase'[d] = phase[d]
      /\ phase[c] \in {"cancelling", "dropThenWait", "dropThenUnlink",
                       "waitIdle"}
      /\ phase'[c] \in {"dropThenWait", "dropThenUnlink", "waitIdle",
                        "unlink"}
  <2>1. phase \in [Client -> Phase]
    BY DEF IInv, TypeOK
  <2>2. CASE CancelAtFreeDone(c)
    BY <2>1, <2>2 DEF CancelAtFreeDone
  <2>3. CASE DropAtFree(c)
    BY <2>1, <2>3 DEF DropAtFree, IInv, ListsInv
  <2>4. CASE AwaitIdle(c)
    BY <2>1, <2>4 DEF AwaitIdle, IInv, ListsInv
  <2> QED BY <2>2, <2>3, <2>4
<1>2. UNCHANGED <<queueState, fifo, activeJob, closeTodo, renderClients,
                  cursor, worker, outcome>>
  BY DEF CancelAtFreeDone, DropAtFree, AwaitIdle, signalVars, closeVars,
     deviceVars, history
<1> USE <1>2
<1>3. WorkerInv'
  BY DEF IInv, WorkerInv
<1>4. LockInv'
  BY <1>1 DEF IInv, LockInv
<1>5. ListsInv'
  BY <1>1 DEF IInv, ListsInv
<1>6. TimelineInv'
  BY <1>1 DEF IInv, TimelineInv
<1>7. RetiredMeansResolved'
  BY DEF IInv, RetiredMeansResolved
<1>8. CloseInv'
  <2>1. idleSem \in [Client -> Nat]
    BY DEF IInv, TypeOK
  <2>2. /\ idleSem[c] \in {0, 1}
        /\ activeJob[c] => phase[c] \in
               {"open", "cancelling", "dropThenWait", "waitIdle"}
        /\ worker.client = c => idleSem[c] = 0
        /\ worker.client = c /\ worker.pc = "wake" =>
               phase[c] \in {"dropThenWait", "waitIdle"}
        /\ idleSem[c] = 1 => phase[c] \in {"dropThenWait", "waitIdle"}
    BY DEF IInv, CloseInv
  <2>3. activeJob[c] => worker.client = c
    BY DEF IInv, WorkerInv
  <2>4. CASE CancelAtFreeDone(c)
    <3>1. /\ UNCHANGED idleSem
          /\ phase[c] = "cancelling"
          /\ phase'[c] = IF activeJob[c] THEN "dropThenWait"
                                         ELSE "dropThenUnlink"
      BY <1>1, <2>4 DEF CancelAtFreeDone, signalVars
    <3> QED BY <1>1, <2>2, <3>1 DEF IInv, CloseInv
  <2>5. CASE DropAtFree(c)
    <3>1. /\ UNCHANGED idleSem
          /\ phase[c] \in {"dropThenWait", "dropThenUnlink"}
          /\ phase[c] = "dropThenWait" =>
                 phase'[c] \in {"dropThenWait", "waitIdle"}
      BY <1>1, <2>5 DEF DropAtFree, signalVars
    <3> QED BY <1>1, <2>2, <3>1 DEF IInv, CloseInv
  <2>6. CASE AwaitIdle(c)
    <3>1. /\ idleSem[c] = 1
          /\ idleSem'[c] = 0
          /\ \A d \in Client : d # c => idleSem'[d] = idleSem[d]
      BY <2>1, <2>2, <2>6 DEF AwaitIdle
    <3> QED BY <1>1, <2>2, <2>3, <3>1 DEF IInv, CloseInv
  <2> QED BY <2>4, <2>5, <2>6
<1>9. ListedInv'
  <2>1. \A d \in Client : phase'[d] \notin {"unopened", "gone"} <=>
                          phase[d] \notin {"unopened", "gone"}
    BY <1>1
  <2> QED BY <2>1 DEF IInv, ListedInv
<1> QED BY <1>3, <1>4, <1>5, <1>6, <1>7, <1>8, <1>9 DEF Inv

\* Taking the client out of the list keeps every other client, once
LEMMA UnlinkInv ==
    ASSUME IInv, NEW c \in Client, UnlinkClient(c)
    PROVE  Inv'
<1>1. /\ phase[c] = "unlink"
      /\ \A d \in Client : phase'[d] = IF d = c THEN "gone" ELSE phase[d]
      /\ \A d \in Client : idleSem'[d] = IF d = c THEN 0 ELSE idleSem[d]
      /\ renderClients' = ClientsWithout(c)
      /\ cursor' = IF cursor = c THEN NoClient ELSE cursor
  BY DEF UnlinkClient, CursorWithout, IInv, TypeOK
<1>2. UNCHANGED <<queueState, fifo, activeJob, closeTodo, worker, outcome>>
  BY DEF UnlinkClient, closeVars, history
<1> USE <1>2
<1>3. WorkerInv'
  BY DEF IInv, WorkerInv
<1>4. LockInv'
  BY <1>1 DEF IInv, LockInv
<1>5. ListsInv'
  BY <1>1 DEF IInv, ListsInv
<1>6. TimelineInv'
  BY <1>1 DEF IInv, TimelineInv
<1>7. RetiredMeansResolved'
  BY DEF IInv, RetiredMeansResolved
<1>8. CloseInv'
  BY <1>1 DEF IInv, CloseInv
<1>9. ListedInv'
  <2> DEFINE n == Len(renderClients)
             p == Position(c)
             new(i) == IF i < p THEN i ELSE i + 1
             old(j) == IF j < p THEN j ELSE j - 1
  <2>1. /\ p \in 1..n
        /\ renderClients[p] = c
        /\ n \in Nat \ {0}
        /\ Len(renderClients') = n - 1
        /\ \A i \in 1..(n - 1) : renderClients'[i] = renderClients[new(i)]
    <3>1. renderClients \in Seq(Client) /\ ListedInv
      BY DEF IInv, TypeOK
    <3> QED BY <1>1, <3>1, ListType
  <2> HIDE DEF p
  <2>2. \A i \in 1..(n - 1) : new(i) \in 1..n /\ new(i) # p
    BY <2>1
  <2>3. \A j \in 1..n : j # p => old(j) \in 1..(n - 1) /\ new(old(j)) = j
    BY <2>1
  <2>4. \A i \in 1..(n - 1), j \in 1..(n - 1) : new(i) = new(j) => i = j
    BY <2>1
  <2> HIDE DEF new, old
  <2>5. \A i \in 1..n, j \in 1..n :
            renderClients[i] = renderClients[j] => i = j
    BY DEF IInv, ListedInv
  <2>6. ASSUME NEW d \in Client
        PROVE  phase'[d] \notin {"unopened", "gone"} <=>
                   \E i \in 1..(n - 1) : renderClients'[i] = d
    <3>1. CASE d = c
      BY <1>1, <2>1, <2>2, <2>5, <3>1
    <3>2. CASE d # c
      <4>1. (\E i \in 1..n : renderClients[i] = d)
                <=> \E i \in 1..(n - 1) : renderClients'[i] = d
        <5>1. ASSUME NEW j \in 1..n, renderClients[j] = d
              PROVE  \E i \in 1..(n - 1) : renderClients'[i] = d
          <6>1. j # p
            BY <2>1, <3>2, <5>1
          <6> QED BY <2>1, <2>3, <5>1, <6>1
        <5>2. ASSUME NEW i \in 1..(n - 1), renderClients'[i] = d
              PROVE  \E j \in 1..n : renderClients[j] = d
          BY <2>1, <2>2, <5>2
        <5> QED BY <5>1, <5>2
      <4> QED BY <1>1, <3>2, <4>1 DEF IInv, ListedInv
    <3> QED BY <3>1, <3>2
  <2>7. ASSUME NEW i \in 1..(n - 1), NEW j \in 1..(n - 1),
               renderClients'[i] = renderClients'[j]
        PROVE  i = j
    BY <2>1, <2>2, <2>4, <2>5, <2>7
  <2>8. cursor' # NoClient =>
            \E i \in 1..(n - 1) : renderClients'[i] = cursor'
    <3>1. ASSUME cursor' # NoClient
          PROVE  \E i \in 1..(n - 1) : renderClients'[i] = cursor'
      <4>1. cursor' = cursor /\ cursor # c
        BY <1>1, <3>1
      <4>2. PICK j \in 1..n : renderClients[j] = cursor
        BY <3>1, <4>1 DEF IInv, ListedInv
      <4>3. j # p
        BY <2>1, <4>1, <4>2
      <4> QED BY <2>1, <2>3, <4>1, <4>2, <4>3
    <3> QED BY <3>1
  <2> QED BY <2>1, <2>6, <2>7, <2>8 DEF ListedInv
<1> QED BY <1>3, <1>4, <1>5, <1>6, <1>7, <1>8, <1>9 DEF Inv

-----------------------------------------------------------------------------
(***************************************************************************)
(* The invariant is inductive.                                             *)
(***************************************************************************)
LEMMA InitType ==
    ASSUME Init
    PROVE  TypeOK
<1> USE DEF Init
<1>1. InitQueueState \in QueueState
  BY QueueLimits DEF InitQueueState, QueueState
<1>2. <<>> \in Seq(Job) /\ <<>> \in Seq(Record) /\ <<>> \in Seq(Client)
  OBVIOUS
<1>3. 0 \in 0..LastFence
  BY QueueLimits
<1>4. phase \in [Client -> Phase] /\ queueState \in [Client -> QueueState]
  BY <1>1 DEF Phase
<1>5. outcome \in [Client -> [Fence -> Result \cup {"pending"}]]
  OBVIOUS
<1>6. worker \in Worker /\ thread \in [Thread -> ThreadState]
  BY IdleType
<1> QED BY <1>2, <1>3, <1>4, <1>5, <1>6 DEF TypeOK

LEMMA InitInv ==
    ASSUME Init
    PROVE  IInv
<1>1. TypeOK
  BY InitType
<1>2. /\ worker.pc = "wait"
      /\ worker.client = NoClient
      /\ worker.todo = <<>>
      /\ \A c \in Client : /\ phase[c] = "unopened"
                           /\ queueState[c] = InitQueueState
                           /\ ~activeJob[c]
                           /\ fifo[c] = <<>>
                           /\ closeTodo[c] = <<>>
                           /\ idleSem[c] = 0
  BY DEF Init, IdleWorker
<1>3. \A c \in Client : worker.client # c
  BY <1>2, QueueConstants
<1>4. WorkerInv /\ LockInv /\ ListsInv /\ CloseInv
  BY <1>2, <1>3 DEF WorkerInv, ActivePc, LockInv, ListsInv, CloseInv
<1>5. TimelineInv
  <2>1. Contiguous(InitQueueState, <<>>)
    BY DEF Contiguous, InitQueueState
  <2> QED BY <1>2, <1>3, <2>1 DEF TimelineInv, InitQueueState
<1>6. RetiredMeansResolved
  BY <1>2, QueueLimits DEF RetiredMeansResolved, Init, InitQueueState, Fence
<1>7. ListedInv
  BY <1>2 DEF ListedInv, Init
<1> QED BY <1>1, <1>4, <1>5, <1>6, <1>7 DEF IInv

\* What leaves the variables of the invariant alone
LEMMA FramedSteps ==
    ASSUME \/ \E t \in Thread : ThreadStep(t) \/ GiveUp(t)
           \/ \E c \in Client : ClientCall(c)
           \/ \E t \in Thread, mode \in Mode, inject \in BOOLEAN :
                  ConfigureRenderQueue(t, mode, inject)
           \/ \E t \in Thread, f \in Fence : WaitRenderQueueFence(t, f)
           \/ \E t \in Thread : DequeueRenderCompletion(t)
           \/ ShutdownRenderQueue
           \/ UNCHANGED vars
    PROVE  UNCHANGED core
<1> USE DEF core, clientVars, signalVars, closeVars, deviceVars, history
<1>1. ASSUME NEW t \in Thread, PostJob(t) PROVE UNCHANGED core
  BY <1>1 DEF PostJob
<1>2. ASSUME NEW t \in Thread, AcquireCompletion(t) PROVE UNCHANGED core
  BY <1>2 DEF AcquireCompletion
<1>3. ASSUME NEW t \in Thread, NEW f, LookUpFence(t, f) PROVE UNCHANGED core
  BY <1>3 DEF LookUpFence
<1>4. ASSUME NEW t \in Thread, DrainToken(t) PROVE UNCHANGED core
  BY <1>4 DEF DrainToken
<1>5. ASSUME NEW t \in Thread, GiveUp(t) PROVE UNCHANGED core
  BY <1>5 DEF GiveUp
<1>6. ASSUME NEW c \in Client, ClientCall(c) PROVE UNCHANGED core
  BY <1>6 DEF ClientCall, CreateRenderBuffer, CloseRenderBuffer,
     SelectRenderQueue, DeselectRenderQueue
<1>7. ASSUME NEW t \in Thread, NEW mode, NEW inject,
             ConfigureRenderQueue(t, mode, inject)
      PROVE  UNCHANGED core
  BY <1>7 DEF ConfigureRenderQueue
<1>8. ASSUME NEW t \in Thread, DequeueRenderCompletion(t)
      PROVE  UNCHANGED core
  BY <1>8 DEF DequeueRenderCompletion
<1>9. ASSUME ShutdownRenderQueue PROVE UNCHANGED core
  BY <1>9 DEF ShutdownRenderQueue
<1>10. ASSUME UNCHANGED vars PROVE UNCHANGED core
  BY <1>10 DEF vars
<1> HIDE DEF core
<1> QED
  BY <1>1, <1>2, <1>3, <1>4, <1>5, <1>6, <1>7, <1>8, <1>9, <1>10
     DEF ThreadStep, CheckAgain, WaitRenderQueueFence

\* Every step preserves the invariant
LEMMA NextInv ==
    ASSUME IInv, [Next]_vars
    PROVE  IInv'
<1>1. TypeOK'
  BY NextType DEF IInv
<1>2. Inv'
  <2>1. CASE UNCHANGED core
    BY <2>1, FrameInv DEF IInv, Inv
  <2>2. CASE WorkerStep
    BY <2>2, AcquireInv, StartJobInv, ExecuteInv, CompleteJobInv, FailJobInv,
       CancelJobInv, AfterwardsInv, FinishInv, WakeInv DEF WorkerStep
  <2>3. ASSUME NEW t \in Thread, Call(t)
        PROVE  Inv' \/ UNCHANGED core
    <3>1. ASSUME NEW names \in SUBSET Buffer, EnqueueRenderCommands(t, names)
          PROVE  Inv'
      BY <3>1, AppendJobInv DEF EnqueueRenderCommands
    <3>2. ASSUME NEW b \in Buffer, NEW stream \in Stream,
                 EnqueueRenderDirectPresent(t, b, stream)
          PROVE  Inv'
      BY <3>2, AppendJobInv DEF EnqueueRenderDirectPresent
    <3>3. CASE \E mode \in Mode, inject \in BOOLEAN :
                   ConfigureRenderQueue(t, mode, inject)
      BY <3>3, FramedSteps
    <3>4. CASE \E f \in Fence : WaitRenderQueueFence(t, f)
      BY <3>4, FramedSteps
    <3>5. CASE DequeueRenderCompletion(t)
      BY <3>5, FramedSteps
    <3> QED BY <2>3, <3>1, <3>2, <3>3, <3>4, <3>5 DEF Call
  <2>4. ASSUME NEW c \in Client, OpenClient(c) \/ BeginFree(c) \/ FreeStep(c)
        PROVE  Inv'
    BY <2>4, OpenInv, BeginFreeInv, CancelAtFreeInv, ClosingInv, UnlinkInv
       DEF FreeStep
  <2>5. CASE \/ \E t \in Thread : ThreadStep(t) \/ GiveUp(t)
             \/ \E c \in Client : ClientCall(c)
             \/ ShutdownRenderQueue
             \/ UNCHANGED vars
    BY <2>1, <2>5, FramedSteps
  <2> QED BY <2>1, <2>2, <2>3, <2>4, <2>5 DEF Next
<1> QED BY <1>1, <1>2 DEF IInv, Inv

(***************************************************************************)
(* Theorems.                                                               *)
(***************************************************************************)

\* The inductive invariant holds in every reachable state, for any number of
\* clients and threads and any limits.
THEOREM Invariance == Spec => []IInv
<1>1. Init => IInv
  BY InitInv
<1>2. IInv /\ [Next]_vars => IInv'
  BY NextInv
<1> QED BY <1>1, <1>2, PTL DEF Spec

\* The variables keep their types: in particular no counter of the driver goes
\* below zero and the worker's locals are a client and its job.
THEOREM TypeCorrect == Spec => []TypeOK
<1>1. IInv => TypeOK
  BY DEF IInv
<1> QED BY <1>1, Invariance, PTL

\* The unretired jobs of an open client carry exactly the fences that follow
\* the last retired one, in order, and are counted: nothing is lost, duplicated
\* or overtaken between QueueRenderJob, StartRenderJob and the retirements.
THEOREM TimelineCorrect == Spec => []TimelineContiguous
<1>1. ASSUME IInv, NEW c \in Client, phase[c] \in {"unopened", "open"}
      PROVE  Contiguous(queueState[c], Waiting(c))
             /\ DOMAIN Waiting(c) = 1..Len(Waiting(c))
  <2>1. /\ closeTodo[c] = <<>>
        /\ fifo[c] \in Seq(Job)
        /\ worker.todo \in Seq(Job)
    <3>1. closeTodo[c] = <<>>
      BY <1>1 DEF IInv, ListsInv
    <3> QED BY <1>1, <3>1 DEF IInv, TypeOK, Worker
  <2>2. \A s \in Seq(Job) : s \o <<>> = s /\ <<>> \o s = s
    BY ConcatEmptySeq
  <2>3. CASE worker.client = c /\ worker.pc = "cancel"
    <3>1. Waiting(c) = worker.todo
      BY <1>1, <2>1, <2>2, <2>3 DEF Waiting, IInv, ListsInv
    <3>2. Contiguous(queueState[c], worker.todo)
      BY <1>1, <2>3 DEF IInv, TimelineInv
    <3> QED BY <2>1, <3>1, <3>2, LenProperties
  <2>4. CASE ~(worker.client = c /\ worker.pc = "cancel")
    <3>1. Waiting(c) = fifo[c]
      <4>1. (IF worker.client = c THEN worker.todo ELSE <<>>) = <<>>
        BY <1>1, <2>4 DEF IInv, ListsInv
      <4>2. <<>> \in Seq(Job) /\ <<>> \o <<>> = <<>>
        BY <2>2, EmptySeq
      <4> QED BY <2>1, <2>2, <4>1, <4>2 DEF Waiting
    <3>2. Contiguous(queueState[c], fifo[c])
      BY <1>1, <2>4 DEF IInv, TimelineInv
    <3> QED BY <2>1, <3>1, <3>2, LenProperties
  <2> QED BY <2>3, <2>4
<1>2. IInv => TimelineContiguous
  BY <1>1 DEF TimelineContiguous, Contiguous
<1> QED BY <1>2, Invariance, PTL

\* A fence has an outcome exactly when its timeline has retired it, whether it
\* completed, failed, or was cancelled by a failure or by Free.
THEOREM RetirementCorrect == Spec => []RetiredMeansResolved
<1>1. IInv => RetiredMeansResolved
  BY DEF IInv
<1> QED BY <1>1, Invariance, PTL

\* The worker, its cursor and the client list never refer to a freed client,
\* whatever Free finds the worker doing.
THEOREM LifetimeCorrect == Spec => []NoUseAfterFree
<1>1. ASSUME IInv
      PROVE  NoUseAfterFree
  <2>1. /\ DOMAIN renderClients = 1..Len(renderClients)
        /\ \A i \in 1..Len(renderClients) : renderClients[i] \in Client
    BY <1>1, LenProperties, ElementOfSeq DEF IInv, TypeOK
  <2>2. worker.client # NoClient => phase[worker.client] # "gone"
    <3>1. CASE worker.pc \in ActivePc
      BY <1>1, <3>1 DEF IInv, WorkerInv, CloseInv
    <3>2. CASE worker.pc = "wake"
      BY <1>1, <3>2 DEF IInv, WorkerInv, CloseInv
    <3>3. CASE worker.pc \notin ActivePc \cup {"wake"}
      BY <1>1, <3>3 DEF IInv, WorkerInv
    <3> QED BY <3>1, <3>2, <3>3
  <2>3. cursor # NoClient =>
            cursor \in {renderClients[i] : i \in DOMAIN renderClients}
    BY <1>1, <2>1 DEF IInv, ListedInv
  <2>4. \A i \in DOMAIN renderClients : phase[renderClients[i]] # "gone"
    BY <1>1, <2>1 DEF IInv, ListedInv
  <2> QED BY <2>2, <2>3, <2>4 DEF NoUseAfterFree
<1> QED BY <1>1, Invariance, PTL

-----------------------------------------------------------------------------
(***************************************************************************)
(* What a step does to the timelines: the actions that move one, and the   *)
(* rest.  The properties below are proved over these moves.                *)
(***************************************************************************)
OnlyAt(c, old, new) == \A d \in Client : d # c => new[d] = old[d]

\* The state every move below leaves alone unless it says otherwise
still == <<closeTodo, epoch, outcome, queueMode>>

Started(c) ==
    LET f == queueState[c].retired + 1 IN
    /\ worker.pc = "select" /\ worker.client = NoClient
    /\ phase[c] = "open" /\ ~queueLost[c]
    /\ fifo[c] # <<>> /\ Head(fifo[c]).fence = f
    /\ OnlyAt(c, queueState, queueState')
    /\ queueState'[c] = StartRenderJob(queueState[c], f)
    /\ OnlyAt(c, fifo, fifo') /\ fifo'[c] = Tail(fifo[c])
    /\ worker'.pc = "execute" /\ worker'.client = c
    /\ worker'.job = Head(fifo[c]) /\ worker'.todo = <<>>
    /\ queuedJobs' = Decrement(queuedJobs)
    /\ UNCHANGED <<phase, queueLost, lastFailed, still>>

\* The next fence of c is retired
Retired(c, r) ==
    LET f == queueState[c].retired + 1 IN
    /\ f \in Fence
    /\ OnlyAt(c, queueState, queueState')
    /\ Resolve(c, f, r)
    /\ UNCHANGED <<phase, queueMode, epoch>>

Completed(c) ==
    LET f == queueState[c].retired + 1 IN
    /\ worker.pc = "settle" /\ worker.client = c
    /\ queueState[c].running
    /\ queueState'[c] = FinishRunningRenderJob(queueState[c], f)
    /\ Retired(c, "complete")
    /\ worker'.pc = "notify" /\ worker'.client = c /\ worker'.todo = <<>>
    /\ UNCHANGED <<queueLost, lastFailed, fifo, closeTodo, queuedJobs>>

Failed(c) ==
    LET f == queueState[c].retired + 1 IN
    /\ worker.pc = "settle" /\ worker.client = c
    /\ queueState[c].running
    /\ queueState'[c] = FinishRunningRenderJob(queueState[c], f)
    /\ Retired(c, "failed")
    /\ LoseQueue(c, f)
    /\ worker'.pc = "cancel" /\ worker'.client = c
    /\ worker'.todo = fifo[c]
    /\ OnlyAt(c, fifo, fifo') /\ fifo'[c] = <<>>
    /\ UNCHANGED <<closeTodo, queuedJobs>>

CancelledByFailure(c) ==
    LET f == queueState[c].retired + 1 IN
    /\ worker.pc = "cancel" /\ worker.client = c
    /\ worker.todo # <<>> /\ phase[c] = "open"
    /\ ~queueState[c].running
    /\ queueState'[c] = CancelQueuedRenderJob(queueState[c], f)
    /\ Retired(c, "cancelled")
    /\ worker'.pc = "cancel" /\ worker'.client = c
    /\ worker'.todo = Tail(worker.todo)
    /\ queuedJobs' = Decrement(queuedJobs)
    /\ UNCHANGED <<queueLost, lastFailed, fifo, closeTodo>>

CancelledByFree(c) ==
    LET job == Head(closeTodo[c])
        f == queueState[c].retired + 1
    IN
    /\ phase[c] = "cancelling" /\ closeTodo[c] # <<>>
    /\ OnlyAt(c, closeTodo, closeTodo')
    /\ closeTodo'[c] = Tail(closeTodo[c])
    /\ \/ /\ ~queueState[c].running /\ job.fence = f
          /\ queueState'[c] = CancelQueuedRenderJob(queueState[c], f)
          /\ Retired(c, "cancelled")
       \/ UNCHANGED <<queueState, outcome>>
    /\ queuedJobs' = Decrement(queuedJobs)
    /\ UNCHANGED <<phase, queueLost, lastFailed, fifo, epoch, queueMode,
                   worker>>

\* What a newly enqueued job makes of the FIFO s of client c
Extended(c, s) ==
    {Append(IF job.kind = "present" THEN Superseded(s, job) ELSE s, job) :
        job \in {j \in Job : /\ j.fence = queueState[c].next
                           /\ (j.kind = "present" <=> j.stream # 0)
                           /\ ~j.drop}}

Queued(c, s) ==
    /\ s \in Extended(c, fifo[c])
    /\ phase[c] = "open" /\ ~queueLost[c] /\ queueMode[c] # "safe"
    /\ worker.pc # "cancel"
    /\ CanQueueRenderJob(queueState[c], queuedJobs)
    /\ OnlyAt(c, queueState, queueState')
    /\ queueState'[c] = QueueRenderJob(queueState[c])
    /\ OnlyAt(c, fifo, fifo') /\ fifo'[c] = s
    /\ Len(s) = Len(fifo[c]) + 1
    /\ queuedJobs' = queuedJobs + 1
    /\ UNCHANGED <<phase, queueLost, lastFailed, still, worker>>

Configured(c) ==
    /\ phase[c] = "open" /\ worker.client # c /\ fifo[c] = <<>>
    /\ OnlyAt(c, queueLost, queueLost') /\ ~queueLost'[c]
    /\ OnlyAt(c, lastFailed, lastFailed') /\ lastFailed'[c] = 0
    /\ OnlyAt(c, epoch, epoch') /\ epoch'[c] = queueState[c].retired
    /\ OnlyAt(c, queueMode, queueMode')
    /\ UNCHANGED <<phase, queueState, fifo, closeTodo, outcome, queuedJobs,
                   worker>>

FreeBegun(c) ==
    /\ phase[c] = "open" /\ worker.pc # "cancel"
    /\ OnlyAt(c, phase, phase') /\ phase'[c] = "cancelling"
    /\ OnlyAt(c, closeTodo, closeTodo') /\ closeTodo'[c] = fifo[c]
    /\ OnlyAt(c, fifo, fifo') /\ fifo'[c] = <<>>
    /\ UNCHANGED <<queueState, queueLost, lastFailed, queueMode, epoch,
                   outcome, queuedJobs, worker>>

\* No timeline moves; a client may be opened or go on with Free
Elsewhere ==
    /\ \A d \in Client :
           /\ phase'[d] = "open" => phase[d] \in {"unopened", "open"}
           /\ Closing(d)' <=> Closing(d)
    /\ worker'.pc = "execute" =>
           worker.pc = "execute" /\ worker'.job = worker.job
    /\ worker'.pc = "settle" => worker.pc \in {"execute", "settle"}
    /\ worker'.pc = "cancel" => worker.pc = "cancel"
    /\ worker'.pc \in {"execute", "settle", "cancel"} =>
           worker'.client = worker.client
    /\ worker'.todo = worker.todo
    /\ UNCHANGED <<queueState, queueLost, lastFailed, fifo, still, queuedJobs>>

Move(c) ==
    \/ Started(c) \/ Completed(c) \/ Failed(c) \/ CancelledByFailure(c)
    \/ CancelledByFree(c) \/ Configured(c) \/ FreeBegun(c)
    \/ \E s \in Seq(Job) : Queued(c, s)

LEMMA StartedStep ==
    ASSUME IInv, NEW c \in Client, StartJob(c)
    PROVE  Started(c)
<1> DEFINE job == Head(fifo[c])
<1>1. /\ worker.pc = "select"
      /\ phase[c] = "open" /\ ~queueLost[c]
      /\ fifo[c] # <<>>
      /\ fifo[c] \in Seq(Job)
      /\ queueState \in [Client -> QueueState]
  BY DEF StartJob, IsNextReady, Ready, IInv, TypeOK
<1>2. /\ worker.client = NoClient
      /\ worker.todo = <<>>
      /\ ~queueState[c].running
      /\ Contiguous(queueState[c], fifo[c])
  BY <1>1, IdleFacts DEF ActivePc
<1>3. /\ job.fence = queueState[c].retired + 1
      /\ CanStart(queueState[c], job.fence)
  BY <1>1, <1>2, ContiguousStart
<1>4. /\ OnlyAt(c, queueState, queueState')
      /\ queueState'[c] = StartRenderJob(queueState[c], job.fence)
      /\ UNCHANGED <<queueLost, lastFailed>>
  BY <1>1, <1>3 DEF StartJob, OnlyAt
<1>5. /\ worker'.pc = "execute"
      /\ worker'.client = c
      /\ worker'.job = job
      /\ worker'.todo = <<>>
  BY <1>2 DEF StartJob, IInv, TypeOK, Worker
<1>6. OnlyAt(c, fifo, fifo') /\ fifo'[c] = Tail(fifo[c])
  BY DEF StartJob, IInv, TypeOK, OnlyAt
<1>7. /\ queuedJobs' = Decrement(queuedJobs)
      /\ UNCHANGED <<phase, still>>
  BY DEF StartJob, closeVars, history, still
<1> HIDE DEF job
<1> QED BY <1>1, <1>2, <1>3, <1>4, <1>5, <1>6, <1>7 DEF Started, job

LEMMA SettledStep ==
    ASSUME IInv
    PROVE  /\ CompleteJob => Completed(worker.client)
           /\ FailJob => Failed(worker.client)
<1> DEFINE c == worker.client
           f == queueState[c].retired + 1
<1>1. SUFFICES ASSUME CompleteJob \/ FailJob
               PROVE  /\ CompleteJob => Completed(worker.client)
                      /\ FailJob => Failed(worker.client)
  OBVIOUS
<1>2. worker.pc = "settle"
  BY <1>1 DEF CompleteJob, FailJob
<1>3. /\ c \in Client
      /\ worker.job.fence = f
      /\ f \in Fence
      /\ queueState[c].running
      /\ CanFinish(queueState[c], f)
      /\ worker.todo = <<>>
  <2>1. /\ c \in Client
        /\ worker.job.fence = f
        /\ f \in 0..LastFence
        /\ queueState[c].running
        /\ CanFinish(queueState[c], f)
    BY <1>2, SettleFacts
  <2>2. f # 0
    BY <2>1 DEF CanFinish, InvalidFence
  <2>3. worker.todo = <<>>
    BY <1>2 DEF IInv, ListsInv
  <2> QED BY <2>1, <2>2, <2>3 DEF Fence
<1> HIDE DEF c, f
<1>4. ASSUME CompleteJob
      PROVE  Completed(c)
  <2>1. /\ OnlyAt(c, queueState, queueState')
        /\ queueState'[c] = FinishRunningRenderJob(queueState[c], f)
    BY <1>3, <1>4 DEF CompleteJob, IInv, TypeOK, OnlyAt, c
  <2>2. Resolve(c, f, "complete")
    BY <1>3, <1>4 DEF CompleteJob, c
  <2>3. /\ worker'.pc = "notify"
        /\ worker'.client = c
        /\ worker'.todo = <<>>
    BY <1>3, <1>4 DEF CompleteJob, IInv, TypeOK, Worker, c
  <2>4. UNCHANGED <<phase, queueLost, lastFailed, fifo, queuedJobs, queueMode,
                    epoch, closeTodo>>
    BY <1>4 DEF CompleteJob, closeVars, deviceVars
  <2> QED BY <1>2, <1>3, <2>1, <2>2, <2>3, <2>4 DEF Completed, Retired, c, f
<1>5. ASSUME FailJob
      PROVE  Failed(c)
  <2>1. /\ OnlyAt(c, queueState, queueState')
        /\ queueState'[c] = FinishRunningRenderJob(queueState[c], f)
    BY <1>3, <1>5 DEF FailJob, IInv, TypeOK, OnlyAt, c
  <2>2. Resolve(c, f, "failed") /\ LoseQueue(c, f)
    BY <1>3, <1>5 DEF FailJob, c
  <2>3. /\ worker'.pc = "cancel"
        /\ worker'.client = c
        /\ worker'.todo = fifo[c]
    BY <1>3, <1>5 DEF FailJob, IInv, TypeOK, Worker, c
  <2>4. OnlyAt(c, fifo, fifo') /\ fifo'[c] = <<>>
    BY <1>3, <1>5 DEF FailJob, IInv, TypeOK, OnlyAt, c
  <2>5. UNCHANGED <<phase, queuedJobs, queueMode, epoch, closeTodo>>
    BY <1>5 DEF FailJob, closeVars, deviceVars
  <2> QED BY <1>2, <1>3, <2>1, <2>2, <2>3, <2>4, <2>5
             DEF Failed, Retired, c, f
<1> QED BY <1>4, <1>5 DEF c

LEMMA CancelledStep ==
    ASSUME IInv, CancelJob
    PROVE  CancelledByFailure(worker.client) /\ worker.client \in Client
<1> DEFINE c == worker.client
           f == Head(worker.todo).fence
<1>1. /\ worker.pc = "cancel"
      /\ worker.todo # <<>>
      /\ worker.todo \in Seq(Job)
      /\ c \in Client
      /\ phase[c] = "open"
  <2>1. worker.pc = "cancel" /\ worker.todo # <<>> /\ c \in Client
    BY DEF CancelJob, IInv, WorkerInv, ActivePc
  <2>2. worker.todo \in Seq(Job)
    BY DEF IInv, TypeOK, Worker
  <2>3. phase[c] = "open"
    BY <2>1 DEF IInv, ListsInv
  <2> QED BY <2>1, <2>2, <2>3
<1>2. /\ queueState[c] \in QueueState
      /\ ~queueState[c].running
      /\ Contiguous(queueState[c], worker.todo)
  BY <1>1 DEF IInv, TypeOK, TimelineInv
<1>3. /\ f = queueState[c].retired + 1
      /\ CanCancel(queueState[c], f)
  BY <1>1, <1>2, ContiguousCancel
<1>4. f \in Fence
  <2>1. Head(worker.todo) \in Job
    BY <1>1, HeadTailProperties
  <2>2. f \in 0..LastFence /\ f # 0
    BY <1>3, <2>1 DEF Job, CanCancel, InvalidFence
  <2> QED BY <2>2 DEF Fence
<1>5. /\ OnlyAt(c, queueState, queueState')
      /\ queueState'[c] = CancelQueuedRenderJob(queueState[c], f)
  BY <1>1, <1>3 DEF CancelJob, IInv, TypeOK, OnlyAt
<1>6. /\ worker'.pc = "cancel"
      /\ worker'.client = c
      /\ worker'.todo = Tail(worker.todo)
  BY <1>1 DEF CancelJob, IInv, TypeOK, Worker
<1>7. /\ queuedJobs' = Decrement(queuedJobs)
      /\ Resolve(c, f, "cancelled")
      /\ UNCHANGED <<phase, queueLost, lastFailed, fifo, queueMode, epoch,
                     closeTodo>>
  BY DEF CancelJob, closeVars
<1> HIDE DEF f
<1> QED BY <1>1, <1>2, <1>3, <1>4, <1>5, <1>6, <1>7
           DEF CancelledByFailure, Retired

LEMMA FreedStep ==
    ASSUME IInv, NEW c \in Client, CancelAtFree(c)
    PROVE  CancelledByFree(c)
<1> DEFINE f == Head(closeTodo[c]).fence
<1>1. /\ phase[c] = "cancelling"
      /\ closeTodo[c] # <<>>
      /\ closeTodo[c] \in Seq(Job)
      /\ queueState[c] \in QueueState
  BY DEF CancelAtFree, IInv, TypeOK
<1>2. f \in 0..LastFence
  <2>1. Head(closeTodo[c]) \in Job
    BY <1>1, HeadTailProperties
  <2> QED BY <2>1 DEF Job
<1>3. CanCancel(queueState[c], f) =>
          /\ ~queueState[c].running
          /\ f = queueState[c].retired + 1
          /\ f \in Fence
  BY <1>2 DEF CanCancel, InvalidFence, Fence
<1>4. /\ OnlyAt(c, closeTodo, closeTodo')
      /\ closeTodo'[c] = Tail(closeTodo[c])
  BY DEF CancelAtFree, IInv, TypeOK, OnlyAt
<1>5. \/ /\ CanCancel(queueState[c], f)
         /\ OnlyAt(c, queueState, queueState')
         /\ queueState'[c] = CancelQueuedRenderJob(queueState[c], f)
         /\ Resolve(c, f, "cancelled")
      \/ UNCHANGED <<queueState, outcome>>
  BY DEF CancelAtFree, IInv, TypeOK, OnlyAt
<1>6. /\ queuedJobs' = Decrement(queuedJobs)
      /\ UNCHANGED <<phase, queueLost, lastFailed, fifo, queueMode, epoch,
                     worker>>
  BY DEF CancelAtFree
<1> HIDE DEF f
<1> QED BY <1>1, <1>3, <1>4, <1>5, <1>6 DEF CancelledByFree, Retired, f

LEMMA QueuedStep ==
    ASSUME IInv, NEW t \in Thread, Calls(t), queueMode[Owner[t]] # "safe",
           NEW kind \in {"commands", "present"},
           NEW stream \in Stream \cup {0}, NEW names \in SUBSET Buffer,
           kind = "present" <=> stream # 0,
           AppendJob(t, kind, stream, names)
    PROVE  \E s \in Seq(Job) : Queued(Owner[t], s)
<1> DEFINE c == Owner[t]
           job == [fence |-> queueState[c].next, kind |-> kind,
                   stream |-> stream, buffers |-> names, drop |-> FALSE]
           older == IF kind = "present" THEN Superseded(fifo[c], job)
                                        ELSE fifo[c]
<1>1. /\ c \in Client
      /\ phase[c] = "open" /\ ~queueLost[c] /\ queueMode[c] # "safe"
      /\ worker.pc # "cancel"
      /\ CanQueueRenderJob(queueState[c], queuedJobs)
      /\ fifo[c] \in Seq(Job)
      /\ queueState[c] \in QueueState
  BY QueueConstants DEF Calls, AppendJob, QueueLockFree, IInv, TypeOK
<1>2. job \in Job
  <2>1. queueState[c].next \in 0..LastFence
    BY <1>1, QueueLimits DEF QueueState
  <2> QED BY <2>1 DEF Job
<1>3. older \in Seq(Job) /\ Len(older) = Len(fifo[c])
  BY <1>1, SupersededFences
<1>4. /\ OnlyAt(c, queueState, queueState')
      /\ queueState'[c] = QueueRenderJob(queueState[c])
      /\ OnlyAt(c, fifo, fifo') /\ fifo'[c] = Append(older, job)
  BY <1>1 DEF AppendJob, IInv, TypeOK, OnlyAt
<1>5. Append(older, job) \in Seq(Job)
      /\ Len(Append(older, job)) = Len(fifo[c]) + 1
  <2> HIDE DEF job, older
  <2> QED BY <1>2, <1>3, AppendProperties
<1>6. /\ queuedJobs' = queuedJobs + 1
      /\ UNCHANGED <<phase, queueLost, lastFailed, queueMode, closeVars,
                     worker, history>>
  <2> HIDE DEF job, older
  <2> QED BY DEF AppendJob
<1>7. UNCHANGED still
  BY <1>6 DEF still, closeVars, history
<1>8. Append(older, job) \in Extended(c, fifo[c])
  <2>1. /\ job.fence = queueState[c].next /\ ~job.drop
        /\ job.kind = "present" <=> job.stream # 0
        /\ job.kind = kind
    OBVIOUS
  <2> HIDE DEF job
  <2> QED BY <1>2, <2>1 DEF Extended
<1> HIDE DEF c, job, older
<1>9. Queued(c, Append(older, job))
  BY <1>1, <1>4, <1>5, <1>6, <1>7, <1>8 DEF Queued
<1> QED BY <1>5, <1>9 DEF c

LEMMA ConfiguredStep ==
    ASSUME IInv, NEW t \in Thread, NEW mode, NEW inject,
           ConfigureRenderQueue(t, mode, inject)
    PROVE  Configured(Owner[t])
<1> DEFINE c == Owner[t]
<1>1. c \in Client /\ phase[c] = "open" /\ fifo[c] = <<>>
  BY QueueConstants DEF ConfigureRenderQueue, Calls
<1>2. worker.client # c
  <2>1. ~activeJob[c]
    BY DEF ConfigureRenderQueue
  <2>2. worker.client = c => worker.pc \in ActivePc \cup {"wake"}
    BY <1>1, QueueConstants DEF IInv, WorkerInv
  <2> QED BY <1>1, <2>1, <2>2 DEF IInv, WorkerInv, CloseInv
<1>3. /\ OnlyAt(c, queueLost, queueLost') /\ ~queueLost'[c]
      /\ OnlyAt(c, lastFailed, lastFailed') /\ lastFailed'[c] = 0
      /\ OnlyAt(c, epoch, epoch') /\ epoch'[c] = queueState[c].retired
      /\ OnlyAt(c, queueMode, queueMode')
  BY <1>1 DEF ConfigureRenderQueue, IInv, TypeOK, OnlyAt
<1>4. UNCHANGED <<phase, queueState, fifo, closeTodo, outcome, queuedJobs,
                  worker>>
  BY DEF ConfigureRenderQueue, closeVars, deviceVars
<1> QED BY <1>1, <1>2, <1>3, <1>4 DEF Configured

LEMMA FreeBegunStep ==
    ASSUME IInv, NEW c \in Client, BeginFree(c)
    PROVE  FreeBegun(c)
<1>1. /\ phase[c] = "open" /\ worker.pc # "cancel"
      /\ OnlyAt(c, phase, phase') /\ phase'[c] = "cancelling"
      /\ OnlyAt(c, closeTodo, closeTodo') /\ closeTodo'[c] = fifo[c]
      /\ OnlyAt(c, fifo, fifo') /\ fifo'[c] = <<>>
  BY DEF BeginFree, QueueLockFree, IInv, TypeOK, OnlyAt
<1>2. UNCHANGED <<queueState, queueLost, lastFailed, queueMode, queuedJobs,
                  worker>>
  BY DEF BeginFree, deviceVars
<1>3. UNCHANGED <<epoch, outcome>>
  BY DEF BeginFree, history
<1> QED BY <1>1, <1>2, <1>3 DEF FreeBegun

\* The steps of the worker that move no timeline
LEMMA QuietWorker ==
    ASSUME IInv,
           \/ AcquireQueueSem \/ SelectNothing \/ ExecuteJob \/ CancelDone
           \/ DropCancelled \/ NotifyCompletion \/ FinishJob \/ WakeFree
    PROVE  Elsewhere
<1>1. /\ worker'.pc = "execute" =>
             worker.pc = "execute" /\ worker'.job = worker.job
      /\ worker'.pc = "settle" => worker.pc \in {"execute", "settle"}
      /\ worker'.pc = "cancel" => worker.pc = "cancel"
      /\ worker'.pc \in {"execute", "settle", "cancel"} =>
             worker'.client = worker.client
      /\ worker'.todo = worker.todo
  <2>0. worker \in Worker
    BY DEF IInv, TypeOK
  <2>1. CASE AcquireQueueSem \/ SelectNothing \/ CancelDone \/ ExecuteJob
    BY <2>0, <2>1 DEF AcquireQueueSem, SelectNothing, ExecuteJob, CancelDone,
       Worker
  <2>2. CASE DropCancelled \/ NotifyCompletion
    BY <2>0, <2>2 DEF DropCancelled, NotifyCompletion, Worker
  <2>3. CASE FinishJob \/ WakeFree
    <3>1. worker.todo = <<>>
      BY <2>3 DEF FinishJob, WakeFree, IInv, ListsInv
    <3> QED BY <2>0, <2>3, <3>1 DEF FinishJob, WakeFree, Worker, IdleWorker
  <2> QED BY <2>1, <2>2, <2>3
<1>2. UNCHANGED <<phase, queueState, queueLost, lastFailed, fifo, still,
                  queuedJobs>>
  BY DEF AcquireQueueSem, SelectNothing, ExecuteJob, CancelDone,
     DropCancelled, NotifyCompletion, FinishJob, WakeFree, clientVars,
     closeVars, deviceVars, history, still
<1>3. \A d \in Client : Closing(d)' <=> Closing(d)
  BY <1>2 DEF Closing
<1> QED BY <1>1, <1>2, <1>3 DEF Elsewhere

\* The calls that move no timeline
LEMMA QuietCalls ==
    ASSUME \/ \E t \in Thread : ThreadStep(t) \/ GiveUp(t)
           \/ \E c \in Client : ClientCall(c)
           \/ \E t \in Thread, f \in Fence : WaitRenderQueueFence(t, f)
           \/ \E t \in Thread : DequeueRenderCompletion(t)
           \/ ShutdownRenderQueue
           \/ UNCHANGED vars
    PROVE  UNCHANGED <<clientVars, closeVars, queuedJobs, worker, history>>
<1> DEFINE same == UNCHANGED <<clientVars, closeVars, queuedJobs, worker,
                               history>>
<1> USE DEF deviceVars
<1>1. ASSUME NEW t \in Thread, PostJob(t) PROVE same
  BY <1>1 DEF PostJob
<1>2. ASSUME NEW t \in Thread, AcquireCompletion(t) PROVE same
  BY <1>2 DEF AcquireCompletion
<1>3. ASSUME NEW t \in Thread, NEW f, LookUpFence(t, f) PROVE same
  BY <1>3 DEF LookUpFence
<1>4. ASSUME NEW t \in Thread, DrainToken(t) PROVE same
  BY <1>4 DEF DrainToken
<1>5. ASSUME NEW t \in Thread, GiveUp(t) PROVE same
  BY <1>5 DEF GiveUp
<1>6. ASSUME NEW c \in Client, ClientCall(c) PROVE same
  BY <1>6 DEF ClientCall, CreateRenderBuffer, CloseRenderBuffer,
     SelectRenderQueue, DeselectRenderQueue
<1>7. ASSUME NEW t \in Thread, DequeueRenderCompletion(t) PROVE same
  BY <1>7 DEF DequeueRenderCompletion
<1>8. ASSUME ShutdownRenderQueue PROVE same
  BY <1>8 DEF ShutdownRenderQueue
<1>9. ASSUME UNCHANGED vars PROVE same
  BY <1>9 DEF vars
<1> HIDE DEF same
<1>10. same
  BY <1>1, <1>2, <1>3, <1>4, <1>5, <1>6, <1>7, <1>8, <1>9
     DEF ThreadStep, CheckAgain, WaitRenderQueueFence
<1> QED BY <1>10 DEF same

\* Open, and Free after its cancel loop
LEMMA QuietFree ==
    ASSUME IInv, NEW c \in Client,
           \/ OpenClient(c) \/ CancelAtFreeDone(c) \/ DropAtFree(c)
           \/ AwaitIdle(c) \/ UnlinkClient(c)
    PROVE  Elsewhere
<1>1. /\ phase \in [Client -> Phase]
      /\ \/ phase[c] = "unopened" /\ phase'[c] = "open"
         \/ /\ phase[c] \notin {"unopened", "open"}
            /\ phase'[c] \notin {"unopened", "open"}
      /\ OnlyAt(c, phase, phase')
  <2>1. phase \in [Client -> Phase]
    BY DEF IInv, TypeOK
  <2>2. CASE OpenClient(c)
    BY <2>1, <2>2 DEF OpenClient, OnlyAt
  <2>3. CASE CancelAtFreeDone(c)
    BY <2>1, <2>3 DEF CancelAtFreeDone, OnlyAt
  <2>4. CASE DropAtFree(c)
    BY <2>1, <2>4 DEF DropAtFree, OnlyAt
  <2>5. CASE AwaitIdle(c)
    BY <2>1, <2>5 DEF AwaitIdle, OnlyAt
  <2>6. CASE UnlinkClient(c)
    BY <2>1, <2>6 DEF UnlinkClient, OnlyAt
  <2> QED BY <2>2, <2>3, <2>4, <2>5, <2>6
<1>2. UNCHANGED <<queueState, queueLost, lastFailed, fifo, closeTodo, epoch,
                  outcome, queueMode, queuedJobs, worker>>
  BY DEF OpenClient, CancelAtFreeDone, DropAtFree, AwaitIdle, UnlinkClient,
     closeVars, deviceVars, history
<1>3. \A d \in Client :
          /\ phase'[d] = "open" => phase[d] \in {"unopened", "open"}
          /\ Closing(d)' <=> Closing(d)
  BY <1>1 DEF OnlyAt, Closing
<1> QED BY <1>2, <1>3 DEF Elsewhere, still

\* Every step is one of these moves
LEMMA StepMoves ==
    ASSUME IInv, [Next]_vars
    PROVE  (\E c \in Client : Move(c)) \/ Elsewhere
<1>1. CASE UNCHANGED <<clientVars, closeVars, queuedJobs, worker, history>>
  BY <1>1 DEF Elsewhere, Closing, clientVars, closeVars, history, still
<1>2. CASE WorkerStep
  <2>1. CASE CompleteJob \/ FailJob
    <3>1. worker.client \in Client
      BY <2>1, SettleFacts DEF CompleteJob, FailJob
    <3> QED BY <2>1, <3>1, SettledStep DEF Move
  <2> QED BY <1>2, <2>1, StartedStep, CancelledStep, QuietWorker
             DEF WorkerStep, Move
<1>3. ASSUME NEW t \in Thread, Call(t)
      PROVE  (\E c \in Client : Move(c)) \/ Elsewhere
  <2>1. Owner[t] \in Client
    BY QueueConstants
  <2>2. ASSUME NEW names \in SUBSET Buffer, EnqueueRenderCommands(t, names)
        PROVE  Move(Owner[t])
    BY <2>2, QueuedStep DEF EnqueueRenderCommands, Move
  <2>3. ASSUME NEW b \in Buffer, NEW stream \in Stream,
               EnqueueRenderDirectPresent(t, b, stream)
        PROVE  Move(Owner[t])
    BY <2>3, QueuedStep, QueueConstants DEF EnqueueRenderDirectPresent, Move
  <2>4. ASSUME NEW mode \in Mode, NEW inject \in BOOLEAN,
               ConfigureRenderQueue(t, mode, inject)
        PROVE  Move(Owner[t])
    BY <2>4, ConfiguredStep DEF Move
  <2>5. CASE \/ \E f \in Fence : WaitRenderQueueFence(t, f)
             \/ DequeueRenderCompletion(t)
    BY <1>1, <2>5, QuietCalls
  <2> QED BY <1>3, <2>1, <2>2, <2>3, <2>4, <2>5 DEF Call
<1>4. ASSUME NEW c \in Client, OpenClient(c) \/ BeginFree(c) \/ FreeStep(c)
      PROVE  Move(c) \/ Elsewhere
  BY <1>4, FreeBegunStep, FreedStep, QuietFree DEF FreeStep, Move
<1>5. CASE \/ \E t \in Thread : ThreadStep(t) \/ GiveUp(t)
           \/ \E c \in Client : ClientCall(c)
           \/ ShutdownRenderQueue
           \/ UNCHANGED vars
  BY <1>1, <1>5, QuietCalls
<1> QED BY <1>2, <1>3, <1>4, <1>5 DEF Next

-----------------------------------------------------------------------------
(***************************************************************************)
(* How fences end.                                                         *)
(***************************************************************************)

\* No fence at or above nextFence is running, retired or left to Free
IssuedInv ==
    \A c \in Client :
        LET s == queueState[c] IN
        /\ s.retired < s.next
        /\ s.running => s.retired + 1 < s.next
        /\ \A i \in 1..Len(closeTodo[c]) : closeTodo[c][i].fence < s.next

\* A client is lost from the failure of a job to the next configure: it is
\* lost while the rest of its FIFO is cancelled, and has no FIFO and no running
\* job afterwards
LostInv ==
    \A c \in Client :
        /\ queueLost[c] <=> lastFailed[c] # 0
        /\ lastFailed[c] <= queueState[c].retired
        /\ epoch[c] <= queueState[c].retired
        /\ worker.client = c /\ worker.pc \in {"execute", "settle"} =>
               ~queueLost[c]
        /\ worker.client = c /\ worker.pc = "cancel" => queueLost[c]
        /\ fifo[c] # <<>> => ~queueLost[c] /\ queueMode[c] # "safe"

\* FailureIsTerminal, and before Open
TerminalInv ==
    \A c \in Client : \A f \in Fence :
        epoch[c] < f /\ f <= queueState[c].retired /\ ~Closing(c) =>
            outcome[c][f] = IF ~queueLost[c] \/ f < lastFailed[c]
                            THEN "complete"
                            ELSE IF f = lastFailed[c] THEN "failed"
                            ELSE "cancelled"

EndInv == IInv /\ IssuedInv /\ LostInv /\ TerminalInv

\* The fields the functions of RenderQueueCore.h change
LEMMA CoreFields ==
    ASSUME NEW q \in QueueState, NEW f
    PROVE  /\ q.retired \in Nat /\ q.next \in Nat /\ q.queued \in Nat
           /\ LET s == StartRenderJob(q, f) IN
              /\ s.running /\ s.retired = q.retired /\ s.next = q.next
              /\ s.queued = q.queued - 1
           /\ LET s == FinishRunningRenderJob(q, f) IN
              /\ ~s.running /\ s.retired = f /\ s.next = q.next
              /\ s.queued = q.queued
           /\ LET s == CancelQueuedRenderJob(q, f) IN
              /\ s.running = q.running /\ s.retired = f /\ s.next = q.next
              /\ s.queued = q.queued - 1
           /\ LET s == QueueRenderJob(q) IN
              /\ s.running = q.running /\ s.retired = q.retired
              /\ s.next = q.next + 1 /\ s.queued = q.queued + 1
BY QueueLimits DEF QueueState, StartRenderJob, FinishRunningRenderJob,
   CancelQueuedRenderJob, QueueRenderJob

LEMMA EndTypes ==
    ASSUME IInv
    PROVE  /\ \A d \in Client :
                  /\ queueState[d] \in QueueState
                  /\ queueState[d].retired \in Nat
                  /\ queueState[d].next \in Nat
                  /\ queueState[d].queued \in Nat
                  /\ queueLost[d] \in BOOLEAN
                  /\ lastFailed[d] \in Nat /\ epoch[d] \in Nat
                  /\ fifo[d] \in Seq(Job) /\ closeTodo[d] \in Seq(Job)
           /\ outcome \in [Client -> [Fence -> Result \cup {"pending"}]]
           /\ worker.todo \in Seq(Job)
<1>1. \A d \in Client :
          /\ queueState[d] \in QueueState /\ queueLost[d] \in BOOLEAN
          /\ lastFailed[d] \in Nat /\ epoch[d] \in Nat
          /\ fifo[d] \in Seq(Job) /\ closeTodo[d] \in Seq(Job)
  BY QueueLimits DEF IInv, TypeOK
<1>2. /\ outcome \in [Client -> [Fence -> Result \cup {"pending"}]]
      /\ worker.todo \in Seq(Job)
  BY DEF IInv, TypeOK, Worker
<1> QED BY <1>1, <1>2, CoreFields

\* Retiring the next fence of c leaves the outcome of every other fence alone
LEMMA RetiredOutcome ==
    ASSUME IInv, NEW c \in Client, NEW r, Retired(c, r)
    PROVE  /\ \A d \in Client, g \in Fence :
                  outcome'[d][g] = IF d = c /\ g = queueState[c].retired + 1
                                   THEN r ELSE outcome[d][g]
           /\ \A g \in Fence : g <= queueState[c].retired + 1 =>
                  g <= queueState[c].retired \/ g = queueState[c].retired + 1
<1>1. /\ outcome \in [Client -> [Fence -> Result \cup {"pending"}]]
      /\ queueState[c].retired \in Nat
  BY EndTypes
<1>2. outcome' = [outcome EXCEPT ![c][queueState[c].retired + 1] = r]
  BY DEF Retired, Resolve
<1>3. \A g \in Fence : g \in Nat
  BY QueueLimits DEF Fence
<1> QED BY <1>1, <1>2, <1>3

LEMMA EndStarted ==
    ASSUME EndInv, NEW c \in Client, Started(c)
    PROVE  IssuedInv' /\ LostInv' /\ TerminalInv'
<1>1. /\ \A d \in Client : d # c => queueState'[d] = queueState[d]
                                    /\ fifo'[d] = fifo[d]
      /\ queueState'[c].running
      /\ queueState'[c].retired = queueState[c].retired
      /\ queueState'[c].next = queueState[c].next
      /\ queueState[c].retired \in Nat
  BY EndTypes, CoreFields DEF EndInv, Started, OnlyAt
<1>2. queueState[c].retired + 1 < queueState[c].next
  <2>1. Contiguous(queueState[c], fifo[c]) /\ ~queueState[c].running
    BY QueueConstants DEF EndInv, IInv, TimelineInv, Started
  <2>2. Len(fifo[c]) > 0
    BY EndTypes, EmptySeq, LenProperties DEF EndInv, Started
  <2> QED BY <2>1, <2>2, EndTypes DEF Contiguous, EndInv
<1>3. /\ worker'.client = c /\ worker'.pc = "execute"
      /\ ~queueLost[c] /\ fifo[c] # <<>>
      /\ UNCHANGED <<phase, queueLost, lastFailed, closeTodo, epoch, outcome,
                     queueMode>>
  BY DEF Started, still
<1>4. IssuedInv'
  BY <1>1, <1>2, <1>3 DEF EndInv, IssuedInv
<1>5. LostInv'
  BY <1>1, <1>3 DEF EndInv, LostInv
<1>6. TerminalInv'
  BY <1>1, <1>3 DEF EndInv, TerminalInv, Closing
<1> QED BY <1>4, <1>5, <1>6

LEMMA EndCompleted ==
    ASSUME EndInv, NEW c \in Client, Completed(c)
    PROVE  IssuedInv' /\ LostInv' /\ TerminalInv'
<1> DEFINE f == queueState[c].retired + 1
<1>1. /\ \A d \in Client : d # c => queueState'[d] = queueState[d]
      /\ ~queueState'[c].running
      /\ queueState'[c].retired = f
      /\ queueState'[c].next = queueState[c].next
      /\ queueState[c].retired \in Nat
  BY EndTypes, CoreFields DEF EndInv, Completed, Retired, OnlyAt
<1>2. /\ f < queueState[c].next
      /\ ~queueLost[c]
  BY DEF EndInv, IssuedInv, LostInv, Completed
<1>3. /\ worker.client = c /\ worker'.client = c /\ worker'.pc = "notify"
      /\ UNCHANGED <<phase, queueLost, lastFailed, closeTodo, epoch, queueMode,
                     fifo>>
  BY DEF Completed, Retired
<1>4. /\ \A d \in Client, g \in Fence :
             outcome'[d][g] = IF d = c /\ g = f
                              THEN "complete" ELSE outcome[d][g]
      /\ \A g \in Fence : g <= f => g <= queueState[c].retired \/ g = f
  BY RetiredOutcome DEF EndInv, Completed
<1> HIDE DEF f
<1>5. IssuedInv'
  BY <1>1, <1>2, <1>3 DEF EndInv, IssuedInv
<1>6. LostInv'
  <2>1. lastFailed[c] \in Nat /\ epoch[c] \in Nat
    BY EndTypes DEF EndInv
  <2>2. \A n \in Nat : n <= queueState[c].retired => n <= f
    BY <1>1 DEF f
  <2> QED BY <1>1, <1>2, <1>3, <2>1, <2>2 DEF EndInv, LostInv
<1>7. TerminalInv'
  BY <1>1, <1>2, <1>3, <1>4 DEF EndInv, TerminalInv, Closing
<1> QED BY <1>5, <1>6, <1>7

LEMMA EndFailed ==
    ASSUME EndInv, NEW c \in Client, Failed(c)
    PROVE  IssuedInv' /\ LostInv' /\ TerminalInv'
<1> DEFINE f == queueState[c].retired + 1
<1>1. /\ \A d \in Client : d # c => queueState'[d] = queueState[d]
                                    /\ fifo'[d] = fifo[d]
      /\ fifo'[c] = <<>>
      /\ ~queueState'[c].running
      /\ queueState'[c].retired = f
      /\ queueState'[c].next = queueState[c].next
      /\ queueState[c].retired \in Nat
  BY EndTypes, CoreFields DEF EndInv, Failed, Retired, OnlyAt
<1>2. /\ f < queueState[c].next
      /\ ~queueLost[c] /\ lastFailed[c] = 0
  BY DEF EndInv, IssuedInv, LostInv, Failed
<1>3. /\ worker.client = c /\ worker'.client = c /\ worker'.pc = "cancel"
      /\ UNCHANGED <<phase, closeTodo, epoch, queueMode>>
  BY DEF Failed, Retired
<1>4. /\ \A d \in Client, g \in Fence :
             outcome'[d][g] = IF d = c /\ g = f
                              THEN "failed" ELSE outcome[d][g]
      /\ \A g \in Fence : g <= f => g <= queueState[c].retired \/ g = f
  BY RetiredOutcome DEF EndInv, Failed
<1>5. \A d \in Client : /\ queueLost'[d] = IF d = c THEN TRUE ELSE queueLost[d]
                        /\ lastFailed'[d] = IF d = c THEN f ELSE lastFailed[d]
  BY DEF Failed, LoseQueue, EndInv, IInv, TypeOK
<1>6. /\ f # 0 /\ epoch[c] \in Nat /\ f \in Nat
      /\ \A n \in Nat : n <= queueState[c].retired => n <= f /\ n < f
  BY <1>1, EndTypes DEF EndInv
<1> HIDE DEF f
<1>7. IssuedInv'
  BY <1>1, <1>2, <1>3 DEF EndInv, IssuedInv
<1>8. LostInv'
  <2>1. ASSUME NEW d \in Client, d # c
        PROVE  /\ queueLost'[d] = queueLost[d]
               /\ lastFailed'[d] = lastFailed[d]
               /\ queueState'[d] = queueState[d]
               /\ fifo'[d] = fifo[d]
               /\ worker'.client # d
    BY <1>1, <1>3, <1>5, <2>1
  <2>2. epoch[c] <= f /\ f <= f
    BY <1>6 DEF EndInv, LostInv
  <2>3. queueLost'[c] /\ lastFailed'[c] = f
    BY <1>5
  <2> QED BY <1>1, <1>3, <1>6, <2>1, <2>2, <2>3 DEF EndInv, LostInv
<1>9. TerminalInv'
  <2>0. \A d \in Client : d # c => /\ queueLost'[d] = queueLost[d]
                                   /\ lastFailed'[d] = lastFailed[d]
                                   /\ queueState'[d] = queueState[d]
    BY <1>1, <1>5
  <2>1. ASSUME NEW d \in Client, d # c, NEW g \in Fence, epoch'[d] < g,
               g <= queueState'[d].retired, ~Closing(d)'
        PROVE  outcome'[d][g] = IF ~queueLost'[d] \/ g < lastFailed'[d]
                                THEN "complete"
                                ELSE IF g = lastFailed'[d] THEN "failed"
                                ELSE "cancelled"
    BY <1>3, <1>4, <2>0, <2>1 DEF EndInv, TerminalInv, Closing
  <2>2. ASSUME NEW g \in Fence, epoch'[c] < g, g <= f, ~Closing(c)'
        PROVE  outcome'[c][g] = IF g < f THEN "complete" ELSE "failed"
    <3>1. CASE g = f
      BY <1>4, <1>6, <3>1
    <3>2. CASE g # f
      <4>1. g <= queueState[c].retired /\ g \in Nat
        BY <1>4, <2>2, <3>2, QueueLimits DEF Fence
      <4>2. g < f /\ outcome'[c][g] = outcome[c][g]
        BY <1>4, <1>6, <3>2, <4>1
      <4> QED BY <1>2, <1>3, <2>2, <4>1, <4>2 DEF EndInv, TerminalInv, Closing
    <3> QED BY <3>1, <3>2
  <2>3. \A g \in Fence : g <= f /\ ~(g < f) => g = f
    BY <1>6, QueueLimits DEF Fence
  <2>4. queueLost'[c] /\ lastFailed'[c] = f
    BY <1>5
  <2>5. \A g \in Fence : epoch'[c] < g /\ g <= f /\ ~Closing(c)' =>
            outcome'[c][g] = IF ~queueLost'[c] \/ g < lastFailed'[c]
                             THEN "complete"
                             ELSE IF g = lastFailed'[c] THEN "failed"
                             ELSE "cancelled"
    BY <2>2, <2>3, <2>4, <1>3
  <2> QED BY <1>1, <2>1, <2>5 DEF TerminalInv
<1> QED BY <1>7, <1>8, <1>9

LEMMA EndCancelledByFailure ==
    ASSUME EndInv, NEW c \in Client, CancelledByFailure(c)
    PROVE  IssuedInv' /\ LostInv' /\ TerminalInv'
<1> DEFINE f == queueState[c].retired + 1
<1>1. /\ \A d \in Client : d # c => queueState'[d] = queueState[d]
      /\ ~queueState'[c].running
      /\ queueState'[c].retired = f
      /\ queueState'[c].next = queueState[c].next
      /\ queueState[c].retired \in Nat
  BY EndTypes, CoreFields DEF EndInv, CancelledByFailure, Retired, OnlyAt
<1>2. f < queueState[c].next /\ queueLost[c]
  <2>1. Contiguous(queueState[c], worker.todo) /\ ~queueState[c].running
    BY DEF EndInv, IInv, TimelineInv, CancelledByFailure
  <2>2. Len(worker.todo) > 0
    BY EndTypes, EmptySeq, LenProperties DEF EndInv, CancelledByFailure
  <2>3. f < queueState[c].next
    BY <2>1, <2>2, EndTypes DEF Contiguous, EndInv
  <2> QED BY <2>3 DEF EndInv, LostInv, CancelledByFailure
<1>3. /\ worker.client = c /\ worker'.client = c /\ worker'.pc = "cancel"
      /\ UNCHANGED <<phase, queueLost, lastFailed, closeTodo, epoch, queueMode,
                     fifo>>
  BY DEF CancelledByFailure, Retired
<1>4. /\ \A d \in Client, g \in Fence :
             outcome'[d][g] = IF d = c /\ g = f
                              THEN "cancelled" ELSE outcome[d][g]
      /\ \A g \in Fence : g <= f => g <= queueState[c].retired \/ g = f
  BY RetiredOutcome DEF EndInv, CancelledByFailure
<1>5. /\ lastFailed[c] \in Nat /\ epoch[c] \in Nat
      /\ \A n \in Nat : n <= queueState[c].retired => n <= f /\ n < f
                                                      /\ ~(f < n)
  BY <1>1, EndTypes DEF EndInv
<1> HIDE DEF f
<1>6. IssuedInv'
  BY <1>1, <1>2, <1>3 DEF EndInv, IssuedInv
<1>7. LostInv'
  BY <1>1, <1>2, <1>3, <1>5 DEF EndInv, LostInv
<1>8. TerminalInv'
  <2>1. lastFailed[c] # f /\ ~(f < lastFailed[c])
    BY <1>5 DEF EndInv, LostInv
  <2> QED BY <1>1, <1>2, <1>3, <1>4, <2>1 DEF EndInv, TerminalInv, Closing
<1> QED BY <1>6, <1>7, <1>8

LEMMA EndCancelledByFree ==
    ASSUME EndInv, NEW c \in Client, CancelledByFree(c)
    PROVE  IssuedInv' /\ LostInv' /\ TerminalInv'
<1> DEFINE f == queueState[c].retired + 1
<1>1. /\ phase[c] = "cancelling"
      /\ \A d \in Client : d # c => closeTodo'[d] = closeTodo[d]
      /\ closeTodo'[c] = Tail(closeTodo[c])
      /\ UNCHANGED <<phase, queueLost, lastFailed, epoch, queueMode, fifo,
                     worker>>
  BY DEF CancelledByFree, OnlyAt
<1>2. /\ Len(closeTodo[c]) \in Nat \ {0}
      /\ Head(closeTodo[c]) = closeTodo[c][1]
      /\ Len(Tail(closeTodo[c])) = Len(closeTodo[c]) - 1
      /\ \A i \in 1..Len(Tail(closeTodo[c])) :
             Tail(closeTodo[c])[i] = closeTodo[c][i + 1]
  BY EndTypes, HeadTailProperties, EmptySeq, LenProperties
     DEF EndInv, CancelledByFree
<1>3. /\ Head(closeTodo[c]).fence < queueState[c].next
      /\ \A i \in 1..Len(Tail(closeTodo[c])) :
             Tail(closeTodo[c])[i].fence < queueState[c].next
  <2>1. \A i \in 1..Len(Tail(closeTodo[c])) : i + 1 \in 1..Len(closeTodo[c])
    BY <1>2
  <2>2. 1 \in 1..Len(closeTodo[c])
    BY <1>2
  <2> QED BY <1>2, <2>1, <2>2 DEF EndInv, IssuedInv
<1>4. CASE UNCHANGED <<queueState, outcome>>
  <2>1. IssuedInv'
    BY <1>1, <1>3, <1>4 DEF EndInv, IssuedInv
  <2>2. LostInv'
    BY <1>1, <1>4 DEF EndInv, LostInv
  <2>3. TerminalInv'
    BY <1>1, <1>4 DEF EndInv, TerminalInv, Closing
  <2> QED BY <2>1, <2>2, <2>3
<1>5. CASE /\ ~queueState[c].running /\ Head(closeTodo[c]).fence = f
           /\ queueState'[c] = CancelQueuedRenderJob(queueState[c], f)
           /\ Retired(c, "cancelled")
  <2>1. /\ \A d \in Client : d # c => queueState'[d] = queueState[d]
        /\ ~queueState'[c].running
        /\ queueState'[c].retired = f
        /\ queueState'[c].next = queueState[c].next
        /\ queueState[c].retired \in Nat
    BY <1>5, EndTypes, CoreFields DEF EndInv, Retired, OnlyAt
  <2>2. \A d \in Client, g \in Fence : d # c => outcome'[d][g] = outcome[d][g]
    BY <1>5, RetiredOutcome DEF EndInv
  <2>3. /\ lastFailed[c] \in Nat /\ epoch[c] \in Nat
        /\ \A n \in Nat : n <= queueState[c].retired => n <= f
    BY <2>1, EndTypes DEF EndInv
  <2>4. ~(worker.client = c /\ worker.pc \in {"execute", "settle"})
    BY <1>5 DEF EndInv, IInv, TimelineInv
  <2>5. f < queueState[c].next
    BY <1>3, <1>5
  <2> HIDE DEF f
  <2>6. IssuedInv'
    BY <1>1, <1>3, <2>1, <2>5 DEF EndInv, IssuedInv
  <2>7. LostInv'
    BY <1>1, <2>1, <2>3 DEF EndInv, LostInv
  <2>8. TerminalInv'
    BY <1>1, <2>1, <2>2 DEF EndInv, TerminalInv, Closing
  <2> QED BY <2>6, <2>7, <2>8
<1> QED BY <1>4, <1>5 DEF CancelledByFree

LEMMA EndQueued ==
    ASSUME EndInv, NEW c \in Client, NEW s \in Seq(Job), Queued(c, s)
    PROVE  IssuedInv' /\ LostInv' /\ TerminalInv'
<1>1. /\ \A d \in Client : d # c => queueState'[d] = queueState[d]
                                    /\ fifo'[d] = fifo[d]
      /\ queueState'[c].running = queueState[c].running
      /\ queueState'[c].retired = queueState[c].retired
      /\ queueState'[c].next = queueState[c].next + 1
      /\ queueState[c].retired \in Nat /\ queueState[c].next \in Nat
  <2>1. queueState[c] \in QueueState
    BY EndTypes DEF EndInv
  <2>2. queueState'[c] = QueueRenderJob(queueState[c])
    BY DEF Queued
  <2>3. \A d \in Client : d # c => queueState'[d] = queueState[d]
                                   /\ fifo'[d] = fifo[d]
    BY DEF Queued, OnlyAt
  <2> QED BY <2>1, <2>2, <2>3, CoreFields
<1>2. /\ ~queueLost[c] /\ queueMode[c] # "safe"
      /\ UNCHANGED <<phase, queueLost, lastFailed, closeTodo, epoch, outcome,
                     queueMode, worker>>
  BY DEF Queued, still
<1>3. IssuedInv'
  <2>1. \A i \in 1..Len(closeTodo[c]) : closeTodo[c][i].fence \in Nat
    <3>1. \A i \in 1..Len(closeTodo[c]) : closeTodo[c][i] \in Job
      BY EndTypes, ElementOfSeq DEF EndInv
    <3> QED BY <3>1, QueueLimits DEF Job
  <2>2. \A n \in Nat : /\ n < queueState[c].next => n < queueState[c].next + 1
                       /\ n + 1 < queueState[c].next =>
                              n + 1 < queueState[c].next + 1
    BY <1>1
  <2> QED BY <1>1, <1>2, <2>1, <2>2 DEF EndInv, IssuedInv
<1>4. LostInv'
  BY <1>1, <1>2 DEF EndInv, LostInv
<1>5. TerminalInv'
  BY <1>1, <1>2 DEF EndInv, TerminalInv, Closing
<1> QED BY <1>3, <1>4, <1>5

LEMMA EndConfigured ==
    ASSUME EndInv, NEW c \in Client, Configured(c)
    PROVE  IssuedInv' /\ LostInv' /\ TerminalInv'
<1>1. /\ worker.client # c /\ fifo[c] = <<>>
      /\ \A d \in Client : d # c => /\ queueLost'[d] = queueLost[d]
                                    /\ lastFailed'[d] = lastFailed[d]
                                    /\ epoch'[d] = epoch[d]
                                    /\ queueMode'[d] = queueMode[d]
      /\ ~queueLost'[c] /\ lastFailed'[c] = 0
      /\ epoch'[c] = queueState[c].retired
      /\ queueState[c].retired \in Nat
      /\ UNCHANGED <<phase, queueState, fifo, closeTodo, outcome, worker>>
  BY EndTypes DEF EndInv, Configured, OnlyAt
<1>2. IssuedInv'
  BY <1>1 DEF EndInv, IssuedInv
<1>3. LostInv'
  BY <1>1 DEF EndInv, LostInv
<1>4. TerminalInv'
  <2>1. \A g \in Fence : ~(queueState[c].retired < g
                           /\ g <= queueState[c].retired)
    BY <1>1, QueueLimits DEF Fence
  <2> QED BY <1>1, <2>1 DEF EndInv, TerminalInv, Closing
<1> QED BY <1>2, <1>3, <1>4

LEMMA EndFreeBegun ==
    ASSUME EndInv, NEW c \in Client, FreeBegun(c)
    PROVE  IssuedInv' /\ LostInv' /\ TerminalInv'
<1>1. /\ phase[c] = "open" /\ worker.pc # "cancel"
      /\ \A d \in Client : d # c => /\ phase'[d] = phase[d]
                                    /\ closeTodo'[d] = closeTodo[d]
                                    /\ fifo'[d] = fifo[d]
      /\ phase'[c] = "cancelling" /\ closeTodo'[c] = fifo[c]
      /\ fifo'[c] = <<>>
      /\ UNCHANGED <<queueState, queueLost, lastFailed, queueMode, epoch,
                     outcome, worker>>
  BY DEF FreeBegun, OnlyAt
<1>2. \A i \in 1..Len(fifo[c]) : fifo[c][i].fence < queueState[c].next
  <2>1. Contiguous(queueState[c], fifo[c])
    BY <1>1 DEF EndInv, IInv, TimelineInv
  <2> QED BY <2>1, EndTypes DEF Contiguous, EndInv
<1>3. IssuedInv'
  BY <1>1, <1>2 DEF EndInv, IssuedInv
<1>4. LostInv'
  BY <1>1 DEF EndInv, LostInv
<1>5. TerminalInv'
  BY <1>1 DEF EndInv, TerminalInv, Closing
<1> QED BY <1>3, <1>4, <1>5

LEMMA EndElsewhere ==
    ASSUME EndInv, Elsewhere
    PROVE  IssuedInv' /\ LostInv' /\ TerminalInv'
<1>1. UNCHANGED <<queueState, queueLost, lastFailed, fifo, closeTodo, epoch,
                  outcome, queueMode>>
  BY DEF Elsewhere, still
<1>2. IssuedInv'
  BY <1>1 DEF EndInv, IssuedInv
<1>3. LostInv'
  BY <1>1 DEF EndInv, LostInv, Elsewhere
<1>4. TerminalInv'
  BY <1>1 DEF EndInv, TerminalInv, Elsewhere
<1> QED BY <1>2, <1>3, <1>4

LEMMA EndInit == Init => EndInv
<1> SUFFICES ASSUME Init PROVE EndInv
  OBVIOUS
<1>1. IInv
  BY InitInv
<1>2. \A c \in Client :
          /\ queueState[c] = InitQueueState
          /\ ~queueLost[c] /\ lastFailed[c] = 0 /\ epoch[c] = 0
          /\ fifo[c] = <<>> /\ closeTodo[c] = <<>>
  BY DEF Init
<1>3. worker.client = NoClient
  BY DEF Init, IdleWorker
<1>4. Len(<<>>) = 0
  BY EmptySeq
<1>5. IssuedInv
  BY <1>2, <1>4 DEF IssuedInv, InitQueueState
<1>6. LostInv
  BY <1>2, <1>3, QueueConstants DEF LostInv, InitQueueState
<1>7. TerminalInv
  BY <1>2, QueueLimits DEF TerminalInv, InitQueueState, Fence
<1> QED BY <1>1, <1>5, <1>6, <1>7 DEF EndInv

LEMMA EndNext ==
    ASSUME EndInv, [Next]_vars
    PROVE  EndInv'
<1>1. IInv'
  BY NextInv DEF EndInv
<1>2. IssuedInv' /\ LostInv' /\ TerminalInv'
  <2>1. (\E c \in Client : Move(c)) \/ Elsewhere
    BY StepMoves DEF EndInv
  <2> QED BY <2>1, EndStarted, EndCompleted, EndFailed, EndCancelledByFailure,
             EndCancelledByFree, EndQueued, EndConfigured, EndFreeBegun,
             EndElsewhere DEF Move
<1> QED BY <1>1, <1>2 DEF EndInv

LEMMA EndInvariance == Spec => []EndInv
<1>1. Init => EndInv
  BY EndInit
<1>2. EndInv /\ [Next]_vars => EndInv'
  BY EndNext
<1> QED BY <1>1, <1>2, PTL DEF Spec

\* Since the last configure every fence before the failed one completed and
\* every fence after it was cancelled: the worker cancels the FIFO it detached
\* before anybody sees the lock free, and a lost client accepts no job.
THEOREM FailureCorrect == Spec => []FailureIsTerminal
<1>1. EndInv => FailureIsTerminal
  BY DEF EndInv, TerminalInv, FailureIsTerminal, Closing
<1> QED BY <1>1, EndInvariance, PTL

\* No fence changes its outcome: only the next fence to retire gets one.
THEOREM OutcomeCorrect == Spec => OutcomeIsFinal
<1>1. ASSUME EndInv, [Next]_vars, NEW c \in Client, NEW f \in Fence,
             outcome[c][f] # "pending"
      PROVE  outcome'[c][f] = outcome[c][f]
  <2>1. f <= queueState[c].retired
    BY <1>1 DEF EndInv, IInv, RetiredMeansResolved
  <2>2. \A d \in Client, r \in Result : Retired(d, r) =>
            outcome'[c][f] = outcome[c][f]
    <3> SUFFICES ASSUME NEW d \in Client, NEW r \in Result, Retired(d, r)
                 PROVE  outcome'[c][f] = outcome[c][f]
      OBVIOUS
    <3>1. c = d => f # queueState[d].retired + 1
      BY <1>1, <2>1, EndTypes, QueueLimits DEF EndInv, Fence
    <3> QED BY <1>1, <3>1, RetiredOutcome DEF EndInv
  <2>3. (\E d \in Client : Move(d)) \/ Elsewhere
    BY <1>1, StepMoves DEF EndInv
  <2>4. (\E d \in Client, r \in Result : Retired(d, r)) \/ UNCHANGED outcome
    BY <2>3 DEF Move, Started, Completed, Failed, CancelledByFailure,
       CancelledByFree, Queued, Configured, FreeBegun, Elsewhere, still, Result
  <2> QED BY <2>2, <2>4
<1>2. EndInv /\ [Next]_vars =>
          [\A c \in Client, f \in Fence :
               outcome[c][f] # "pending" => outcome'[c][f] = outcome[c][f]]_outcome
  BY <1>1
<1> QED BY <1>2, EndInvariance, PTL DEF Spec, OutcomeIsFinal

-----------------------------------------------------------------------------
(***************************************************************************)
(* The queue implements RenderTimeline.                                    *)
(***************************************************************************)
issuedBar == [c \in Client |-> queueState[c].next - 1]
retiredBar == [c \in Client |-> queueState[c].retired]
closedBar == [c \in Client |-> Closing(c)]

\* The functions of the mapping, changed at one client
LEMMA BarChanges ==
    ASSUME NEW c \in Client, OnlyAt(c, queueState, queueState')
    PROVE  /\ queueState'[c].next = queueState[c].next =>
                  UNCHANGED issuedBar
           /\ queueState'[c].retired = queueState[c].retired + 1 =>
                  retiredBar' = [retiredBar EXCEPT ![c] = @ + 1]
           /\ queueState'[c].retired = queueState[c].retired =>
                  UNCHANGED retiredBar
BY DEF issuedBar, retiredBar, OnlyAt

LEMMA TimelineRetires ==
    ASSUME EndInv, NEW c \in Client, NEW r \in Result, Retired(c, r),
           queueState'[c].retired = queueState[c].retired + 1,
           queueState'[c].next = queueState[c].next,
           queueState[c].retired + 1 < queueState[c].next
    PROVE  Timeline!Retire(c, r)
<1>1. queueState[c].retired < queueState[c].next - 1
  BY EndTypes DEF EndInv
<1>2. OnlyAt(c, queueState, queueState') /\ UNCHANGED phase
  BY DEF Retired
<1>3. /\ UNCHANGED issuedBar
      /\ retiredBar' = [retiredBar EXCEPT ![c] = @ + 1]
  BY <1>2, BarChanges
<1>4. UNCHANGED closedBar
  BY <1>2 DEF closedBar, Closing
<1>5. outcome' = [outcome EXCEPT ![c][queueState[c].retired + 1] = r]
  BY DEF Retired, Resolve
<1>6. issuedBar[c] = queueState[c].next - 1
      /\ retiredBar[c] = queueState[c].retired
  BY DEF issuedBar, retiredBar
<1>7. /\ retiredBar[c] < issuedBar[c]
      /\ outcome' = [outcome EXCEPT ![c][retiredBar[c] + 1] = r]
  BY <1>1, <1>5, <1>6
<1> QED BY <1>3, <1>4, <1>7
           DEF Timeline!Retire, issuedBar, retiredBar, closedBar

\* Every move is a step of the timeline, or none
LEMMA TimelineStep ==
    ASSUME EndInv, [Next]_vars
    PROVE  Timeline!Next \/ UNCHANGED Timeline!timeline
<1>1. ASSUME NEW c \in Client
      PROVE  /\ queueState[c] \in QueueState
             /\ closedBar[c] = Closing(c)
  BY <1>1, EndTypes DEF EndInv, closedBar
<1>2. ASSUME NEW c \in Client, Started(c)
      PROVE  UNCHANGED Timeline!timeline
  <2>1. OnlyAt(c, queueState, queueState')
        /\ UNCHANGED <<phase, queueLost, outcome>>
    BY <1>2 DEF Started, still
  <2>2. /\ queueState'[c].next = queueState[c].next
        /\ queueState'[c].retired = queueState[c].retired
    BY <1>1, <1>2, CoreFields DEF Started
  <2>3. UNCHANGED <<issuedBar, retiredBar, closedBar>>
    BY <2>1, <2>2, BarChanges DEF closedBar, Closing
  <2> QED BY <2>1, <2>3
             DEF Timeline!timeline, issuedBar, retiredBar, closedBar
<1>3. ASSUME NEW c \in Client, Completed(c)
      PROVE  Timeline!Complete(c)
  <2>1. /\ queueState'[c].next = queueState[c].next
        /\ queueState'[c].retired = queueState[c].retired + 1
    BY <1>1, <1>3, CoreFields DEF Completed
  <2>2. queueState[c].retired + 1 < queueState[c].next /\ ~queueLost[c]
    BY <1>3 DEF Completed, EndInv, IssuedInv, LostInv
  <2>3. Timeline!Retire(c, "complete")
    BY <1>3, <2>1, <2>2, TimelineRetires DEF Completed, Result
  <2> QED BY <1>3, <2>2, <2>3 DEF Timeline!Complete, Completed
<1>4. ASSUME NEW c \in Client, Failed(c)
      PROVE  Timeline!Fail(c)
  <2>1. /\ queueState'[c].next = queueState[c].next
        /\ queueState'[c].retired = queueState[c].retired + 1
    BY <1>1, <1>4, CoreFields DEF Failed
  <2>2. queueState[c].retired + 1 < queueState[c].next /\ ~queueLost[c]
    BY <1>4 DEF Failed, EndInv, IssuedInv, LostInv
  <2>3. Timeline!Retire(c, "failed")
    BY <1>4, <2>1, <2>2, TimelineRetires DEF Failed, Result
  <2> QED BY <1>4, <2>2, <2>3 DEF Timeline!Fail, Failed, LoseQueue
<1>5. ASSUME NEW c \in Client, CancelledByFailure(c)
      PROVE  Timeline!Cancel(c)
  <2>1. /\ queueState'[c].next = queueState[c].next
        /\ queueState'[c].retired = queueState[c].retired + 1
    BY <1>1, <1>5, CoreFields DEF CancelledByFailure
  <2>2. queueState[c].retired + 1 < queueState[c].next
    <3>1. queueState'[c].retired < queueState'[c].next
      BY <1>5, EndCancelledByFailure DEF IssuedInv
    <3> QED BY <2>1, <3>1
  <2>3. queueLost[c]
    BY <1>5 DEF CancelledByFailure, EndInv, LostInv
  <2>4. Timeline!Retire(c, "cancelled")
    BY <1>5, <2>1, <2>2, TimelineRetires DEF CancelledByFailure, Result
  <2> QED BY <1>5, <2>3, <2>4 DEF Timeline!Cancel, CancelledByFailure
<1>6. ASSUME NEW c \in Client, CancelledByFree(c)
      PROVE  Timeline!Cancel(c) \/ UNCHANGED Timeline!timeline
  <2>1. UNCHANGED <<phase, queueLost>> /\ Closing(c)
    BY <1>6 DEF CancelledByFree, Closing
  <2>2. CASE UNCHANGED <<queueState, outcome>>
    BY <2>1, <2>2 DEF Timeline!timeline, Closing
  <2>3. CASE /\ queueState'[c] = CancelQueuedRenderJob(queueState[c],
                                     queueState[c].retired + 1)
             /\ Retired(c, "cancelled")
    <3>1. /\ queueState'[c].next = queueState[c].next
          /\ queueState'[c].retired = queueState[c].retired + 1
      BY <1>1, <2>3, CoreFields
    <3>2. queueState[c].retired + 1 < queueState[c].next
      <4>1. queueState'[c].retired < queueState'[c].next
        BY <1>6, EndCancelledByFree DEF IssuedInv
      <4> QED BY <3>1, <4>1
    <3>3. Timeline!Retire(c, "cancelled")
      BY <2>3, <3>1, <3>2, TimelineRetires DEF Result
    <3>4. closedBar[c]
      BY <2>1 DEF closedBar
    <3> QED BY <2>1, <3>3, <3>4 DEF Timeline!Cancel, closedBar
  <2> QED BY <1>6, <2>2, <2>3 DEF CancelledByFree
<1>7. ASSUME NEW c \in Client, NEW s \in Seq(Job), Queued(c, s)
      PROVE  Timeline!Issue(c)
  <2>1. /\ OnlyAt(c, queueState, queueState')
        /\ UNCHANGED <<phase, queueLost, outcome>>
        /\ ~queueLost[c] /\ ~Closing(c)
    BY <1>7 DEF Queued, still, Closing
  <2>2. /\ queueState'[c].next = queueState[c].next + 1
        /\ queueState'[c].retired = queueState[c].retired
        /\ queueState[c].next \in Nat
    BY <1>1, <1>7, CoreFields DEF Queued
  <2>3. UNCHANGED <<retiredBar, closedBar>>
    BY <2>1, <2>2, BarChanges DEF closedBar, Closing
  <2>4. issuedBar' = [issuedBar EXCEPT ![c] = @ + 1]
    <3>1. queueState'[c].next - 1 = queueState[c].next - 1 + 1
      BY <2>2
    <3> QED BY <2>1, <3>1 DEF issuedBar, OnlyAt
  <2>5. ~closedBar[c]
    BY <2>1 DEF closedBar
  <2> QED BY <2>1, <2>3, <2>4, <2>5
             DEF Timeline!Issue, issuedBar, retiredBar, closedBar
<1>8. ASSUME NEW c \in Client, Configured(c)
      PROVE  Timeline!Configure(c)
  <2>1. /\ UNCHANGED <<phase, queueState, outcome>>
        /\ ~Closing(c)
        /\ OnlyAt(c, queueLost, queueLost') /\ ~queueLost'[c]
    BY <1>8 DEF Configured, Closing
  <2>2. queueLost' = [queueLost EXCEPT ![c] = FALSE]
    <3>1. /\ queueLost \in [Client -> BOOLEAN]
          /\ queueLost' \in [Client -> BOOLEAN]
      BY NextType DEF EndInv, IInv, TypeOK
    <3>2. queueLost'[c] = FALSE
      BY <2>1, <3>1
    <3> QED BY <2>1, <3>1, <3>2 DEF OnlyAt
  <2>3. queueState[c].retired = queueState[c].next - 1
    <3>1. Contiguous(queueState[c], fifo[c]) /\ ~queueState[c].running
      BY <1>8 DEF Configured, EndInv, IInv, TimelineInv
    <3>2. Len(fifo[c]) = 0
      BY <1>8, EmptySeq DEF Configured
    <3> QED BY <3>1, <3>2, EndTypes DEF Contiguous, EndInv
  <2>4. retiredBar[c] = issuedBar[c] /\ ~closedBar[c]
    BY <2>1, <2>3 DEF retiredBar, issuedBar, closedBar
  <2>5. UNCHANGED <<issuedBar, retiredBar, closedBar, outcome>>
    BY <2>1 DEF retiredBar, issuedBar, closedBar, Closing
  <2> QED BY <2>2, <2>4, <2>5
             DEF Timeline!Configure, issuedBar, retiredBar, closedBar
<1>9. ASSUME NEW c \in Client, FreeBegun(c)
      PROVE  Timeline!Close(c)
  <2>1. /\ UNCHANGED <<queueState, queueLost, outcome>>
        /\ OnlyAt(c, phase, phase') /\ phase'[c] = "cancelling"
    BY <1>9 DEF FreeBegun
  <2>2. closedBar' = [closedBar EXCEPT ![c] = TRUE]
    BY <2>1 DEF closedBar, Closing, OnlyAt
  <2>3. UNCHANGED <<issuedBar, retiredBar>>
    BY <2>1 DEF issuedBar, retiredBar
  <2> QED BY <2>1, <2>2, <2>3
             DEF Timeline!Close, issuedBar, retiredBar, closedBar
<1>10. ASSUME Elsewhere
       PROVE  UNCHANGED Timeline!timeline
  <2>1. /\ UNCHANGED <<queueState, queueLost, outcome>>
        /\ \A d \in Client : Closing(d)' <=> Closing(d)
    BY <1>10 DEF Elsewhere, still
  <2>2. \A d \in Client : Closing(d) \in BOOLEAN /\ Closing(d)' \in BOOLEAN
    BY DEF Closing
  <2>3. UNCHANGED closedBar
    BY <2>1, <2>2 DEF closedBar
  <2> QED BY <2>1, <2>3 DEF Timeline!timeline, closedBar
<1>11. (\E c \in Client : Move(c)) \/ Elsewhere
  BY StepMoves DEF EndInv
<1> QED BY <1>2, <1>3, <1>4, <1>5, <1>6, <1>7, <1>8, <1>9, <1>10, <1>11
           DEF Move, Timeline!Next

\* The queue implements the abstract timeline: fences are issued one by one,
\* end one by one in the same order, and after a failure nothing but
\* cancellation ends one before the next configure, for any number of clients
\* and threads, whatever the worker, the enqueuers and Free do in between.
THEOREM RefinementCorrect == Spec => ImplementsTimeline
<1>1. Init => Timeline!Init
  <2> SUFFICES ASSUME Init PROVE Timeline!Init
    OBVIOUS
  <2>1. [c \in Client |-> queueState[c].next - 1] = [c \in Client |-> 0]
    BY DEF Init, InitQueueState
  <2>2. [c \in Client |-> queueState[c].retired] = [c \in Client |-> 0]
    BY DEF Init, InitQueueState
  <2>3. [c \in Client |-> Closing(c)] = [c \in Client |-> FALSE]
    BY DEF Init, Closing
  <2> QED BY <2>1, <2>2, <2>3 DEF Init, Timeline!Init, Fence
<1>2. EndInv /\ [Next]_vars => [Timeline!Next]_Timeline!timeline
  BY TimelineStep
<1> QED BY <1>1, <1>2, EndInvariance, PTL
           DEF Spec, ImplementsTimeline, Timeline!Spec

-----------------------------------------------------------------------------
(***************************************************************************)
(* What the driver answers about a fence.                                  *)
(***************************************************************************)

\* A record of c tells how a retired fence ended
Truthful(c, r) ==
    r.fence \in 1..queueState[c].retired /\ r.result = outcome[c][r.fence]

\* The answer a thread holds was true when it was given, and still is unless
\* the client was configured since
Answered(c, th) ==
    th.result # "none" =>
        /\ th.fence \in 1..queueState[c].retired
        /\ th.fence > epoch[c] => th.result = outcome[c][th.fence]

\* Completion records tell the truth, and so do the answers given since the
\* latest configure; nobody is inside the driver for a client that is freed
AnswerInv ==
    /\ \A c \in Client : \A i \in 1..Len(records[c]) :
           Truthful(c, records[c][i])
    /\ \A t \in Thread :
           /\ thread[t].pc # "idle" => phase[Owner[t]] = "open"
           /\ thread[t].pc \in {"post", "asleep", "check"} =>
                  thread[t].result = "none"
           /\ thread[t].pc \in {"asleep", "check"} => thread[t].fence \in Fence
           /\ Answered(Owner[t], thread[t])

\* A retired fence stays retired and keeps its outcome
LEMMA RetiredForGood ==
    ASSUME EndInv, [Next]_vars, NEW c \in Client
    PROVE  /\ queueState[c].retired \in Nat /\ queueState'[c].retired \in Nat
           /\ queueState[c].retired <= queueState'[c].retired
           /\ queueState[c].retired <= LastFence
           /\ queueState'[c].retired <= LastFence
           /\ epoch[c] \in Nat /\ epoch'[c] \in Nat
           /\ epoch[c] <= epoch'[c]
           /\ \A f \in 1..queueState[c].retired :
                  /\ f \in Fence
                  /\ f \in 1..queueState'[c].retired
                  /\ outcome'[c][f] = outcome[c][f]
<1>1. /\ queueState[c] \in QueueState /\ queueState'[c] \in QueueState
      /\ epoch[c] \in Nat /\ epoch'[c] \in Nat
  BY NextType, QueueLimits DEF EndInv, IInv, TypeOK
<1>2. /\ queueState[c].retired \in Nat /\ queueState'[c].retired \in Nat
      /\ queueState[c].retired <= LastFence
      /\ queueState'[c].retired <= LastFence
  BY <1>1, QueueLimits DEF QueueState
<1>3. (\E d \in Client : Move(d)) \/ Elsewhere
  BY StepMoves DEF EndInv
<1>4. epoch[c] <= epoch'[c]
  <2>1. \A d \in Client : Configured(d) => epoch[c] <= epoch'[c]
    BY <1>1, <1>2 DEF Configured, OnlyAt, EndInv, LostInv
  <2>2. (\E d \in Client : Configured(d)) \/ UNCHANGED epoch
    BY <1>3 DEF Move, Started, Completed, Failed, CancelledByFailure,
       CancelledByFree, Queued, FreeBegun, Elsewhere, still, Retired
  <2> QED BY <1>1, <2>1, <2>2
<1>5. \A f \in 1..queueState[c].retired :
          f \in Fence /\ outcome[c][f] # "pending"
  BY <1>2, QueueLimits DEF Fence, EndInv, IInv, RetiredMeansResolved
<1>6. \A f \in 1..queueState[c].retired : outcome'[c][f] = outcome[c][f]
  <2> SUFFICES ASSUME NEW f \in 1..queueState[c].retired
               PROVE  outcome'[c][f] = outcome[c][f]
    OBVIOUS
  <2>1. \A d \in Client, r \in Result : Retired(d, r) =>
            outcome'[c][f] = outcome[c][f]
    BY <1>2, <1>5, RetiredOutcome DEF EndInv
  <2>2. (\E d \in Client, r \in Result : Retired(d, r)) \/ UNCHANGED outcome
    BY <1>3 DEF Move, Started, Completed, Failed, CancelledByFailure,
       CancelledByFree, Queued, Configured, FreeBegun, Elsewhere, still, Result
  <2> QED BY <2>1, <2>2
<1>7. queueState[c].retired <= queueState'[c].retired
  <2>1. EndInv'
    BY EndNext
  <2>2. CASE queueState[c].retired = 0
    BY <1>2, <2>2
  <2>3. CASE queueState[c].retired # 0
    <3>1. /\ queueState[c].retired \in Fence
          /\ outcome'[c][queueState[c].retired] # "pending"
      BY <1>2, <1>5, <1>6, <2>3
    <3> QED BY <2>1, <3>1 DEF EndInv, IInv, RetiredMeansResolved
  <2> QED BY <2>2, <2>3
<1> QED BY <1>1, <1>2, <1>4, <1>5, <1>6, <1>7

\* What is true of the records and answers stays true
LEMMA TruthStays ==
    ASSUME EndInv, [Next]_vars, NEW c \in Client, NEW x
    PROVE  /\ Truthful(c, x) =>
                  /\ x.fence \in 1..queueState'[c].retired
                  /\ x.result = outcome'[c][x.fence]
           /\ Answered(c, x) =>
                  (x.result # "none" =>
                      /\ x.fence \in 1..queueState'[c].retired
                      /\ x.fence > epoch'[c] =>
                             x.result = outcome'[c][x.fence])
<1>1. Truthful(c, x) => /\ x.fence \in 1..queueState'[c].retired
                        /\ x.result = outcome'[c][x.fence]
  BY RetiredForGood DEF Truthful
<1>2. ASSUME Answered(c, x), x.result # "none"
      PROVE  /\ x.fence \in 1..queueState'[c].retired
             /\ x.fence > epoch'[c] => x.result = outcome'[c][x.fence]
  <2>1. x.fence \in 1..queueState[c].retired /\ x.fence \in Nat
    BY <1>2, RetiredForGood DEF Answered
  <2>2. x.fence > epoch'[c] => x.fence > epoch[c]
    BY <2>1, RetiredForGood
  <2> QED BY <1>2, <2>1, <2>2, RetiredForGood DEF Answered
<1> QED BY <1>1, <1>2

LEMMA PrunedTruth ==
    ASSUME NEW s \in Seq(Record)
    PROVE  /\ Pruned(s) \in Seq(Record)
           /\ \A i \in 1..Len(Pruned(s)) :
                  \E j \in 1..Len(s) : Pruned(s)[i] = s[j]
<1>1. CASE Len(s) < MaxRecords \/ s = <<>>
  BY <1>1 DEF Pruned
<1>2. CASE ~(Len(s) < MaxRecords \/ s = <<>>)
  <2>1. /\ Tail(s) \in Seq(Record)
        /\ Len(Tail(s)) = Len(s) - 1
        /\ Len(s) \in Nat
        /\ \A i \in 1..Len(Tail(s)) : Tail(s)[i] = s[i + 1]
    BY <1>2, HeadTailProperties, LenProperties
  <2>2. \A i \in 1..Len(Tail(s)) : i + 1 \in 1..Len(s)
    BY <2>1
  <2> QED BY <1>2, <2>1, <2>2 DEF Pruned
<1> QED BY <1>1, <1>2

\* The records of one client in a step
RecordMove(c) ==
    \/ records'[c] = records[c]
    \/ records'[c] = <<>>
    \/ records[c] # <<>> /\ records'[c] = Tail(records[c])
    \/ \E r \in Result, allocated \in BOOLEAN :
           /\ outcome'[c][queueState[c].retired + 1] = r
           /\ queueState'[c].retired = queueState[c].retired + 1
           /\ queueState[c].retired + 1 \in Fence
           /\ records'[c] =
                  IF allocated
                  THEN Append(Pruned(records[c]),
                           [fence |-> queueState[c].retired + 1, result |-> r])
                  ELSE Pruned(records[c])

LEMMA AppendMove ==
    ASSUME EndInv, NEW c \in Client, NEW r \in Result, Retired(c, r),
           queueState'[c].retired = queueState[c].retired + 1,
           NEW job, job.fence = queueState[c].retired + 1,
           NEW allocated \in BOOLEAN, AppendCompletion(c, job, r, allocated)
    PROVE  \A d \in Client : RecordMove(d)
<1>1. outcome'[c][queueState[c].retired + 1] = r
      /\ queueState[c].retired + 1 \in Fence
  BY RetiredOutcome DEF EndInv, Retired
<1>2. records \in [Client -> Seq(Record)]
  BY DEF EndInv, IInv, TypeOK
<1>3. /\ \A d \in Client : d # c => records'[d] = records[d]
      /\ records'[c] =
             IF allocated
             THEN Append(Pruned(records[c]),
                      [fence |-> queueState[c].retired + 1, result |-> r])
             ELSE Pruned(records[c])
  BY <1>2 DEF AppendCompletion
<1> QED BY <1>1, <1>3 DEF RecordMove

LEMMA RecordMoves ==
    ASSUME EndInv, [Next]_vars
    PROVE  \A c \in Client : RecordMove(c)
<1> DEFINE w == worker.client
<1>0. /\ \A c \in Client : queueState[c] \in QueueState
      /\ RecordAllocated \subseteq BOOLEAN
      /\ records \in [Client -> Seq(Record)]
  BY QueueConstants DEF EndInv, IInv, TypeOK
<1>1. CASE CompleteJob
  <2>1. w \in Client /\ worker.job.fence = queueState[w].retired + 1
    BY <1>1, SettleFacts DEF CompleteJob, EndInv
  <2>2. Completed(w)
    BY <1>1, SettledStep DEF EndInv
  <2>3. Retired(w, "complete")
        /\ queueState'[w].retired = queueState[w].retired + 1
    BY <1>0, <2>1, <2>2, CoreFields DEF Completed
  <2>4. \E a \in BOOLEAN : AppendCompletion(w, worker.job, "complete", a)
    BY <1>0, <1>1 DEF CompleteJob
  <2> QED BY <2>1, <2>3, <2>4, AppendMove DEF Result
<1>2. CASE FailJob
  <2>1. w \in Client /\ worker.job.fence = queueState[w].retired + 1
    BY <1>2, SettleFacts DEF FailJob, EndInv
  <2>2. Failed(w)
    BY <1>2, SettledStep DEF EndInv
  <2>3. Retired(w, "failed")
        /\ queueState'[w].retired = queueState[w].retired + 1
    BY <1>0, <2>1, <2>2, CoreFields DEF Failed
  <2>4. \E a \in BOOLEAN : AppendCompletion(w, worker.job, "failed", a)
    BY <1>0, <1>2 DEF FailJob
  <2> QED BY <2>1, <2>3, <2>4, AppendMove DEF Result
<1>3. CASE CancelJob
  <2>1. w \in Client /\ CancelledByFailure(w)
    BY <1>3, CancelledStep DEF EndInv
  <2>2. Retired(w, "cancelled")
        /\ queueState'[w].retired = queueState[w].retired + 1
    BY <1>0, <2>1, CoreFields DEF CancelledByFailure
  <2>3. Head(worker.todo).fence = queueState[w].retired + 1
    <3>1. /\ Contiguous(queueState[w], worker.todo) /\ ~queueState[w].running
          /\ worker.todo \in Seq(Job) /\ worker.todo # <<>>
      BY <2>1, EndTypes DEF EndInv, IInv, TimelineInv, CancelledByFailure
    <3> QED BY <1>0, <2>1, <3>1, ContiguousCancel
  <2>4. \E a \in BOOLEAN :
            AppendCompletion(w, Head(worker.todo), "cancelled", a)
    BY <1>0, <1>3 DEF CancelJob
  <2> QED BY <2>1, <2>2, <2>3, <2>4, AppendMove DEF Result
<1>4. ASSUME NEW t \in Thread, DequeueRenderCompletion(t)
      PROVE  \A c \in Client : RecordMove(c)
  <2>1. /\ records[Owner[t]] # <<>>
        /\ records' = [records EXCEPT ![Owner[t]] = Tail(@)]
    BY <1>4 DEF DequeueRenderCompletion
  <2> QED BY <1>0, <2>1 DEF RecordMove
<1>5. ASSUME NEW c \in Client, UnlinkClient(c)
      PROVE  \A d \in Client : RecordMove(d)
  <2>1. records' = [records EXCEPT ![c] = <<>>]
    BY <1>5 DEF UnlinkClient
  <2> QED BY <1>0, <2>1 DEF RecordMove
<1>6. ASSUME UNCHANGED records
      PROVE  \A c \in Client : RecordMove(c)
  BY <1>6 DEF RecordMove
<1> HIDE DEF w
<1>7. CASE WorkerStep
  <2>1. UNCHANGED records \/ CompleteJob \/ FailJob \/ CancelJob
    BY <1>7 DEF WorkerStep, AcquireQueueSem, SelectNothing, StartJob,
       ExecuteJob, CancelDone, DropCancelled, NotifyCompletion, FinishJob,
       WakeFree, signalVars
  <2> QED BY <1>1, <1>2, <1>3, <1>6, <2>1
<1>8. ASSUME NEW t \in Thread, Call(t) \/ ThreadStep(t) \/ GiveUp(t)
      PROVE  UNCHANGED records \/ DequeueRenderCompletion(t)
  BY <1>8 DEF Call, ThreadStep, GiveUp, ConfigureRenderQueue, AppendJob,
     EnqueueRenderCommands, EnqueueRenderDirectPresent, WaitRenderQueueFence,
     LookUpFence, PostJob, AcquireCompletion, CheckAgain, DrainToken,
     signalVars
<1>9. ASSUME NEW c \in Client,
             OpenClient(c) \/ ClientCall(c) \/ BeginFree(c) \/ FreeStep(c)
      PROVE  UNCHANGED records \/ UnlinkClient(c)
  BY <1>9 DEF OpenClient, ClientCall, BeginFree, FreeStep, CreateRenderBuffer,
     CloseRenderBuffer, SelectRenderQueue, DeselectRenderQueue, CancelAtFree,
     CancelAtFreeDone, DropAtFree, AwaitIdle, signalVars
<1>10. CASE ShutdownRenderQueue \/ UNCHANGED vars
  BY <1>6, <1>10 DEF ShutdownRenderQueue, vars, signalVars
<1> QED BY <1>4, <1>5, <1>6, <1>7, <1>8, <1>9, <1>10 DEF Next

LEMMA RecordsStayTrue ==
    ASSUME EndInv, AnswerInv, [Next]_vars, NEW c \in Client,
           NEW i \in 1..Len(records'[c])
    PROVE  Truthful(c, records[c][i])'
<1>1. /\ records[c] \in Seq(Record) /\ Len(records[c]) \in Nat
      /\ \A j \in 1..Len(records[c]) :
             /\ records[c][j].fence \in 1..queueState'[c].retired
             /\ records[c][j].result = outcome'[c][records[c][j].fence]
  <2>1. records[c] \in Seq(Record)
    BY DEF EndInv, IInv, TypeOK
  <2> QED BY <2>1, TruthStays, LenProperties DEF AnswerInv
<1>2. RecordMove(c)
  BY RecordMoves
<1>3. CASE records'[c] = records[c]
  BY <1>1, <1>3 DEF Truthful
<1>4. CASE records'[c] = <<>>
  <2>1. Len(<<>>) = 0
    BY EmptySeq
  <2> QED BY <1>4, <2>1
<1>5. CASE records[c] # <<>> /\ records'[c] = Tail(records[c])
  <2>1. /\ records'[c][i] = records[c][i + 1]
        /\ i + 1 \in 1..Len(records[c])
    BY <1>1, <1>5, HeadTailProperties
  <2> QED BY <1>1, <2>1 DEF Truthful
<1>6. ASSUME NEW r \in Result, NEW allocated \in BOOLEAN,
             outcome'[c][queueState[c].retired + 1] = r,
             queueState'[c].retired = queueState[c].retired + 1,
             queueState[c].retired + 1 \in Fence,
             records'[c] =
                 IF allocated
                 THEN Append(Pruned(records[c]),
                          [fence |-> queueState[c].retired + 1, result |-> r])
                 ELSE Pruned(records[c])
      PROVE  Truthful(c, records[c][i])'
  <2> DEFINE new == [fence |-> queueState[c].retired + 1, result |-> r]
             p == Pruned(records[c])
  <2>1. new \in Record
    BY <1>6 DEF Record, Fence
  <2>2. p \in Seq(Record) /\ Len(p) \in Nat
        /\ \A k \in 1..Len(p) : \E j \in 1..Len(records[c]) :
               p[k] = records[c][j]
    BY <1>1, PrunedTruth, LenProperties
  <2>3. /\ new.fence \in 1..queueState'[c].retired
        /\ new.result = outcome'[c][new.fence]
    BY <1>6, RetiredForGood
  <2> HIDE DEF new, p
  <2>4. /\ Len(Append(p, new)) = Len(p) + 1
        /\ \A k \in 1..Len(p) : Append(p, new)[k] = p[k]
        /\ Append(p, new)[Len(p) + 1] = new
    BY <2>1, <2>2, AppendProperties
  <2>5. CASE allocated
    <3>1. records'[c] = Append(p, new)
      BY <1>6, <2>5 DEF p, new
    <3>2. i \in 1..Len(p) \/ i = Len(p) + 1
      BY <2>2, <2>4, <3>1
    <3> QED BY <1>1, <2>2, <2>3, <2>4, <3>1, <3>2 DEF Truthful
  <2>6. CASE ~allocated
    <3>1. records'[c] = p
      BY <1>6, <2>6 DEF p
    <3> QED BY <1>1, <2>2, <3>1 DEF Truthful
  <2> QED BY <2>5, <2>6
<1> QED BY <1>2, <1>3, <1>4, <1>5, <1>6 DEF RecordMove

\* What FindFenceLocked answers is true: it reads a record, or deduces the
\* outcome from the last failure
LEMMA FoundTruth ==
    ASSUME EndInv, AnswerInv, NEW c \in Client, phase[c] = "open",
           NEW f \in Fence, FenceFound(c, f)
    PROVE  /\ FenceResult(c, f) # "none"
           /\ f \in 1..queueState[c].retired
           /\ f > epoch[c] => FenceResult(c, f) = outcome[c][f]
<1>1. /\ records[c] \in Seq(Record)
      /\ DOMAIN records[c] = 1..Len(records[c])
      /\ f \in Nat /\ f # 0
  BY LenProperties, QueueLimits DEF EndInv, IInv, TypeOK, Fence
<1>2. CASE RecordedFence(c, f) # {}
  <2> DEFINE i == CHOOSE j \in RecordedFence(c, f) : TRUE
  <2>1. i \in RecordedFence(c, f)
    BY <1>2
  <2> HIDE DEF i
  <2>2. i \in 1..Len(records[c]) /\ records[c][i].fence = f
    BY <1>1, <2>1 DEF RecordedFence
  <2>3. FenceResult(c, f) = records[c][i].result
    BY <1>2 DEF FenceResult, i
  <2>4. records[c][i].result \in Result
    <3>1. records[c][i] \in Record
      BY <1>1, <2>2, ElementOfSeq
    <3> QED BY <3>1 DEF Record
  <2> QED BY <2>2, <2>3, <2>4 DEF AnswerInv, Truthful, Result
<1>3. CASE RecordedFence(c, f) = {}
  <2>1. f <= queueState[c].retired
    BY <1>3 DEF FenceFound, RenderFenceIsRetired
  <2>2. f \in 1..queueState[c].retired
    BY <1>1, <2>1, EndTypes DEF EndInv
  <2>3. FenceResult(c, f) = IF lastFailed[c] = 0 \/ f < lastFailed[c]
                            THEN "complete"
                            ELSE IF f = lastFailed[c] THEN "failed"
                            ELSE "cancelled"
    BY <1>3 DEF FenceResult
  <2>4. queueLost[c] <=> lastFailed[c] # 0
    BY DEF EndInv, LostInv
  <2>5. epoch[c] < f => outcome[c][f] = FenceResult(c, f)
    BY <2>1, <2>3, <2>4 DEF EndInv, TerminalInv, Closing
  <2>6. f > epoch[c] => epoch[c] < f
    BY <1>1, EndTypes DEF EndInv
  <2> QED BY <2>2, <2>3, <2>5, <2>6
<1> QED BY <1>2, <1>3

\* What a step may do to a thread that works on c
ThreadMove(c, old, new) ==
    \/ new = old
    \/ new.pc = "idle" /\ new.result = "none"
    \/ new.pc = "post" /\ new.result = "none" /\ phase[c] = "open"
    \/ \E f \in Fence :
           /\ phase[c] = "open"
           /\ new.fence = f
           /\ \/ new.pc = "asleep" /\ new.result = "none"
              \/ /\ new.pc = "idle" /\ new.result = FenceResult(c, f)
                 /\ FenceFound(c, f)
    \/ /\ old.pc = "asleep" /\ new.pc = "check"
       /\ new.fence = old.fence /\ new.result = old.result
    \/ /\ phase[c] = "open" /\ records[c] # <<>>
       /\ new.pc = "drain"
       /\ new.fence = Head(records[c]).fence
       /\ new.result = Head(records[c]).result
    \/ /\ old.pc = "drain" /\ new.pc = "idle"
       /\ new.fence = old.fence /\ new.result = old.result

LEMMA LookUpMove ==
    ASSUME IInv, NEW t \in Thread, phase[Owner[t]] = "open", NEW f \in Fence,
           LookUpFence(t, f)
    PROVE  ThreadMove(Owner[t], thread[t], thread'[t])
<1>1. thread'[t] =
           IF FenceFound(Owner[t], f)
           THEN [pc |-> "idle", fence |-> f,
                 result |-> FenceResult(Owner[t], f)]
           ELSE IF f >= queueState[Owner[t]].next THEN IdleThread
           ELSE [pc |-> "asleep", fence |-> f, result |-> "none"]
  BY DEF LookUpFence, IInv, TypeOK
<1> QED BY <1>1 DEF ThreadMove, IdleThread

LEMMA ThreadMoves ==
    ASSUME EndInv, AnswerInv, [Next]_vars, NEW t \in Thread
    PROVE  ThreadMove(Owner[t], thread[t], thread'[t])
<1> DEFINE M(u) == ThreadMove(Owner[u], thread[u], thread'[u])
<1>0. thread \in [Thread -> ThreadState] /\ EndInv /\ IInv
      /\ \A u \in Thread : thread[u] \in ThreadState
  BY DEF EndInv, IInv, TypeOK
<1>1. ASSUME UNCHANGED thread PROVE M(t)
  BY <1>1 DEF ThreadMove
<1>2. ASSUME NEW u \in Thread, NEW th, thread' = [thread EXCEPT ![u] = th],
             ThreadMove(Owner[u], thread[u], th)
      PROVE  M(t)
  <2>1. t # u => thread'[t] = thread[t]
    BY <1>0, <1>2
  <2>2. t = u => thread'[t] = th
    BY <1>0, <1>2
  <2> QED BY <1>2, <2>1, <2>2 DEF ThreadMove
<1>3. CASE \E u \in Thread : PostJob(u) \/ GiveUp(u)
  <2> PICK u \in Thread : PostJob(u) \/ GiveUp(u)
    BY <1>3
  <2>1. thread' = [thread EXCEPT ![u] = IdleThread]
    BY DEF PostJob, GiveUp
  <2>2. ThreadMove(Owner[u], thread[u], IdleThread)
    BY DEF ThreadMove, IdleThread
  <2> QED BY <1>2, <2>1, <2>2
<1>4. CASE \E u \in Thread, f \in Fence : Calls(u) /\ LookUpFence(u, f)
  <2> PICK u \in Thread, f \in Fence : Calls(u) /\ LookUpFence(u, f)
    BY <1>4
  <2>1. ThreadMove(Owner[u], thread[u], thread'[u])
    BY <1>0, LookUpMove DEF Calls
  <2>2. t # u => thread'[t] = thread[t]
    BY <1>0 DEF LookUpFence
  <2> QED BY <2>1, <2>2 DEF ThreadMove
<1>5. CASE \E u \in Thread : CheckAgain(u)
  <2> PICK u \in Thread : CheckAgain(u)
    BY <1>5
  <2>0. thread[u].fence \in Fence /\ phase[Owner[u]] = "open"
    BY DEF CheckAgain, AnswerInv
  <2>1. ThreadMove(Owner[u], thread[u], thread'[u])
    BY <1>0, <2>0, LookUpMove DEF CheckAgain
  <2>2. t # u => thread'[t] = thread[t]
    BY <1>0 DEF CheckAgain, LookUpFence
  <2> QED BY <2>1, <2>2 DEF ThreadMove
<1>6. CASE \E u \in Thread : AcquireCompletion(u) \/ DrainToken(u)
  <2> PICK u \in Thread : AcquireCompletion(u) \/ DrainToken(u)
    BY <1>6
  <2>1. \/ /\ thread[u].pc = "asleep"
           /\ thread' = [thread EXCEPT ![u].pc = "check"]
        \/ /\ thread[u].pc = "drain"
           /\ thread' = [thread EXCEPT ![u].pc = "idle"]
    BY DEF AcquireCompletion, DrainToken
  <2>2. ThreadMove(Owner[u], thread[u], thread'[u])
    BY <1>0, <2>1 DEF ThreadMove, ThreadState
  <2>3. t # u => thread'[t] = thread[t]
    BY <1>0, <2>1
  <2> QED BY <2>2, <2>3 DEF ThreadMove
<1>7. CASE \E u \in Thread : DequeueRenderCompletion(u)
  <2> PICK u \in Thread : DequeueRenderCompletion(u)
    BY <1>7
  <2> DEFINE th == [pc |-> "drain", fence |-> Head(records[Owner[u]]).fence,
                    result |-> Head(records[Owner[u]]).result]
  <2>1. /\ phase[Owner[u]] = "open" /\ records[Owner[u]] # <<>>
        /\ thread' = [thread EXCEPT ![u] = th]
    BY DEF DequeueRenderCompletion, Calls
  <2>2. ThreadMove(Owner[u], thread[u], th)
    BY <2>1 DEF ThreadMove
  <2> QED BY <1>2, <2>1, <2>2
<1>8. CASE \E u \in Thread : Calls(u) /\
               \E k, s, n : AppendJob(u, k, s, n)
  <2> PICK u \in Thread : Calls(u) /\ \E k, s, n : AppendJob(u, k, s, n)
    BY <1>8
  <2> DEFINE th == [IdleThread EXCEPT !.pc = "post"]
  <2>1. phase[Owner[u]] = "open" /\ thread' = [thread EXCEPT ![u] = th]
    BY DEF AppendJob, Calls
  <2>2. ThreadMove(Owner[u], thread[u], th)
    BY <2>1 DEF ThreadMove, IdleThread
  <2> QED BY <1>2, <2>1, <2>2
<1>9. CASE WorkerStep
  <2>1. UNCHANGED thread
    BY <1>9 DEF WorkerStep, AcquireQueueSem, SelectNothing, StartJob,
       ExecuteJob, CompleteJob, FailJob, CancelJob, CancelDone, DropCancelled,
       NotifyCompletion, FinishJob, WakeFree
  <2> QED BY <1>1, <2>1
<1>10. ASSUME NEW u \in Thread, Call(u) \/ ThreadStep(u) \/ GiveUp(u)
       PROVE  M(t)
  <2>1. CASE Call(u)
    <3>1. \/ UNCHANGED thread
          \/ \E f \in Fence : Calls(u) /\ LookUpFence(u, f)
          \/ DequeueRenderCompletion(u)
          \/ Calls(u) /\ \E k, s, n : AppendJob(u, k, s, n)
      BY <2>1 DEF Call, ConfigureRenderQueue, EnqueueRenderCommands,
         EnqueueRenderDirectPresent, WaitRenderQueueFence
    <3> QED BY <1>1, <1>4, <1>7, <1>8, <3>1
  <2> QED BY <1>3, <1>5, <1>6, <1>10, <2>1 DEF ThreadStep
<1>11. ASSUME NEW c \in Client,
              OpenClient(c) \/ ClientCall(c) \/ BeginFree(c) \/ FreeStep(c)
       PROVE  M(t)
  <2>1. UNCHANGED thread
    BY <1>11 DEF OpenClient, ClientCall, BeginFree, FreeStep,
       CreateRenderBuffer, CloseRenderBuffer, SelectRenderQueue,
       DeselectRenderQueue, CancelAtFree, CancelAtFreeDone, DropAtFree,
       AwaitIdle, UnlinkClient
  <2> QED BY <1>1, <2>1
<1>12. CASE ShutdownRenderQueue \/ UNCHANGED vars
  BY <1>1, <1>12 DEF ShutdownRenderQueue, vars
<1>13. M(t)
  BY <1>9, <1>10, <1>11, <1>12 DEF Next
<1> QED BY <1>13 DEF M

\* A thread inside the driver keeps its client open: Free waits for the last
\* call to return
LEMMA InsideKeepsOpen ==
    ASSUME EndInv, AnswerInv, [Next]_vars, NEW t \in Thread,
           phase[Owner[t]] = "open"
    PROVE  \/ phase'[Owner[t]] = "open"
           \/ thread'[t] = thread[t] /\ thread[t].pc = "idle"
<1> DEFINE c == Owner[t]
<1>1. c \in Client /\ phase \in [Client -> Phase]
  BY QueueConstants DEF EndInv, IInv, TypeOK
<1>2. ASSUME NEW d \in Client, BeginFree(d)
      PROVE  \/ phase'[c] = "open"
             \/ thread'[t] = thread[t] /\ thread[t].pc = "idle"
  <2>1. /\ \A u \in Thread : Owner[u] = d => thread[u].pc = "idle"
        /\ phase' = [phase EXCEPT ![d] = "cancelling"]
        /\ UNCHANGED thread
    BY <1>2 DEF BeginFree
  <2>2. CASE d = c
    BY <2>1, <2>2
  <2>3. CASE d # c
    BY <1>1, <2>1, <2>3
  <2> QED BY <2>2, <2>3
<1>3. ASSUME NEW d \in Client, OpenClient(d) \/ FreeStep(d)
      PROVE  phase'[c] = "open"
  BY <1>1, <1>3 DEF OpenClient, FreeStep, CancelAtFree, CancelAtFreeDone,
     DropAtFree, AwaitIdle, UnlinkClient
<1>4. ASSUME WorkerStep
      PROVE  UNCHANGED phase
  BY <1>4 DEF WorkerStep, AcquireQueueSem, SelectNothing, StartJob,
     ExecuteJob, CompleteJob, FailJob, CancelJob, CancelDone, DropCancelled,
     NotifyCompletion, FinishJob, WakeFree, clientVars
<1>5. ASSUME NEW u \in Thread, Call(u)
      PROVE  UNCHANGED phase
  BY <1>5 DEF Call, ConfigureRenderQueue, EnqueueRenderCommands, AppendJob,
     EnqueueRenderDirectPresent, WaitRenderQueueFence, LookUpFence,
     DequeueRenderCompletion, clientVars
<1>6. ASSUME \/ \E u \in Thread : ThreadStep(u) \/ GiveUp(u)
             \/ \E d \in Client : ClientCall(d)
             \/ ShutdownRenderQueue
             \/ UNCHANGED vars
      PROVE  UNCHANGED phase
  BY <1>6, QuietCalls DEF clientVars
<1>7. UNCHANGED phase => phase'[c] = "open"
  OBVIOUS
<1> HIDE DEF c
<1>8. \/ phase'[c] = "open"
      \/ thread'[t] = thread[t] /\ thread[t].pc = "idle"
  BY <1>2, <1>3, <1>4, <1>5, <1>6, <1>7 DEF Next
<1> QED BY <1>8 DEF c

LEMMA AnswerNext ==
    ASSUME EndInv, AnswerInv, [Next]_vars
    PROVE  AnswerInv'
<1>1. ASSUME NEW t \in Thread
      PROVE  /\ thread'[t].pc # "idle" => phase'[Owner[t]] = "open"
             /\ thread'[t].pc \in {"post", "asleep", "check"} =>
                    thread'[t].result = "none"
             /\ thread'[t].pc \in {"asleep", "check"} =>
                    thread'[t].fence \in Fence
             /\ Answered(Owner[t], thread[t])'
  <2> DEFINE c == Owner[t]
  <2>1. c \in Client
    BY QueueConstants
  <2>2. ThreadMove(c, thread[t], thread'[t])
    BY ThreadMoves
  <2>3. /\ thread[t].pc # "idle" => phase[c] = "open"
        /\ thread[t].pc \in {"post", "asleep", "check"} =>
               thread[t].result = "none"
        /\ thread[t].pc \in {"asleep", "check"} => thread[t].fence \in Fence
        /\ Answered(c, thread[t])
    BY DEF AnswerInv
  <2>4. thread'[t].pc # "idle" => phase'[c] = "open"
    BY <2>2, <2>3, InsideKeepsOpen DEF ThreadMove
  <2>5. /\ thread'[t].pc \in {"post", "asleep", "check"} =>
               thread'[t].result = "none"
        /\ thread'[t].pc \in {"asleep", "check"} => thread'[t].fence \in Fence
    BY <2>2, <2>3 DEF ThreadMove
  <2>6. Answered(c, thread'[t])
    <3>1. CASE thread'[t].result = "none"
      BY <3>1 DEF Answered
    <3>2. CASE /\ thread'[t].fence = thread[t].fence
               /\ thread'[t].result = thread[t].result
      BY <2>3, <3>2 DEF Answered
    <3>3. ASSUME NEW f \in Fence, phase[c] = "open", thread'[t].fence = f,
                 thread'[t].result = FenceResult(c, f), FenceFound(c, f)
          PROVE  Answered(c, thread'[t])
      BY <2>1, <3>3, FoundTruth DEF Answered
    <3>4. CASE /\ records[c] # <<>>
               /\ thread'[t].fence = Head(records[c]).fence
               /\ thread'[t].result = Head(records[c]).result
      <4>1. /\ Head(records[c]) = records[c][1]
            /\ 1 \in 1..Len(records[c])
        <5>1. records[c] \in Seq(Record)
          BY <2>1 DEF EndInv, IInv, TypeOK
        <5>2. Len(records[c]) \in Nat /\ Len(records[c]) # 0
          BY <3>4, <5>1, EmptySeq, LenProperties
        <5> QED BY <3>4, <5>1, <5>2, HeadTailProperties
      <4>2. Truthful(c, records[c][1])
        BY <2>1, <4>1 DEF AnswerInv
      <4> QED BY <3>4, <4>1, <4>2 DEF Answered, Truthful
    <3> QED BY <2>2, <3>1, <3>2, <3>3, <3>4 DEF ThreadMove
  <2>7. Answered(c, thread[t])'
    <3>1. thread'[t].result # "none" =>
              /\ thread'[t].fence \in 1..queueState'[c].retired
              /\ thread'[t].fence > epoch'[c] =>
                     thread'[t].result = outcome'[c][thread'[t].fence]
      BY <2>1, <2>6, TruthStays
    <3> QED BY <3>1 DEF Answered
  <2> QED BY <2>4, <2>5, <2>7
<1>2. \A c \in Client : \A i \in 1..Len(records'[c]) :
          Truthful(c, records[c][i])'
  BY RecordsStayTrue
<1> QED BY <1>1, <1>2 DEF AnswerInv

LEMMA AnswerInit == Init => AnswerInv
<1> SUFFICES ASSUME Init PROVE AnswerInv
  OBVIOUS
<1>1. \A c \in Client : Len(records[c]) = 0
  BY EmptySeq DEF Init
<1>2. \A t \in Thread : thread[t] = IdleThread
  BY DEF Init
<1> QED BY <1>1, <1>2 DEF AnswerInv, Answered, IdleThread

\* What a wait reports, or a dequeued record, is how the fence ended, also when
\* the record was pruned or dequeued by somebody else and the outcome is
\* deduced from the last failure; fences older than the latest configure are
\* excluded (of these the driver may report a success that was none).
THEOREM AnswersCorrect == Spec => []AnswersAreTrueSinceConfigure
<1>1. EndInv /\ AnswerInv => AnswersAreTrueSinceConfigure
  BY DEF AnswerInv, Answered, AnswersAreTrueSinceConfigure
<1>2. EndInv /\ AnswerInv /\ [Next]_vars => AnswerInv'
  BY AnswerNext
<1> QED BY <1>1, <1>2, AnswerInit, EndInvariance, PTL DEF Spec

-----------------------------------------------------------------------------
(***************************************************************************)
(* Superseded presents.                                                    *)
(***************************************************************************)

\* Dropped jobs are presents; presents have a stream and commands have none
PresentInv ==
    /\ \A c \in Client : \A i \in 1..Len(fifo[c]) :
           /\ fifo[c][i].kind = "present" <=> fifo[c][i].stream # 0
           /\ fifo[c][i].drop => fifo[c][i].kind = "present"
           /\ fifo[c][i].kind = "present" =>
                  (fifo[c][i].drop <=>
                      \E j \in 1..Len(fifo[c]) :
                          j > i /\ fifo[c][j].stream = fifo[c][i].stream)
    /\ worker.pc = "execute" /\ worker.job.drop =>
           \/ phase[worker.client] # "open"
           \/ \E j \in 1..Len(fifo[worker.client]) :
                  fifo[worker.client][j].stream = worker.job.stream

\* The first part of it for one FIFO
FifoPresents(s) ==
    \A i \in 1..Len(s) :
        /\ s[i].kind = "present" <=> s[i].stream # 0
        /\ s[i].drop => s[i].kind = "present"
        /\ s[i].kind = "present" =>
               (s[i].drop <=> \E j \in 1..Len(s) :
                                  j > i /\ s[j].stream = s[i].stream)

LEMMA PresentsTail ==
    ASSUME NEW s \in Seq(Job), s # <<>>, FifoPresents(s)
    PROVE  /\ FifoPresents(Tail(s))
           /\ Head(s).drop => \E j \in 1..Len(Tail(s)) :
                                  Tail(s)[j].stream = Head(s).stream
<1>1. /\ Len(s) \in Nat \ {0} /\ Head(s) = s[1]
      /\ Len(Tail(s)) = Len(s) - 1
      /\ \A i \in 1..Len(Tail(s)) :
             Tail(s)[i] = s[i + 1] /\ i + 1 \in 1..Len(s)
      /\ \A j \in 1..Len(s) : j > 1 =>
             j - 1 \in 1..Len(Tail(s)) /\ Tail(s)[j - 1] = s[j]
  <2>1. /\ Len(s) \in Nat /\ Len(s) # 0
        /\ Head(s) = s[1]
        /\ Len(Tail(s)) = Len(s) - 1
        /\ \A i \in 1..Len(Tail(s)) : Tail(s)[i] = s[i + 1]
    BY HeadTailProperties, EmptySeq, LenProperties
  <2>2. \A j \in 1..Len(s) : j > 1 =>
            j - 1 \in 1..Len(Tail(s)) /\ (j - 1) + 1 = j
    BY <2>1
  <2> QED BY <2>1, <2>2
<1>2. ASSUME NEW i \in 1..Len(Tail(s))
      PROVE  (\E j \in 1..Len(Tail(s)) :
                  j > i /\ Tail(s)[j].stream = Tail(s)[i].stream)
             <=> (\E j \in 1..Len(s) :
                      j > i + 1 /\ s[j].stream = s[i + 1].stream)
  <2>1. ASSUME NEW j \in 1..Len(Tail(s)), j > i,
               Tail(s)[j].stream = Tail(s)[i].stream
        PROVE  /\ j + 1 \in 1..Len(s) /\ j + 1 > i + 1
               /\ s[j + 1].stream = s[i + 1].stream
    BY <1>1, <2>1
  <2>2. ASSUME NEW j \in 1..Len(s), j > i + 1, s[j].stream = s[i + 1].stream
        PROVE  /\ j - 1 \in 1..Len(Tail(s)) /\ j - 1 > i
               /\ Tail(s)[j - 1].stream = Tail(s)[i].stream
    <3>1. j > 1 /\ j - 1 > i
      BY <1>1, <2>2
    <3> QED BY <1>1, <2>2, <3>1
  <2> QED BY <2>1, <2>2
<1>3. FifoPresents(Tail(s))
  BY <1>1, <1>2 DEF FifoPresents
<1>4. ASSUME Head(s).drop
      PROVE  \E j \in 1..Len(Tail(s)) : Tail(s)[j].stream = Head(s).stream
  <2>1. 1 \in 1..Len(s)
    BY <1>1
  <2>2. PICK j \in 1..Len(s) : j > 1 /\ s[j].stream = s[1].stream
    BY <1>1, <1>4, <2>1 DEF FifoPresents
  <2> QED BY <1>1, <2>2
<1> QED BY <1>3, <1>4

LEMMA PresentsAppend ==
    ASSUME NEW s \in Seq(Job), FifoPresents(s), NEW n \in Nat \ {0},
           \A i \in 1..Len(s) : s[i].fence # 0 /\ s[i].fence < n,
           NEW job \in Job, job.fence = n, ~job.drop,
           job.kind = "present" <=> job.stream # 0,
           NEW older, older = IF job.kind = "present"
                              THEN Superseded(s, job) ELSE s
    PROVE  /\ FifoPresents(Append(older, job))
           /\ \A i \in 1..Len(s) : /\ i \in 1..Len(Append(older, job))
                                   /\ Append(older, job)[i].stream = s[i].stream
<1>1. /\ Len(s) \in Nat /\ DOMAIN s = 1..Len(s)
      /\ \A i \in 1..Len(s) : s[i] \in Job
  BY LenProperties, ElementOfSeq
<1>2. older \in Seq(Job) /\ Len(older) = Len(s)
  BY SupersededFences
<1>3. \A i \in 1..Len(s) :
          /\ older[i].kind = s[i].kind /\ older[i].stream = s[i].stream
          /\ older[i].drop <=>
                 \/ s[i].drop
                 \/ /\ s[i].kind = "present" /\ job.kind = "present"
                    /\ s[i].stream = job.stream
  <2> SUFFICES ASSUME NEW i \in 1..Len(s)
               PROVE  /\ older[i].kind = s[i].kind
                      /\ older[i].stream = s[i].stream
                      /\ older[i].drop <=>
                             \/ s[i].drop
                             \/ /\ s[i].kind = "present"
                                /\ job.kind = "present"
                                /\ s[i].stream = job.stream
    OBVIOUS
  <2>1. CASE job.kind # "present"
    BY <2>1
  <2>2. CASE job.kind = "present"
    <3>1. older[i] = IF s[i].kind = "present"
                        /\ ShouldDropQueuedPresentation(s[i], job)
                     THEN [s[i] EXCEPT !.drop = TRUE] ELSE s[i]
      BY <1>1, <2>2 DEF Superseded
    <3>2. s[i].kind = "present" =>
              (ShouldDropQueuedPresentation(s[i], job) <=>
                   s[i].stream = job.stream)
      <4>1. s[i].kind = "present" => s[i].stream # 0
        BY DEF FifoPresents
      <4> QED BY <4>1 DEF ShouldDropQueuedPresentation, InvalidFence
    <3>3. /\ [s[i] EXCEPT !.drop = TRUE].kind = s[i].kind
          /\ [s[i] EXCEPT !.drop = TRUE].stream = s[i].stream
          /\ [s[i] EXCEPT !.drop = TRUE].drop = TRUE
          /\ s[i].drop \in BOOLEAN
      BY <1>1 DEF Job
    <3> QED BY <2>2, <3>1, <3>2, <3>3
  <2> QED BY <2>1, <2>2
<1> DEFINE r == Append(older, job)
<1>4. /\ Len(r) = Len(s) + 1
      /\ \A i \in 1..Len(s) : r[i] = older[i] /\ i \in 1..Len(r)
      /\ r[Len(s) + 1] = job /\ Len(s) + 1 \in 1..Len(r)
      /\ \A i \in 1..Len(r) : i \in 1..Len(s) \/ i = Len(s) + 1
  <2>1. /\ Len(r) = Len(s) + 1
        /\ \A i \in 1..Len(s) : r[i] = older[i]
        /\ r[Len(s) + 1] = job
    BY <1>2, AppendProperties
  <2> QED BY <1>1, <2>1
<1> HIDE DEF r
<1>5. ASSUME NEW i \in 1..Len(s), s[i].kind = "present"
      PROVE  r[i].drop <=> \E j \in 1..Len(r) :
                               j > i /\ r[j].stream = r[i].stream
  <2>1. Len(s) + 1 > i
    BY <1>1
  <2>2. s[i].stream # 0
    BY <1>5 DEF FifoPresents
  <2>3. r[i].drop <=> \/ s[i].drop
                      \/ /\ job.kind = "present"
                         /\ s[i].stream = job.stream
    BY <1>3, <1>4, <1>5
  <2>4. s[i].stream = job.stream => job.kind = "present"
    BY <2>2
  <2>5. (\E j \in 1..Len(r) : j > i /\ r[j].stream = r[i].stream) <=>
            \/ \E j \in 1..Len(s) : j > i /\ s[j].stream = s[i].stream
            \/ job.stream = s[i].stream
    BY <1>3, <1>4, <2>1
  <2> QED BY <1>5, <2>3, <2>4, <2>5 DEF FifoPresents
<1>6. ~\E j \in 1..Len(r) : j > Len(s) + 1
  BY <1>1, <1>4
<1>7. \A i \in 1..Len(s) : /\ r[i].kind = "present" <=> r[i].stream # 0
                           /\ r[i].drop => r[i].kind = "present"
  BY <1>3, <1>4 DEF FifoPresents
<1>8. FifoPresents(r)
  BY <1>3, <1>4, <1>5, <1>6, <1>7 DEF FifoPresents
<1> QED BY <1>3, <1>4, <1>8 DEF r

LEMMA PresentNext ==
    ASSUME EndInv, PresentInv, [Next]_vars
    PROVE  PresentInv'
<1> DEFINE Shown == worker.pc = "execute" /\ worker.job.drop =>
                        \/ phase[worker.client] # "open"
                        \/ \E j \in 1..Len(fifo[worker.client]) :
                               fifo[worker.client][j].stream =
                                   worker.job.stream
<1>1. /\ \A c \in Client : FifoPresents(fifo[c]) /\ fifo[c] \in Seq(Job)
      /\ Shown
      /\ worker.pc = "execute" => worker.client \in Client
  BY EndTypes DEF PresentInv, FifoPresents, EndInv, IInv, WorkerInv, ActivePc
<1>2. FifoPresents(<<>>)
  BY EmptySeq DEF FifoPresents
<1>3. ASSUME \A c \in Client : FifoPresents(fifo'[c]), Shown'
      PROVE  PresentInv'
  BY <1>3 DEF PresentInv, FifoPresents
<1>4. ASSUME NEW c \in Client, Started(c) PROVE PresentInv'
  <2>1. /\ OnlyAt(c, fifo, fifo') /\ fifo'[c] = Tail(fifo[c])
        /\ fifo[c] # <<>>
        /\ worker'.client = c /\ worker'.job = Head(fifo[c])
    BY <1>4 DEF Started
  <2>2. \A d \in Client : FifoPresents(fifo'[d])
    BY <1>1, <2>1, PresentsTail DEF OnlyAt
  <2>3. Shown'
    BY <1>1, <2>1, PresentsTail
  <2> QED BY <1>3, <2>2, <2>3
<1>5. ASSUME NEW c \in Client, Failed(c) PROVE PresentInv'
  <2>1. /\ OnlyAt(c, fifo, fifo') /\ fifo'[c] = <<>>
        /\ worker'.pc = "cancel"
    BY <1>5 DEF Failed
  <2> QED BY <1>1, <1>2, <1>3, <2>1 DEF OnlyAt
<1>6. ASSUME NEW c \in Client, FreeBegun(c) PROVE PresentInv'
  <2>1. /\ OnlyAt(c, fifo, fifo') /\ fifo'[c] = <<>>
        /\ OnlyAt(c, phase, phase') /\ phase'[c] = "cancelling"
        /\ UNCHANGED worker
    BY <1>6 DEF FreeBegun
  <2>2. Shown'
    BY <1>1, <2>1 DEF OnlyAt
  <2> QED BY <1>1, <1>2, <1>3, <2>1, <2>2 DEF OnlyAt
<1>7. ASSUME NEW c \in Client, NEW s \in Seq(Job), Queued(c, s)
      PROVE  PresentInv'
  <2>1. /\ OnlyAt(c, fifo, fifo') /\ fifo'[c] = s
        /\ s \in Extended(c, fifo[c])
        /\ phase[c] = "open" /\ worker.pc # "cancel"
        /\ UNCHANGED <<phase, worker>>
    BY <1>7 DEF Queued
  <2>2. /\ queueState[c].next \in Nat \ {0}
        /\ \A i \in 1..Len(fifo[c]) : /\ fifo[c][i].fence # 0
                                      /\ fifo[c][i].fence < queueState[c].next
    <3>1. Contiguous(queueState[c], fifo[c])
      BY <2>1 DEF EndInv, IInv, TimelineInv
    <3>2. /\ queueState[c].retired \in Nat /\ queueState[c].next \in Nat
          /\ Len(fifo[c]) \in Nat
      BY <1>1, EndTypes, LenProperties DEF EndInv
    <3> DEFINE q == queueState[c]
               one == IF q.running THEN 1 ELSE 0
    <3>3. one \in 0..1
      OBVIOUS
    <3>4. /\ q.next = q.retired + one + q.queued + 1
          /\ Len(fifo[c]) = q.queued
          /\ \A i \in 1..Len(fifo[c]) :
                 fifo[c][i].fence = q.retired + one + i
      BY <3>1 DEF Contiguous
    <3> HIDE DEF one, q
    <3>5. q.retired \in Nat /\ q.next \in Nat
      BY <3>2 DEF q
    <3>6. /\ q.next \in Nat \ {0}
          /\ \A i \in 1..Len(fifo[c]) : /\ fifo[c][i].fence # 0
                                        /\ fifo[c][i].fence < q.next
      <4>1. /\ q.queued \in Nat
            /\ q.retired + one + q.queued + 1 \in Nat \ {0}
        BY <3>2, <3>3, <3>4, <3>5
      <4>2. ASSUME NEW i \in 1..Len(fifo[c])
            PROVE  /\ q.retired + one + i # 0
                   /\ q.retired + one + i < q.retired + one + q.queued + 1
        BY <3>3, <3>4, <3>5, <4>1
      <4> QED BY <3>4, <4>1, <4>2
    <3> QED BY <3>6 DEF q
  <2>3. PICK job \in Job :
            /\ job.fence = queueState[c].next /\ ~job.drop
            /\ (job.kind = "present" <=> job.stream # 0)
            /\ s = Append(IF job.kind = "present"
                          THEN Superseded(fifo[c], job) ELSE fifo[c], job)
    BY <2>1 DEF Extended
  <2>4. /\ FifoPresents(s)
        /\ \A i \in 1..Len(fifo[c]) : /\ i \in 1..Len(s)
                                      /\ s[i].stream = fifo[c][i].stream
    BY <1>1, <2>2, <2>3, PresentsAppend
  <2>5. \A d \in Client : FifoPresents(fifo'[d])
    BY <1>1, <2>1, <2>4 DEF OnlyAt
  <2>6. Shown'
    BY <1>1, <2>1, <2>4 DEF OnlyAt
  <2> QED BY <1>3, <2>5, <2>6
<1>8. ASSUME NEW c \in Client, \/ Completed(c) \/ CancelledByFailure(c)
                               \/ CancelledByFree(c) \/ Configured(c)
      PROVE  PresentInv'
  <2>1. /\ UNCHANGED <<fifo, phase>>
        /\ worker'.pc = "execute" => worker' = worker
    BY <1>8 DEF Completed, CancelledByFailure, CancelledByFree, Configured,
       Retired
  <2> QED BY <1>1, <1>3, <2>1
<1>9. ASSUME Elsewhere PROVE PresentInv'
  <2>1. /\ UNCHANGED fifo
        /\ worker'.pc = "execute" => /\ worker.pc = "execute"
                                     /\ worker'.job = worker.job
                                     /\ worker'.client = worker.client
        /\ \A d \in Client : phase'[d] = "open" =>
               phase[d] \in {"unopened", "open"}
    BY <1>9 DEF Elsewhere
  <2>2. worker.pc = "execute" => phase[worker.client] # "unopened"
    BY <1>1 DEF EndInv, IInv, WorkerInv, CloseInv, ActivePc
  <2>3. Shown'
    BY <1>1, <2>1, <2>2
  <2> QED BY <1>1, <1>3, <2>1, <2>3
<1>10. (\E c \in Client : Move(c)) \/ Elsewhere
  BY StepMoves DEF EndInv
<1> HIDE DEF Shown
<1> QED BY <1>4, <1>5, <1>6, <1>7, <1>8, <1>9, <1>10 DEF Move

LEMMA PresentInit == Init => PresentInv
<1> SUFFICES ASSUME Init PROVE PresentInv
  OBVIOUS
<1>1. \A c \in Client : Len(fifo[c]) = 0
  BY EmptySeq DEF Init
<1>2. worker.pc = "wait"
  BY DEF Init, IdleWorker
<1> QED BY <1>1, <1>2 DEF PresentInv

\* A present is dropped exactly when a newer one of its stream waits behind it,
\* so the newest present of a stream is always shown, whatever is enqueued,
\* failed or freed while the worker is busy with an older one.
THEOREM PresentsCorrect == Spec => []OnlySupersededPresentsDrop
<1>1. EndInv /\ PresentInv => OnlySupersededPresentsDrop
  <2> SUFFICES ASSUME EndInv, PresentInv PROVE OnlySupersededPresentsDrop
    OBVIOUS
  <2>1. \A c \in Client : DOMAIN fifo[c] = 1..Len(fifo[c])
    BY EndTypes, LenProperties DEF EndInv
  <2>2. worker.pc = "execute" => worker.client \in Client
    BY DEF EndInv, IInv, WorkerInv, ActivePc
  <2> QED BY <2>1, <2>2 DEF PresentInv, OnlySupersededPresentsDrop
<1>2. EndInv /\ PresentInv /\ [Next]_vars => PresentInv'
  BY PresentNext
<1> QED BY <1>1, <1>2, PresentInit, EndInvariance, PTL DEF Spec

-----------------------------------------------------------------------------
(***************************************************************************)
(* READ and ERROR selectors.                                               *)
(***************************************************************************)

\* The worker is about to notify event e of client c
Pending(c, e) ==
    /\ worker.client = c
    /\ worker.pc \in {"cancel", "drop", "notify"}
    /\ worker.signals > 0
    /\ e = "error" => ~worker.ok

Missed(c, e) == selected[c][e] = "armed" /\ EventHolds(c, e)

EventInv ==
    \A c \in Client, e \in Event \ {"write"} : Missed(c, e) => Pending(c, e)

LEMMA EventTypes ==
    ASSUME EndInv
    PROVE  /\ \A e \in Event \ {"write"} : e \in Event /\ e \in {"read", "error"}
           /\ selected \in [Client -> [Event -> {"off", "armed", "fired"}]]
           /\ records \in [Client -> Seq(Record)]
           /\ queueLost \in [Client -> BOOLEAN]
           /\ worker \in Worker
           /\ worker.signals \in Nat
BY QueueConstants DEF EndInv, IInv, TypeOK, Worker

\* Selectors and events are as before, and the worker stays as near to
\* notifying
LEMMA EventKept ==
    ASSUME EventInv, UNCHANGED <<selected, records, queueLost>>,
           \A c \in Client, e \in {"read", "error"} :
               Pending(c, e) => Pending(c, e)',
           \A e \in Event \ {"write"} : e \in {"read", "error"}
    PROVE  EventInv'
<1> SUFFICES ASSUME NEW c \in Client, NEW e \in Event \ {"write"},
                    Missed(c, e)'
             PROVE  Pending(c, e)'
  BY DEF EventInv
<1>1. e \in {"read", "error"}
  OBVIOUS
<1>2. Missed(c, e)
  BY <1>1 DEF Missed, EventHolds
<1> QED BY <1>1, <1>2 DEF EventInv

\* The worker's job ends: whoever has not noticed will be notified
LEMMA EventSettled ==
    ASSUME EndInv, EventInv, NEW c \in Client,
           worker.client = c, worker.pc \in {"settle", "cancel"},
           UNCHANGED selected,
           OnlyAt(c, records, records'), OnlyAt(c, queueLost, queueLost'),
           Pending(c, "read")',
           queueLost'[c] => \/ queueLost[c] /\ worker.pc = "cancel"
                            \/ Pending(c, "error")',
           worker'.ok => worker.ok
    PROVE  EventInv'
<1> SUFFICES ASSUME NEW d \in Client, NEW e \in Event \ {"write"},
                    Missed(d, e)'
             PROVE  Pending(d, e)'
  BY DEF EventInv
<1>1. e \in {"read", "error"}
  BY EventTypes
<1>2. CASE d # c
  <2>1. Missed(d, e)
    BY <1>1, <1>2 DEF Missed, EventHolds, OnlyAt
  <2> QED BY <1>2, <2>1 DEF EventInv, Pending
<1>3. CASE d = c /\ e = "read"
  BY <1>3
<1>4. CASE d = c /\ e = "error"
  <2>1. queueLost'[c] /\ selected[c][e] = "armed"
    BY <1>4 DEF Missed, EventHolds
  <2>2. CASE queueLost[c]
    <3>1. Missed(c, e)
      BY <1>4, <2>1, <2>2 DEF Missed, EventHolds
    <3>2. Pending(c, e)
      BY <3>1 DEF EventInv
    <3> QED BY <1>4, <3>2 DEF Pending
  <2> QED BY <1>4, <2>1, <2>2
<1> QED BY <1>1, <1>2, <1>3, <1>4

LEMMA EventWorker ==
    ASSUME RecordAllocated = {TRUE}, EndInv, EventInv, WorkerStep
    PROVE  EventInv'
<1> DEFINE w == worker.client
<1>0. /\ worker \in Worker /\ worker.signals \in Nat
      /\ records \in [Client -> Seq(Record)]
      /\ queueLost \in [Client -> BOOLEAN]
      /\ selected \in [Client -> [Event -> {"off", "armed", "fired"}]]
      /\ \A e \in Event \ {"write"} : e \in {"read", "error"}
      /\ worker.pc \in ActivePc => w \in Client
  BY EventTypes DEF EndInv, IInv, WorkerInv
<1>1. CASE AcquireQueueSem \/ SelectNothing \/ ExecuteJob \/ FinishJob
           \/ WakeFree
  <2>1. UNCHANGED <<selected, records, queueLost>>
    BY <1>1 DEF AcquireQueueSem, SelectNothing, ExecuteJob, FinishJob,
       WakeFree, signalVars, clientVars
  <2>2. worker.pc \in {"wait", "select", "execute", "finish", "wake"}
    BY <1>1 DEF AcquireQueueSem, SelectNothing, ExecuteJob, FinishJob, WakeFree
  <2>3. \A c, e : ~Pending(c, e)
    BY <2>2 DEF Pending
  <2> QED BY <1>0, <2>1, <2>3, EventKept
<1>2. ASSUME NEW c \in Client, StartJob(c) PROVE EventInv'
  <2>1. UNCHANGED <<records, queueLost>> /\ worker.pc = "select"
    BY <1>2, StartedStep DEF StartJob, Started, EndInv
  <2>2. \A d \in Client, e \in Event \ {"write"} :
            selected'[d][e] = selected[d][e]
    BY <1>0, <1>2 DEF StartJob, Notified
  <2>3. \A d \in Client, e \in Event \ {"write"} :
            Missed(d, e)' => Missed(d, e)
    BY <1>0, <2>1, <2>2 DEF Missed, EventHolds
  <2> QED BY <2>1, <2>3 DEF EventInv, Pending
<1>3. CASE CompleteJob
  <2>1. w \in Client /\ worker.pc = "settle" /\ ~queueLost[w]
    BY <1>0, <1>3 DEF CompleteJob, ActivePc, EndInv, LostInv
  <2>2. /\ worker'.client = w /\ worker'.pc = "notify"
        /\ worker'.signals = 1 /\ worker'.ok = worker.ok
    BY <1>0, <1>3 DEF CompleteJob, Worker, Signal
  <2>3. OnlyAt(w, records, records') /\ UNCHANGED <<selected, queueLost>>
    BY <1>0, <1>3 DEF CompleteJob, AppendCompletion, OnlyAt
  <2>4. Pending(w, "read")'
    BY <2>2 DEF Pending
  <2> HIDE DEF w
  <2>5. OnlyAt(w, queueLost, queueLost') /\ ~queueLost'[w]
    BY <2>1, <2>3 DEF OnlyAt
  <2> QED BY <2>1, <2>2, <2>3, <2>4, <2>5, EventSettled DEF w
<1>4. CASE FailJob
  <2>1. w \in Client /\ worker.pc = "settle"
    BY <1>0, <1>4 DEF FailJob, ActivePc
  <2>2. /\ worker'.client = w /\ worker'.pc = "cancel"
        /\ worker'.signals = 1 /\ ~worker'.ok
    BY <1>0, <1>4 DEF FailJob, Worker, Signal
  <2>3. /\ OnlyAt(w, records, records') /\ UNCHANGED selected
        /\ OnlyAt(w, queueLost, queueLost')
    BY <1>0, <1>4 DEF FailJob, AppendCompletion, LoseQueue, OnlyAt
  <2>4. Pending(w, "read")' /\ Pending(w, "error")'
    BY <2>2 DEF Pending
  <2> QED BY <2>1, <2>2, <2>3, <2>4, EventSettled
<1>5. CASE CancelJob
  <2>1. w \in Client /\ worker.pc = "cancel"
    BY <1>0, <1>5 DEF CancelJob, ActivePc
  <2>2. /\ worker'.client = w /\ worker'.pc = "cancel"
        /\ worker'.signals = worker.signals + 1 /\ worker'.ok = worker.ok
    BY <1>0, <1>5 DEF CancelJob, Worker, Signal
  <2>3. OnlyAt(w, records, records') /\ UNCHANGED <<selected, queueLost>>
    BY <1>0, <1>5 DEF CancelJob, AppendCompletion, OnlyAt
  <2>4. Pending(w, "read")'
    BY <1>0, <2>2 DEF Pending
  <2> HIDE DEF w
  <2>5. OnlyAt(w, queueLost, queueLost') /\ (queueLost'[w] => queueLost[w])
    BY <2>1, <2>3 DEF OnlyAt
  <2> QED BY <2>1, <2>2, <2>3, <2>4, <2>5, EventSettled DEF w
<1>6. CASE CancelDone \/ DropCancelled
  <2>1. UNCHANGED <<selected, records, queueLost>>
    BY <1>6 DEF CancelDone, DropCancelled, signalVars, clientVars
  <2>2. /\ worker'.client = w /\ worker'.pc \in {"cancel", "drop", "notify"}
        /\ worker'.signals = worker.signals /\ worker'.ok = worker.ok
    BY <1>0, <1>6 DEF CancelDone, DropCancelled, Worker
  <2>3. \A c \in Client, e \in {"read", "error"} :
            Pending(c, e) => Pending(c, e)'
    BY <2>2 DEF Pending
  <2> QED BY <1>0, <2>1, <2>3, EventKept
<1>7. CASE NotifyCompletion
  <2>1. w \in Client /\ worker.pc = "notify"
        /\ UNCHANGED <<records, queueLost>>
    BY <1>0, <1>7 DEF NotifyCompletion, ActivePc, clientVars
  <2>2. CASE worker.signals = 0
    <3>1. UNCHANGED selected
      BY <1>7, <2>2 DEF NotifyCompletion
    <3>2. \A c, e : ~Pending(c, e)
      BY <2>2 DEF Pending
    <3> QED BY <1>0, <2>1, <3>1, <3>2, EventKept
  <2>3. CASE worker.signals # 0
    <3> SUFFICES ASSUME NEW d \in Client, NEW e \in Event \ {"write"},
                        Missed(d, e)'
                 PROVE  FALSE
      BY DEF EventInv
    <3>1. selected' = Notified(w, IF worker.ok THEN {"read"}
                                  ELSE {"read", "error"})
      BY <1>7, <2>3 DEF NotifyCompletion
    <3>2. e \in {"read", "error"} /\ e \in Event
      BY <1>0
    <3>3. selected'[d][e] = "armed" => selected[d][e] = "armed"
      BY <1>0, <2>1, <3>1, <3>2 DEF Notified
    <3>4. Pending(d, e)
      BY <2>1, <3>2, <3>3 DEF EventInv, Missed, EventHolds
    <3>5. /\ d = w
          /\ e \in (IF worker.ok THEN {"read"} ELSE {"read", "error"})
      BY <3>2, <3>4 DEF Pending
    <3> HIDE DEF w
    <3>6. selected'[d][e] # "armed"
      BY <1>0, <2>1, <3>1, <3>2, <3>5 DEF Notified
    <3> QED BY <3>6 DEF Missed
  <2> QED BY <2>2, <2>3
<1> QED BY <1>1, <1>2, <1>3, <1>4, <1>5, <1>6, <1>7 DEF WorkerStep

LEMMA EventNext ==
    ASSUME RecordAllocated = {TRUE}, EndInv, EventInv, [Next]_vars
    PROVE  EventInv'
<1>0. /\ selected \in [Client -> [Event -> {"off", "armed", "fired"}]]
      /\ records \in [Client -> Seq(Record)]
      /\ queueLost \in [Client -> BOOLEAN]
      /\ \A e \in Event \ {"write"} : e \in {"read", "error"}
      /\ \A t \in Thread : Owner[t] \in Client
  BY EventTypes, QueueConstants
<1>1. ASSUME UNCHANGED <<selected, records, queueLost, worker>>
      PROVE  EventInv'
  BY <1>0, <1>1, EventKept DEF Pending
<1>2. ASSUME UNCHANGED worker,
             \A d \in Client, e \in Event \ {"write"} :
                 Missed(d, e)' => Missed(d, e)
      PROVE  EventInv'
  BY <1>2 DEF EventInv, Pending
<1>3. ASSUME NEW t \in Thread, NEW mode \in Mode, NEW inject \in BOOLEAN,
             ConfigureRenderQueue(t, mode, inject)
      PROVE  EventInv'
  <2>1. /\ UNCHANGED <<selected, records, worker>>
        /\ queueLost' = [queueLost EXCEPT ![Owner[t]] = FALSE]
    BY <1>3 DEF ConfigureRenderQueue, signalVars
  <2>2. \A d \in Client : queueLost'[d] => queueLost[d]
    BY <1>0, <2>1
  <2> QED BY <1>0, <1>2, <2>1, <2>2 DEF Missed, EventHolds
<1>4. ASSUME NEW t \in Thread, DequeueRenderCompletion(t)
      PROVE  EventInv'
  <2>1. /\ UNCHANGED <<selected, queueLost, worker>>
        /\ records[Owner[t]] # <<>>
        /\ records' = [records EXCEPT ![Owner[t]] = Tail(@)]
    BY <1>4 DEF DequeueRenderCompletion, clientVars
  <2>2. \A d \in Client : records'[d] # <<>> => records[d] # <<>>
    BY <1>0, <2>1
  <2> QED BY <1>0, <1>2, <2>1, <2>2 DEF Missed, EventHolds
<1>5. ASSUME NEW c \in Client, NEW e \in Event, SelectRenderQueue(c, e)
      PROVE  EventInv'
  <2>1. /\ UNCHANGED <<records, queueLost, worker>>
        /\ selected' = [selected EXCEPT ![c][e] =
               IF EventHolds(c, e) THEN "fired" ELSE "armed"]
    BY <1>5 DEF SelectRenderQueue, clientVars
  <2>2. \A d \in Client, g \in Event \ {"write"} :
            selected'[d][g] = "armed" =>
                \/ selected[d][g] = "armed"
                \/ d = c /\ g = e /\ ~EventHolds(c, e)
    BY <1>0, <2>1
  <2>3. \A d \in Client, g \in {"read", "error"} :
            EventHolds(d, g)' => EventHolds(d, g)
    BY <2>1 DEF EventHolds
  <2>4. ASSUME NEW d \in Client, NEW g \in Event \ {"write"}, Missed(d, g)'
        PROVE  Missed(d, g)
    <3>1. selected'[d][g] = "armed" /\ EventHolds(d, g)
      BY <1>0, <2>3, <2>4 DEF Missed
    <3>2. selected[d][g] = "armed"
      BY <2>2, <3>1
    <3> QED BY <3>1, <3>2 DEF Missed
  <2> QED BY <1>2, <2>1, <2>4
<1>6. ASSUME NEW c \in Client, NEW e \in Event, DeselectRenderQueue(c, e)
      PROVE  EventInv'
  <2>1. /\ UNCHANGED <<records, queueLost, worker>>
        /\ selected' = [selected EXCEPT ![c][e] = "off"]
    BY <1>6 DEF DeselectRenderQueue, clientVars
  <2>2. \A d \in Client, g \in Event \ {"write"} :
            selected'[d][g] = "armed" => selected[d][g] = "armed"
    BY <1>0, <2>1
  <2> QED BY <1>0, <1>2, <2>1, <2>2 DEF Missed, EventHolds
<1>7. ASSUME NEW c \in Client, UnlinkClient(c)
      PROVE  EventInv'
  <2>1. /\ UNCHANGED <<queueLost, worker>>
        /\ records' = [records EXCEPT ![c] = <<>>]
        /\ selected' = [selected EXCEPT ![c] = [e \in Event |-> "off"]]
    BY <1>7 DEF UnlinkClient
  <2>2. \A d \in Client, g \in Event \ {"write"} :
            selected'[d][g] = "armed" =>
                d # c /\ selected[d][g] = "armed" /\ records'[d] = records[d]
    BY <1>0, <2>1
  <2> QED BY <1>0, <1>2, <2>1, <2>2 DEF Missed, EventHolds
<1>8. ASSUME NEW t \in Thread, Call(t) \/ ThreadStep(t) \/ GiveUp(t)
      PROVE  \/ UNCHANGED <<selected, records, queueLost, worker>>
             \/ DequeueRenderCompletion(t)
             \/ \E mode \in Mode, inject \in BOOLEAN :
                    ConfigureRenderQueue(t, mode, inject)
  BY <1>8 DEF Call, ThreadStep, GiveUp, AppendJob, EnqueueRenderCommands,
     EnqueueRenderDirectPresent, WaitRenderQueueFence, LookUpFence, PostJob,
     AcquireCompletion, CheckAgain, DrainToken, signalVars, clientVars
<1>9. ASSUME NEW c \in Client,
             OpenClient(c) \/ ClientCall(c) \/ BeginFree(c) \/ FreeStep(c)
      PROVE  \/ UNCHANGED <<selected, records, queueLost, worker>>
             \/ UnlinkClient(c)
             \/ \E e \in Event : \/ SelectRenderQueue(c, e)
                                 \/ DeselectRenderQueue(c, e)
  BY <1>9 DEF OpenClient, ClientCall, BeginFree, FreeStep, CreateRenderBuffer,
     CloseRenderBuffer, CancelAtFree, CancelAtFreeDone, DropAtFree, AwaitIdle,
     signalVars, clientVars
<1>10. CASE ShutdownRenderQueue \/ UNCHANGED vars
  BY <1>1, <1>10 DEF ShutdownRenderQueue, vars, signalVars, clientVars
<1> QED BY <1>1, <1>3, <1>4, <1>5, <1>6, <1>7, <1>8, <1>9, <1>10, EventWorker
           DEF Next

LEMMA EventInit == Init => EventInv
<1> SUFFICES ASSUME Init PROVE EventInv
  OBVIOUS
<1>1. \A c \in Client, e \in Event \ {"write"} : selected[c][e] = "off"
  BY DEF Init
<1> QED BY <1>1 DEF EventInv, Missed

\* No READ or ERROR selector is left behind (SelectRenderQueue and
\* NotifyCompletion) as long as every completion record can be allocated:
\* without a record the driver notifies nobody.
THEOREM EventsCorrect ==
    ASSUME RecordAllocated = {TRUE}
    PROVE  Spec => []NoMissedCompletionEvent
<1>1. EventInv => NoMissedCompletionEvent
  BY DEF EventInv, NoMissedCompletionEvent, Missed, Pending
<1>2. EndInv /\ EventInv /\ [Next]_vars => EventInv'
  BY EventNext
<1> QED BY <1>1, <1>2, EventInit, EndInvariance, PTL DEF Spec

-----------------------------------------------------------------------------
(***************************************************************************)
(* Counting jobs.  A job at position i of a list of client c is counted as *)
(* the pair <<c, i>>; len gives the length of the list of each client.     *)
(***************************************************************************)
Slots(len) == {p \in Client \X Fence : p[2] \in 1..len[p[1]]}

\* Len under a name of its own: the provers then take the lengths as numbers
Size(s) == Len(s)

\* The lists of each client that queuedJobs counts
LoadOf(w, todo, waiting) == [c \in Client |->
    IF w.client = c THEN Size(w.todo) + Size(todo[c]) + Size(waiting[c])
                    ELSE Size(todo[c]) + Size(waiting[c])]

Load == LoadOf(worker, closeTodo, fifo)

LEMMA SlotsGrow ==
    ASSUME NEW old \in [Client -> Nat], NEW new \in [Client -> Nat],
           NEW c \in Client, OnlyAt(c, old, new), new[c] = old[c] + 1,
           new[c] <= LastFence
    PROVE  /\ Slots(new) = Slots(old) \cup {<<c, new[c]>>}
           /\ <<c, new[c]>> \notin Slots(old)
<1>1. new[c] \in Fence /\ new[c] \in 1..new[c] /\ new[c] \notin 1..old[c]
  BY QueueLimits DEF Fence
<1>2. \A i \in Fence : i \in 1..new[c] <=> i \in 1..old[c] \/ i = new[c]
  BY QueueLimits DEF Fence
<1>3. <<c, new[c]>> \notin Slots(old)
  BY <1>1 DEF Slots
<1>4. ASSUME NEW p \in Client \X Fence
      PROVE  p \in Slots(new) <=> p \in Slots(old) \/ p = <<c, new[c]>>
  <2>1. PICK d \in Client, i \in Fence : p = <<d, i>>
    OBVIOUS
  <2>2. p = <<c, new[c]>> <=> d = c /\ i = new[c]
    BY <2>1
  <2>3. p \in Slots(new) <=> i \in 1..new[d]
    BY <2>1 DEF Slots
  <2>4. p \in Slots(old) <=> i \in 1..old[d]
    BY <2>1 DEF Slots
  <2> QED BY <1>2, <2>2, <2>3, <2>4 DEF OnlyAt
<1> QED BY <1>1, <1>3, <1>4 DEF Slots

LEMMA SlotsCounted ==
    ASSUME NEW old \in [Client -> Nat], NEW new \in [Client -> Nat],
           NEW c \in Client, OnlyAt(c, old, new)
    PROVE  /\ new[c] = old[c] + 1 /\ new[c] <= LastFence
                  /\ IsFiniteSet(Slots(old)) =>
                  /\ IsFiniteSet(Slots(new))
                  /\ Cardinality(Slots(old)) \in Nat
                  /\ Cardinality(Slots(new)) = Cardinality(Slots(old)) + 1
           /\ old[c] = new[c] + 1 /\ old[c] <= LastFence
                  /\ IsFiniteSet(Slots(old)) =>
                  /\ IsFiniteSet(Slots(new))
                  /\ Cardinality(Slots(new)) \in Nat
                  /\ Cardinality(Slots(old)) = Cardinality(Slots(new)) + 1
<1>1. ASSUME new[c] = old[c] + 1, new[c] <= LastFence, IsFiniteSet(Slots(old))
      PROVE  /\ IsFiniteSet(Slots(new))
             /\ Cardinality(Slots(old)) \in Nat
             /\ Cardinality(Slots(new)) = Cardinality(Slots(old)) + 1
  <2>1. /\ Slots(new) = Slots(old) \cup {<<c, new[c]>>}
        /\ <<c, new[c]>> \notin Slots(old)
    BY <1>1, SlotsGrow
  <2> QED BY <1>1, <2>1, FS_AddElement, FS_CardinalityType
<1>2. ASSUME old[c] = new[c] + 1, old[c] <= LastFence, IsFiniteSet(Slots(old))
      PROVE  /\ IsFiniteSet(Slots(new))
             /\ Cardinality(Slots(new)) \in Nat
             /\ Cardinality(Slots(old)) = Cardinality(Slots(new)) + 1
  <2>1. OnlyAt(c, new, old)
    BY DEF OnlyAt
  <2>2. /\ Slots(old) = Slots(new) \cup {<<c, old[c]>>}
        /\ <<c, old[c]>> \notin Slots(new)
    BY <1>2, <2>1, SlotsGrow
  <2>3. IsFiniteSet(Slots(new))
    BY <1>2, <2>2, FS_Subset
  <2> QED BY <2>2, <2>3, FS_AddElement, FS_CardinalityType
<1> QED BY <1>1, <1>2

LEMMA Sizes ==
    /\ Size(<<>>) = 0
    /\ \A s \in Seq(Job) :
           /\ Size(s) \in Nat
           /\ s # <<>> => Tail(s) \in Seq(Job) /\ Size(s) = Size(Tail(s)) + 1
<1>1. ASSUME NEW s \in Seq(Job)
      PROVE  /\ Len(s) \in Nat
             /\ s # <<>> => Tail(s) \in Seq(Job) /\ Len(s) = Len(Tail(s)) + 1
  BY LenProperties, HeadTailProperties
<1> QED BY <1>1, EmptySeq DEF Size

LEMMA LoadOfTypes ==
    ASSUME NEW w, Size(w.todo) \in Nat, NEW todo, NEW waiting,
           \A c \in Client : Size(todo[c]) \in Nat /\ Size(waiting[c]) \in Nat
    PROVE  /\ LoadOf(w, todo, waiting) \in [Client -> Nat]
           /\ \A c \in Client :
                  LoadOf(w, todo, waiting)[c] =
                      IF w.client = c
                      THEN Size(w.todo) + Size(todo[c]) + Size(waiting[c])
                      ELSE Size(todo[c]) + Size(waiting[c])
<1>1. \A c \in Client : LoadOf(w, todo, waiting)[c] =
          IF w.client = c THEN Size(w.todo) + Size(todo[c]) + Size(waiting[c])
                          ELSE Size(todo[c]) + Size(waiting[c])
  BY DEF LoadOf
<1>2. \A c \in Client : LoadOf(w, todo, waiting)[c] \in Nat
  BY <1>1
<1>3. LoadOf(w, todo, waiting) \in [Client -> Nat]
  BY <1>2 DEF LoadOf
<1> QED BY <1>1, <1>3

LEMMA ListTypes ==
    ASSUME IInv
    PROVE  /\ worker.todo \in Seq(Job)
           /\ closeTodo \in [Client -> Seq(Job)]
           /\ fifo \in [Client -> Seq(Job)]
           /\ Size(worker.todo) \in Nat
           /\ \A c \in Client :
                  Size(closeTodo[c]) \in Nat /\ Size(fifo[c]) \in Nat
<1>1. /\ worker.todo \in Seq(Job)
      /\ closeTodo \in [Client -> Seq(Job)]
      /\ fifo \in [Client -> Seq(Job)]
  BY DEF IInv, TypeOK, Worker
<1> QED BY <1>1, Sizes

\* Slots(Load) are the jobs DeviceCountExact counts
LEMMA WaitingLoad ==
    ASSUME IInv
    PROVE  {p \in Client \X Fence : p[2] \in DOMAIN Waiting(p[1])} = Slots(Load)
<1>1. ASSUME NEW c \in Client
      PROVE  DOMAIN Waiting(c) = 1..Load[c]
  <2> DEFINE todo == IF worker.client = c THEN worker.todo ELSE <<>>
  <2>1. /\ todo \in Seq(Job)
        /\ worker.client = c => Len(todo) = Len(worker.todo)
        /\ worker.client # c => Len(todo) = 0
    BY ListTypes, EmptySeq
  <2>2. closeTodo[c] \in Seq(Job) /\ fifo[c] \in Seq(Job)
    BY ListTypes
  <2> HIDE DEF todo
  <2>3. /\ todo \o closeTodo[c] \in Seq(Job)
        /\ Len(todo \o closeTodo[c]) = Len(todo) + Len(closeTodo[c])
    BY <2>1, <2>2, ConcatProperties
  <2>4. /\ (todo \o closeTodo[c]) \o fifo[c] \in Seq(Job)
        /\ Len((todo \o closeTodo[c]) \o fifo[c])
               = Len(todo) + Len(closeTodo[c]) + Len(fifo[c])
    BY <2>2, <2>3, ConcatProperties
  <2>5. Waiting(c) = (todo \o closeTodo[c]) \o fifo[c]
    BY DEF Waiting, todo
  <2>6. Len(Waiting(c)) = Load[c] /\ Waiting(c) \in Seq(Job)
    <3>1. Size(Waiting(c)) = Size(todo) + Size(closeTodo[c]) + Size(fifo[c])
      BY <2>4, <2>5 DEF Size
    <3>2. /\ worker.client = c => Size(todo) = Size(worker.todo)
          /\ worker.client # c => Size(todo) = 0
      BY <2>1 DEF Size
    <3>3. /\ Size(closeTodo[c]) \in Nat /\ Size(fifo[c]) \in Nat
          /\ Load[c] = IF worker.client = c
                THEN Size(worker.todo) + Size(closeTodo[c]) + Size(fifo[c])
                ELSE Size(closeTodo[c]) + Size(fifo[c])
      <4>1. /\ Size(worker.todo) \in Nat
            /\ \A d \in Client :
                   Size(closeTodo[d]) \in Nat /\ Size(fifo[d]) \in Nat
        BY ListTypes
      <4> QED BY <4>1, LoadOfTypes DEF Load
    <3>4. Size(Waiting(c)) = Load[c]
      BY <3>1, <3>2, <3>3
    <3> QED BY <2>4, <2>5, <3>4 DEF Size
  <2> QED BY <2>6, LenProperties
<1> QED BY <1>1 DEF Slots

CountInv ==
    /\ IsFiniteSet(Slots(Load))
    /\ \A c \in Client : Load[c] <= LastFence
    /\ queuedJobs = Cardinality(Slots(Load))
    /\ queuedJobs <= MaxJobsPerDevice

LEMMA CountKept ==
    ASSUME CountInv, UNCHANGED queuedJobs, Load' = Load
    PROVE  CountInv'
BY DEF CountInv, Slots

LEMMA CountLess ==
    ASSUME Load \in [Client -> Nat], Load' \in [Client -> Nat], CountInv,
           NEW c \in Client,
           OnlyAt(c, Load, Load'), Load'[c] + 1 = Load[c],
           queuedJobs' = Decrement(queuedJobs)
    PROVE  CountInv'
<1>2. /\ IsFiniteSet(Slots(Load'))
      /\ Cardinality(Slots(Load')) \in Nat
      /\ queuedJobs = Cardinality(Slots(Load')) + 1
  BY SlotsCounted DEF CountInv
<1>3. queuedJobs' = Cardinality(Slots(Load'))
  BY <1>2 DEF Decrement
<1>4. \A d \in Client : Load'[d] <= LastFence
  BY QueueLimits DEF CountInv, OnlyAt
<1>5. queuedJobs' <= MaxJobsPerDevice
  BY <1>2, <1>3, QueueLimits DEF CountInv
<1>6. Slots(Load)' = Slots(Load')
  BY DEF Slots
<1> QED BY <1>2, <1>3, <1>4, <1>5, <1>6 DEF CountInv

LEMMA CountMore ==
    ASSUME Load \in [Client -> Nat], Load' \in [Client -> Nat], CountInv,
           NEW c \in Client,
           OnlyAt(c, Load, Load'), Load'[c] = Load[c] + 1,
           Load'[c] <= LastFence, queuedJobs < MaxJobsPerDevice,
           queuedJobs' = queuedJobs + 1
    PROVE  CountInv'
<1>2. /\ IsFiniteSet(Slots(Load'))
      /\ queuedJobs \in Nat
      /\ queuedJobs' = Cardinality(Slots(Load'))
  BY SlotsCounted DEF CountInv
<1>3. \A d \in Client : Load'[d] <= LastFence
  BY DEF CountInv, OnlyAt
<1>4. queuedJobs' <= MaxJobsPerDevice
  BY <1>2, QueueLimits
<1>5. Slots(Load)' = Slots(Load')
  BY DEF Slots
<1> QED BY <1>2, <1>3, <1>4, <1>5 DEF CountInv

LEMMA CountNext ==
    ASSUME EndInv, CountInv, [Next]_vars
    PROVE  CountInv'
<1>1. IInv /\ IInv' /\ ((\E c \in Client : Move(c)) \/ Elsewhere)
  BY NextInv, StepMoves DEF EndInv
<1>2. /\ Size(worker.todo) \in Nat
      /\ \A c \in Client : Size(closeTodo[c]) \in Nat /\ Size(fifo[c]) \in Nat
      /\ Size(<<>>) = 0
  BY <1>1, ListTypes, Sizes
<1>0. /\ Load \in [Client -> Nat] /\ Load' \in [Client -> Nat]
      /\ \A c \in Client :
             /\ Load[c] = IF worker.client = c
                    THEN Size(worker.todo) + Size(closeTodo[c]) + Size(fifo[c])
                    ELSE Size(closeTodo[c]) + Size(fifo[c])
             /\ Load'[c] = IF worker'.client = c
                    THEN Size(worker'.todo) + Size(closeTodo'[c])
                             + Size(fifo'[c])
                    ELSE Size(closeTodo'[c]) + Size(fifo'[c])
  <2>1. /\ worker'.todo \in Seq(Job)
        /\ closeTodo' \in [Client -> Seq(Job)]
        /\ fifo' \in [Client -> Seq(Job)]
    BY <1>1 DEF IInv, TypeOK, Worker
  <2>2. Load' = LoadOf(worker', closeTodo', fifo')
    BY DEF Load, LoadOf, Size
  <2> HIDE DEF Load
  <2>3. Load = LoadOf(worker, closeTodo, fifo)
    BY DEF Load
  <2>4. /\ Size(worker'.todo) \in Nat
        /\ \A c \in Client :
               Size(closeTodo'[c]) \in Nat /\ Size(fifo'[c]) \in Nat
    BY <2>1, Sizes
  <2>5. /\ Load \in [Client -> Nat]
        /\ \A c \in Client : Load[c] = IF worker.client = c
                    THEN Size(worker.todo) + Size(closeTodo[c]) + Size(fifo[c])
                    ELSE Size(closeTodo[c]) + Size(fifo[c])
    BY <1>2, <2>3, LoadOfTypes
  <2>6. /\ Load' \in [Client -> Nat]
        /\ \A c \in Client : Load'[c] = IF worker'.client = c
                    THEN Size(worker'.todo) + Size(closeTodo'[c])
                             + Size(fifo'[c])
                    ELSE Size(closeTodo'[c]) + Size(fifo'[c])
    BY <2>2, <2>4, LoadOfTypes
  <2> QED BY <2>5, <2>6
<1>same. ASSUME \A d \in Client : Load'[d] = Load[d], UNCHANGED queuedJobs
         PROVE  CountInv'
  <2>1. Load' = Load
    BY <1>0, <1>same
  <2> QED BY <1>same, <2>1, CountKept
<1>3. /\ worker.pc # "cancel" => worker.todo = <<>>
      /\ worker'.pc # "cancel" => worker'.todo = <<>>
      /\ NoClient \notin Client
  BY <1>1, QueueConstants DEF IInv, ListsInv
<1>4. /\ worker.todo # <<>> => /\ Size(Tail(worker.todo)) \in Nat
                                /\ Size(worker.todo) = Size(Tail(worker.todo)) + 1
      /\ \A c \in Client :
             /\ closeTodo[c] # <<>> =>
                    /\ Size(Tail(closeTodo[c])) \in Nat
                    /\ Size(closeTodo[c]) = Size(Tail(closeTodo[c])) + 1
             /\ fifo[c] # <<>> =>
                    /\ Size(Tail(fifo[c])) \in Nat
                    /\ Size(fifo[c]) = Size(Tail(fifo[c])) + 1
  BY <1>1, ListTypes, Sizes
<1>5. CASE Elsewhere
  <2>1. UNCHANGED <<closeTodo, fifo, queuedJobs>> /\ worker'.todo = worker.todo
    BY <1>5 DEF Elsewhere, still
  <2>2. worker'.client = worker.client \/ worker.todo = <<>>
    BY <1>3, <1>5, <2>1 DEF Elsewhere
  <2>3. \A d \in Client : Load'[d] = Load[d]
    BY <1>2, <2>1, <2>2, <1>0
  <2> QED BY <2>1, <2>3, <1>same
<1>6. ASSUME NEW c \in Client, Started(c) PROVE CountInv'
  <2>1. /\ worker.client = NoClient /\ worker'.todo = <<>> /\ worker'.client = c
        /\ fifo[c] # <<>> /\ OnlyAt(c, fifo, fifo') /\ fifo'[c] = Tail(fifo[c])
        /\ UNCHANGED closeTodo /\ queuedJobs' = Decrement(queuedJobs)
    BY <1>6 DEF Started, still
  <2>3. OnlyAt(c, Load, Load')
    <3> SUFFICES ASSUME NEW d \in Client, d # c PROVE Load'[d] = Load[d]
      BY DEF OnlyAt
    <3>1. fifo'[d] = fifo[d] /\ worker.client # d /\ worker'.client # d
      BY <1>3, <2>1 DEF OnlyAt
    <3> QED BY <1>0, <2>1, <3>1
  <2>4. /\ Load[c] = Size(closeTodo[c]) + Size(fifo[c])
        /\ Load'[c] = Size(<<>>) + Size(closeTodo[c]) + Size(Tail(fifo[c]))
    BY <1>0, <1>3, <2>1
  <2>2. OnlyAt(c, Load, Load') /\ Load'[c] + 1 = Load[c]
    BY <1>2, <1>4, <2>1, <2>3, <2>4
  <2> QED BY <1>1, <2>1, <2>2, <1>0, CountLess
<1>7. ASSUME NEW c \in Client, Completed(c) \/ Configured(c) PROVE CountInv'
  <2>1. UNCHANGED <<closeTodo, fifo, queuedJobs>>
    BY <1>7 DEF Completed, Configured
  <2>2. \/ worker' = worker
        \/ worker.todo = <<>> /\ worker'.todo = <<>>
    BY <1>3, <1>7 DEF Completed, Configured
  <2>3. \A d \in Client : Load'[d] = Load[d]
    BY <1>2, <2>1, <2>2, <1>0
  <2> QED BY <2>1, <2>3, <1>same
<1>8. ASSUME NEW c \in Client, Failed(c) PROVE CountInv'
  <2>1. /\ worker.client = c /\ worker'.client = c /\ worker.todo = <<>>
        /\ worker'.todo = fifo[c]
        /\ OnlyAt(c, fifo, fifo') /\ fifo'[c] = <<>>
        /\ UNCHANGED <<closeTodo, queuedJobs>>
    BY <1>3, <1>8 DEF Failed
  <2>2. \A d \in Client : Load'[d] = Load[d]
    BY <1>2, <2>1, <1>0 DEF OnlyAt
  <2> QED BY <2>1, <2>2, <1>same
<1>9. ASSUME NEW c \in Client, CancelledByFailure(c) PROVE CountInv'
  <2>1. /\ worker.client = c /\ worker'.client = c /\ worker.todo # <<>>
        /\ worker'.todo = Tail(worker.todo)
        /\ UNCHANGED <<closeTodo, fifo>> /\ queuedJobs' = Decrement(queuedJobs)
    BY <1>9 DEF CancelledByFailure
  <2>3. OnlyAt(c, Load, Load')
    BY <1>0, <2>1 DEF OnlyAt
  <2>4. /\ Load[c] = Size(worker.todo) + Size(closeTodo[c]) + Size(fifo[c])
        /\ Load'[c] = Size(Tail(worker.todo)) + Size(closeTodo[c])
                         + Size(fifo[c])
    BY <1>0, <2>1
  <2>5. /\ Size(Tail(worker.todo)) \in Nat
        /\ Size(worker.todo) = Size(Tail(worker.todo)) + 1
    BY <1>4, <2>1
  <2>2. OnlyAt(c, Load, Load') /\ Load'[c] + 1 = Load[c]
    BY <1>2, <2>3, <2>4, <2>5
  <2> QED BY <1>1, <2>1, <2>2, <1>0, CountLess
<1>10. ASSUME NEW c \in Client, CancelledByFree(c) PROVE CountInv'
  <2>1. /\ closeTodo[c] # <<>> /\ OnlyAt(c, closeTodo, closeTodo')
        /\ closeTodo'[c] = Tail(closeTodo[c])
        /\ UNCHANGED <<worker, fifo>> /\ queuedJobs' = Decrement(queuedJobs)
    BY <1>10 DEF CancelledByFree
  <2>3. OnlyAt(c, Load, Load')
    BY <1>0, <2>1 DEF OnlyAt
  <2>4. /\ Size(Tail(closeTodo[c])) \in Nat
        /\ Size(closeTodo[c]) = Size(Tail(closeTodo[c])) + 1
    BY <1>4, <2>1
  <2>5. ASSUME worker.client = c PROVE Load'[c] + 1 = Load[c]
    <3>1. /\ Load[c] = Size(worker.todo) + Size(closeTodo[c]) + Size(fifo[c])
          /\ Load'[c] = Size(worker.todo) + Size(Tail(closeTodo[c]))
                           + Size(fifo[c])
      BY <1>0, <2>1, <2>5
    <3> QED BY <1>2, <2>4, <3>1
  <2>6. ASSUME worker.client # c PROVE Load'[c] + 1 = Load[c]
    <3>1. /\ Load[c] = Size(closeTodo[c]) + Size(fifo[c])
          /\ Load'[c] = Size(Tail(closeTodo[c])) + Size(fifo[c])
      BY <1>0, <2>1, <2>6
    <3> QED BY <1>2, <2>4, <3>1
  <2>2. OnlyAt(c, Load, Load') /\ Load'[c] + 1 = Load[c]
    BY <2>3, <2>5, <2>6
  <2> QED BY <1>1, <2>1, <2>2, <1>0, CountLess
<1>11. ASSUME NEW c \in Client, FreeBegun(c) PROVE CountInv'
  <2>1. /\ OnlyAt(c, closeTodo, closeTodo') /\ closeTodo'[c] = fifo[c]
        /\ OnlyAt(c, fifo, fifo') /\ fifo'[c] = <<>>
        /\ UNCHANGED <<queuedJobs, worker>> /\ phase[c] = "open"
    BY <1>11 DEF FreeBegun
  <2>2. closeTodo[c] = <<>>
    BY <1>1, <2>1 DEF IInv, ListsInv
  <2>3. \A d \in Client : Load'[d] = Load[d]
    BY <1>2, <2>1, <2>2, <1>0 DEF OnlyAt
  <2> QED BY <2>1, <2>3, <1>same
<1>12. ASSUME NEW c \in Client, NEW s \in Seq(Job), Queued(c, s)
       PROVE  CountInv'
  <2>1. /\ OnlyAt(c, fifo, fifo') /\ fifo'[c] = s /\ Len(s) = Len(fifo[c]) + 1
        /\ UNCHANGED <<closeTodo, worker>> /\ queuedJobs' = queuedJobs + 1
        /\ phase[c] = "open" /\ worker.pc # "cancel"
        /\ CanQueueRenderJob(queueState[c], queuedJobs)
    BY <1>12 DEF Queued, still
  <2>8. Size(s) = Size(fifo[c]) + 1
    BY <2>1 DEF Size
  <2>3. closeTodo[c] = <<>> /\ worker.todo = <<>>
    BY <1>1, <2>1 DEF IInv, ListsInv
  <2>9. OnlyAt(c, Load, Load')
    BY <1>0, <2>1 DEF OnlyAt
  <2>10. /\ Load[c] = Size(fifo[c])
         /\ Load'[c] = Size(s)
    <3>1. /\ Size(s) \in Nat /\ Size(fifo[c]) \in Nat /\ Size(<<>>) = 0
      BY <1>2, Sizes
    <3> QED BY <1>0, <2>1, <2>3, <3>1
  <2>2. OnlyAt(c, Load, Load') /\ Load'[c] = Load[c] + 1
    BY <2>8, <2>9, <2>10
  <2>4. Contiguous(queueState[c], fifo[c]) /\ queueState[c] \in QueueState
    BY <1>1, <2>1 DEF IInv, TimelineInv, TypeOK
  <2>5. /\ queueState[c].next \in Nat /\ queueState[c].next < LastFence
        /\ Size(fifo[c]) + 1 <= queueState[c].next
    <3>1. /\ queueState[c].retired \in Nat /\ queueState[c].queued \in Nat
          /\ queueState[c].next \in 1..LastFence
          /\ queueState[c].next # LastFence
      BY <2>1, <2>4, QueueLimits DEF QueueState, CanQueueRenderJob
    <3>2. Size(fifo[c]) = queueState[c].queued
      BY <2>4 DEF Contiguous, Size
    <3>3. \/ queueState[c].next = queueState[c].retired + 1
                                     + queueState[c].queued + 1
          \/ queueState[c].next = queueState[c].retired + 0
                                     + queueState[c].queued + 1
      BY <2>4 DEF Contiguous
    <3>4. queueState[c].next \in Nat /\ queueState[c].next < LastFence
      BY <3>1, QueueLimits
    <3> QED BY <3>1, <3>2, <3>3, <3>4
  <2>6. Load'[c] <= LastFence
    <3>1. Load[c] = Size(fifo[c])
      BY <2>10
    <3> QED BY <1>2, <2>2, <2>5, <3>1, QueueLimits
  <2>7. queuedJobs < MaxJobsPerDevice
    BY <2>1 DEF CanQueueRenderJob
  <2> QED BY <1>1, <2>1, <2>2, <2>6, <2>7, <1>0, CountMore
<1> QED BY <1>1, <1>5, <1>6, <1>7, <1>8, <1>9, <1>10, <1>11, <1>12 DEF Move

LEMMA CountInit == Init => CountInv
<1> SUFFICES ASSUME Init PROVE CountInv
  OBVIOUS
<1>1. \A c \in Client : Load[c] = 0
  <2>1. \A c \in Client : /\ worker.client # c
                          /\ Size(closeTodo[c]) = 0 /\ Size(fifo[c]) = 0
    BY Sizes, QueueConstants DEF Init, IdleWorker
  <2> QED BY <2>1 DEF Load, LoadOf
<1>2. Slots(Load) = {}
  BY <1>1 DEF Slots
<1>3. IsFiniteSet({}) /\ Cardinality({}) = 0
  BY FS_EmptySet
<1> QED BY <1>1, <1>2, <1>3, QueueLimits DEF CountInv, Init

\* device.renderQueuedJobs counts the jobs in the FIFOs and the lists being
\* cancelled: the guards of the driver against going below zero never act, and
\* the limit of the device is neither leaked nor exceeded.
THEOREM DeviceCountCorrect == Spec => []DeviceCountExact
<1>1. EndInv /\ CountInv => DeviceCountExact
  BY WaitingLoad DEF CountInv, DeviceCountExact, EndInv
<1> QED BY <1>1, CountInit, CountNext, EndInvariance, PTL DEF Spec

-----------------------------------------------------------------------------
(***************************************************************************)
(* The worker's scan and its wakeups.                                      *)
(***************************************************************************)

\* A set of natural numbers has a least element
LEMMA LeastNatural ==
    ASSUME NEW T, T \subseteq Nat, T # {}
    PROVE  \E n \in T : \A m \in T : n <= m
<1> DEFINE R == OpToRel(<, Nat)
<1>1. IsWellFoundedOn(R, Nat)
  BY NatLessThanWellFounded
<1>2. \A m, n \in Nat : <<m, n>> \in R <=> m < n
  BY DEF OpToRel
<1> HIDE DEF R
<1>3. \E n \in T : \A m \in T : ~(<<m, n>> \in R)
  BY <1>1, WFMin
<1>4. PICK n \in T : \A m \in T : ~(<<m, n>> \in R)
  BY <1>3
<1>5. \A m \in T : m \in Nat /\ n \in Nat /\ ~(m < n)
  BY <1>2, <1>4
<1>6. \A m \in T : n <= m
  BY <1>5
<1> QED BY <1>6

LEMMA ModSmall == \A n \in Nat \ {0} : \A a \in 0..(n - 1) : a % n = a
OBVIOUS

LEMMA ModPlus == \A n \in Nat \ {0} : \A a \in 0..(n - 1) : (a + n) % n = a
OBVIOUS

LEMMA ModType == \A n \in Nat \ {0}, a \in Nat : a % n \in 0..(n - 1)
OBVIOUS

Listed(c) == c \in {renderClients[i] : i \in DOMAIN renderClients}

\* An open client is in the list, and has a place of its own there
LEMMA ListedPosition ==
    ASSUME IInv
    PROVE  /\ Len(renderClients) \in Nat
           /\ \A c \in Client : phase[c] = "open" => Listed(c)
           /\ cursor # NoClient => Listed(cursor) /\ cursor \in Client
           /\ \A c : Listed(c) =>
                  /\ Position(c) \in 1..Len(renderClients)
                  /\ renderClients[Position(c)] = c
                  /\ Len(renderClients) # 0
                  /\ c \in Client
<1>1. /\ renderClients \in Seq(Client)
      /\ cursor \in Client \cup {NoClient}
      /\ \A c \in Client : phase[c] = "open" =>
             \E i \in 1..Len(renderClients) : renderClients[i] = c
      /\ cursor # NoClient =>
             \E i \in 1..Len(renderClients) : renderClients[i] = cursor
  BY DEF IInv, TypeOK, ListedInv
<1>2. /\ Len(renderClients) \in Nat
      /\ DOMAIN renderClients = 1..Len(renderClients)
      /\ \A i \in 1..Len(renderClients) : renderClients[i] \in Client
  BY <1>1, LenProperties, ElementOfSeq
<1>3. ASSUME NEW c, Listed(c)
      PROVE  /\ Position(c) \in 1..Len(renderClients)
             /\ renderClients[Position(c)] = c
  BY <1>2, <1>3 DEF Listed, Position
<1> QED BY <1>1, <1>2, <1>3 DEF Listed

LEMMA DistanceType ==
    ASSUME IInv, NEW c, Listed(c)
    PROVE  Distance(c) \in Nat
<1> DEFINE n == Len(renderClients)
           start == IF cursor = NoClient THEN 0 ELSE Position(cursor)
           a == Position(c) - 1 + n - start
<1>1. n \in Nat \ {0} /\ Position(c) \in 1..n /\ start \in 0..n
  BY ListedPosition
<1>2. Distance(c) = a % n
  BY DEF Distance
<1> HIDE DEF n, start
<1>3. a \in Nat
  BY <1>1
<1> HIDE DEF a
<1>4. a % n \in 0..(n - 1)
  BY <1>1, <1>3, ModType
<1> QED BY <1>1, <1>2, <1>4

\* The scan finds somebody when somebody is ready
LEMMA ReadyIsFound ==
    ASSUME IInv, NEW c \in Client, Ready(c)
    PROVE  \E d \in Client : IsNextReady(d)
<1> DEFINE T == {Distance(d) : d \in {d \in Client : Listed(d) /\ Ready(d)}}
<1>1. Listed(c)
  BY ListedPosition DEF Ready
<1>2. T \subseteq Nat
  BY DistanceType
<1>3. Distance(c) \in T
  BY <1>1
<1>4. \A d : Listed(d) => d \in Client
  BY ListedPosition
<1>5. PICK n \in T : \A m \in T : n <= m
  <2> HIDE DEF T
  <2> QED BY <1>2, <1>3, LeastNatural
<1>6. PICK d \in Client : Listed(d) /\ Ready(d) /\ n = Distance(d)
  BY <1>5
<1>7. \A e : Listed(e) /\ Ready(e) => Distance(e) \in T
  BY <1>4
<1>8. \A e : Listed(e) /\ Ready(e) => Distance(d) <= Distance(e)
  <2> HIDE DEF T
  <2> QED BY <1>5, <1>6, <1>7
<1> HIDE DEF T
<1> QED BY <1>6, <1>8 DEF IsNextReady, Listed

\* Round-robin (SelectReadyClientLocked starts behind the cursor): the client
\* just served is the last one the scan comes to.
LEMMA CursorIsLast ==
    ASSUME IInv, NEW c \in Client, StartJob(c), cursor = c,
           NEW d \in Client, d # c, Ready(d)
    PROVE  FALSE
<1> DEFINE n == Len(renderClients)
           p == Position(c)
           q == Position(d)
<1>1. Listed(c) /\ Listed(d) /\ c # NoClient
  BY ListedPosition, QueueConstants DEF StartJob, IsNextReady, Listed, Ready
<1>2. /\ n \in Nat \ {0} /\ p \in 1..n /\ q \in 1..n
      /\ renderClients[p] = c /\ renderClients[q] = d
  BY <1>1, ListedPosition
<1>3. p # q
  BY <1>2
<1>4. /\ Distance(c) = (p - 1 + n - p) % n
      /\ Distance(d) = (q - 1 + n - p) % n
  BY <1>1 DEF Distance
<1>5. Distance(c) <= Distance(d)
  BY <1>1 DEF StartJob, IsNextReady, Listed
<1> HIDE DEF n, p, q
<1>6. Distance(c) = n - 1
  <2>1. p - 1 + n - p = n - 1 /\ n - 1 \in 0..(n - 1)
    BY <1>2
  <2> QED BY <1>2, <1>4, <2>1, ModSmall
<1>7. CASE q > p
  <2>1. /\ q - 1 + n - p = (q - p - 1) + n
        /\ q - p - 1 \in 0..(n - 1) /\ q - p - 1 < n - 1
    BY <1>2, <1>7
  <2>2. Distance(d) = q - p - 1
    BY <1>2, <1>4, <2>1, ModPlus
  <2> QED BY <1>2, <1>5, <1>6, <2>1, <2>2
<1>8. CASE q < p
  <2>1. q - 1 + n - p \in 0..(n - 1) /\ q - 1 + n - p < n - 1
    BY <1>2, <1>8
  <2>2. Distance(d) = q - 1 + n - p
    BY <1>2, <1>4, <2>1, ModSmall
  <2> QED BY <1>2, <1>5, <1>6, <2>1, <2>2
<1> QED BY <1>2, <1>3, <1>7, <1>8

\* The client just served is not served again while another one is ready.
THEOREM RoundRobinCorrect == Spec => RoundRobin
<1>1. IInv /\ [Next]_vars =>
          [\A c \in Client : StartJob(c) /\ cursor = c =>
               ~(\E d \in Client : d # c /\ Ready(d))]_vars
  BY CursorIsLast
<1> QED BY <1>1, Invariance, PTL DEF Spec, RoundRobin

-----------------------------------------------------------------------------
Posting == {t \in Thread : thread[t].pc = "post"}

Lengths == [c \in Client |-> Size(fifo[c])]

Looking == IF worker.pc = "select" THEN 1 ELSE 0

\* A driver that is shut down has no job
Down == ~queueUp => \A c \in Client : phase[c] \in {"unopened", "gone"}

\* A token, a look or a post to come for every queued job
TokenInv ==
    /\ IsFiniteSet(Slots(Lengths))
    /\ IsFiniteSet(Posting)
    /\ Cardinality(Slots(Lengths)) <= queueSem + Looking + Cardinality(Posting)
    /\ Down

LEMMA LengthTypes ==
    ASSUME IInv
    PROVE  /\ Lengths \in [Client -> Nat]
           /\ \A c \in Client : Lengths[c] = Size(fifo[c])
           /\ QueuedAnywhere = Slots(Lengths)
           /\ queueSem \in Nat /\ Looking \in 0..1
<1>1. \A c \in Client : fifo[c] \in Seq(Job)
  BY DEF IInv, TypeOK
<1>2. \A c \in Client : /\ Size(fifo[c]) \in Nat
                        /\ DOMAIN fifo[c] = 1..Size(fifo[c])
  BY <1>1, Sizes, LenProperties DEF Size
<1>3. QueuedAnywhere = Slots(Lengths)
  BY <1>2 DEF QueuedAnywhere, Slots, Lengths
<1>4. queueSem \in Nat /\ Looking \in 0..1
  BY DEF IInv, TypeOK, Looking
<1> QED BY <1>2, <1>3, <1>4 DEF Lengths

LEMMA StaysDown ==
    ASSUME IInv, Down, [Next]_vars
    PROVE  Down'
<1>0. phase \in [Client -> Phase]
  BY DEF IInv, TypeOK
<1>1. ASSUME UNCHANGED <<phase, queueUp>> PROVE Down'
  BY <1>1 DEF Down
<1>2. CASE ShutdownRenderQueue
  BY <1>2 DEF ShutdownRenderQueue, Down, clientVars
<1>3. ASSUME NEW c \in Client, OpenClient(c) PROVE Down'
  BY <1>3 DEF OpenClient, Down
<1>4. ASSUME NEW c \in Client, BeginFree(c) \/ FreeStep(c) PROVE Down'
  <2>1. /\ UNCHANGED queueUp
        /\ phase[c] \notin {"unopened", "gone"}
    BY <1>4 DEF BeginFree, FreeStep, CancelAtFree, CancelAtFreeDone,
       DropAtFree, AwaitIdle, UnlinkClient, deviceVars
  <2> QED BY <2>1 DEF Down
<1>5. CASE WorkerStep
  <2>1. UNCHANGED <<phase, queueUp>>
    BY <1>5 DEF WorkerStep, AcquireQueueSem, SelectNothing, StartJob,
       ExecuteJob, CompleteJob, FailJob, CancelJob, CancelDone, DropCancelled,
       NotifyCompletion, FinishJob, WakeFree, clientVars, deviceVars
  <2> QED BY <1>1, <2>1
<1>6. ASSUME NEW t \in Thread, Call(t) \/ ThreadStep(t) \/ GiveUp(t)
      PROVE  Down'
  <2>1. UNCHANGED <<phase, queueUp>>
    BY <1>6 DEF Call, ThreadStep, GiveUp, AppendJob, EnqueueRenderCommands,
       EnqueueRenderDirectPresent, WaitRenderQueueFence, LookUpFence, PostJob,
       AcquireCompletion, CheckAgain, DrainToken, ConfigureRenderQueue,
       DequeueRenderCompletion, clientVars, deviceVars
  <2> QED BY <1>1, <2>1
<1>7. ASSUME NEW c \in Client, ClientCall(c) PROVE Down'
  <2>1. UNCHANGED <<phase, queueUp>>
    BY <1>7 DEF ClientCall, CreateRenderBuffer, CloseRenderBuffer,
       SelectRenderQueue, DeselectRenderQueue, clientVars, deviceVars
  <2> QED BY <1>1, <2>1
<1>8. CASE UNCHANGED vars
  BY <1>1, <1>8 DEF vars, clientVars, deviceVars
<1> QED BY <1>2, <1>3, <1>4, <1>5, <1>6, <1>7, <1>8 DEF Next

LEMMA LengthsAfter ==
    ASSUME IInv'
    PROVE  /\ Lengths' \in [Client -> Nat]
           /\ \A c \in Client : Lengths'[c] = Size(fifo'[c])
           /\ queueSem' \in Nat /\ Looking' \in 0..1
           /\ Slots(Lengths)' = Slots(Lengths')
<1>1. \A c \in Client : fifo'[c] \in Seq(Job)
  BY DEF IInv, TypeOK
<1>2. \A c \in Client : Size(fifo'[c]) \in Nat
  BY <1>1, Sizes
<1>3. Lengths' = [c \in Client |-> Size(fifo'[c])]
  BY DEF Lengths, Size
<1>4. queueSem' \in Nat /\ Looking' \in 0..1
  BY DEF IInv, TypeOK, Looking
<1>5. Slots(Lengths)' = Slots(Lengths')
  BY DEF Slots
<1> QED BY <1>2, <1>3, <1>4, <1>5

\* A FIFO is shorter than the fence space, or its fences would not fit
LEMMA ShortFifos == IInv => \A c \in Client : Lengths[c] <= LastFence
<1> SUFFICES ASSUME IInv, NEW c \in Client PROVE Lengths[c] <= LastFence
  OBVIOUS
<1>1. Lengths[c] = Size(fifo[c]) /\ fifo[c] \in Seq(Job)
  BY LengthTypes DEF IInv, TypeOK
<1>2. CASE fifo[c] = <<>>
  BY <1>1, <1>2, Sizes, QueueLimits
<1>3. CASE fifo[c] # <<>>
  <2>1. Contiguous(queueState[c], fifo[c]) /\ queueState[c] \in QueueState
    BY <1>3 DEF IInv, TimelineInv, ListsInv, TypeOK
  <2>2. /\ queueState[c].next \in Nat /\ queueState[c].next <= LastFence
        /\ queueState[c].retired \in Nat /\ queueState[c].queued \in Nat
    BY <2>1, QueueLimits DEF QueueState
  <2>3. /\ Lengths[c] = queueState[c].queued
        /\ \/ queueState[c].next = queueState[c].retired + 0
                                      + queueState[c].queued + 1
           \/ queueState[c].next = queueState[c].retired + 1
                                      + queueState[c].queued + 1
    BY <1>1, <2>1 DEF Contiguous, Size
  <2> QED BY <2>2, <2>3, QueueLimits
<1> QED BY <1>2, <1>3

LEMMA ShortFifosAfter == IInv' => \A c \in Client : Lengths'[c] <= LastFence
<1>1. (IInv => \A c \in Client : Lengths[c] <= LastFence)'
  BY ShortFifos, PTL
<1> QED BY <1>1

\* Steps that add no job and take no token
LEMMA TokenRest ==
    ASSUME IInv, IInv', TokenInv, Down',
           \A c \in Client : fifo'[c] = fifo[c] \/ fifo'[c] = <<>>,
           \A t \in Thread : thread'[t].pc = "post" <=> thread[t].pc = "post",
           queueSem' >= queueSem,
           worker'.pc = "select" <=> worker.pc = "select"
    PROVE  TokenInv'
<1>1. /\ Lengths \in [Client -> Nat] /\ Lengths' \in [Client -> Nat]
      /\ Slots(Lengths)' = Slots(Lengths')
      /\ queueSem \in Nat /\ queueSem' \in Nat
  BY LengthTypes, LengthsAfter
<1>2. \A c \in Client : Lengths'[c] <= Lengths[c]
  BY LengthTypes, LengthsAfter, Sizes
<1>3. Slots(Lengths') \subseteq Slots(Lengths)
  <2> SUFFICES ASSUME NEW p \in Client \X Fence, p[2] \in 1..Lengths'[p[1]]
               PROVE  p[2] \in 1..Lengths[p[1]]
    BY DEF Slots
  <2>1. /\ p[1] \in Client /\ Lengths'[p[1]] \in Nat /\ Lengths[p[1]] \in Nat
        /\ Lengths'[p[1]] <= Lengths[p[1]]
    BY <1>1, <1>2
  <2> QED BY <2>1
<1>4. /\ IsFiniteSet(Slots(Lengths'))
      /\ Cardinality(Slots(Lengths')) <= Cardinality(Slots(Lengths))
      /\ Cardinality(Slots(Lengths')) \in Nat
      /\ Cardinality(Slots(Lengths)) \in Nat
  BY <1>3, FS_Subset, FS_CardinalityType DEF TokenInv
<1>5. Posting' = Posting /\ Cardinality(Posting) \in Nat
  BY FS_CardinalityType DEF Posting, TokenInv
<1>6. Looking' = Looking /\ Looking \in 0..1
  BY DEF Looking
<1>7. Cardinality(Slots(Lengths'))
          <= queueSem' + Looking' + Cardinality(Posting')
  BY <1>1, <1>4, <1>5, <1>6 DEF TokenInv
<1> QED BY <1>1, <1>4, <1>5, <1>7 DEF TokenInv

\* A thread that has appended a job is about to post
LEMMA TokenAppended ==
    ASSUME IInv, IInv', TokenInv, Down',
           NEW t \in Thread, Calls(t), queueMode[Owner[t]] # "safe",
           NEW kind \in {"commands", "present"},
           NEW stream \in Stream \cup {0}, NEW names \in SUBSET Buffer,
           kind = "present" <=> stream # 0,
           AppendJob(t, kind, stream, names)
    PROVE  TokenInv'
<1> DEFINE c == Owner[t]
<1>1. PICK s \in Seq(Job) : Queued(c, s)
  BY QueuedStep
<1>2. c \in Client /\ thread \in [Thread -> ThreadState]
  BY QueueConstants DEF IInv, TypeOK
<1> HIDE DEF c
<1>3. /\ Lengths \in [Client -> Nat] /\ Lengths' \in [Client -> Nat]
      /\ Slots(Lengths)' = Slots(Lengths')
      /\ queueSem \in Nat /\ Looking \in 0..1
  BY LengthTypes, LengthsAfter
<1>4. OnlyAt(c, Lengths, Lengths') /\ Lengths'[c] = Lengths[c] + 1
  <2>1. OnlyAt(c, fifo, fifo') /\ Size(fifo'[c]) = Size(fifo[c]) + 1
    BY <1>1 DEF Queued, Size
  <2> QED BY <1>2, <2>1, LengthTypes, LengthsAfter DEF OnlyAt
<1>5. Lengths'[c] <= LastFence
  BY <1>2, ShortFifosAfter
<1>6. /\ IsFiniteSet(Slots(Lengths'))
      /\ Cardinality(Slots(Lengths)) \in Nat
      /\ Cardinality(Slots(Lengths')) = Cardinality(Slots(Lengths)) + 1
  BY <1>2, <1>3, <1>4, <1>5, SlotsCounted DEF TokenInv
<1>7. /\ thread[t].pc = "idle"
      /\ thread' = [thread EXCEPT ![t] = [IdleThread EXCEPT !.pc = "post"]]
      /\ UNCHANGED <<queueSem, worker>>
  BY DEF Calls, AppendJob
<1>8. Posting' = Posting \cup {t} /\ t \notin Posting
  <2>1. \A u \in Thread : thread'[u].pc = "post" <=>
            thread[u].pc = "post" \/ u = t
    BY <1>2, <1>7 DEF IdleThread
  <2> QED BY <1>7, <2>1 DEF Posting
<1>9. /\ IsFiniteSet(Posting') /\ Cardinality(Posting) \in Nat
      /\ Cardinality(Posting') = Cardinality(Posting) + 1
  BY <1>8, FS_AddElement, FS_CardinalityType DEF TokenInv
<1>10. Looking' = Looking
  BY <1>7 DEF Looking
<1>11. Cardinality(Slots(Lengths'))
           <= queueSem' + Looking' + Cardinality(Posting')
  BY <1>3, <1>6, <1>7, <1>9, <1>10 DEF TokenInv
<1> QED BY <1>3, <1>6, <1>9, <1>11 DEF TokenInv

LEMMA TokenPosted ==
    ASSUME IInv, IInv', TokenInv, Down', NEW t \in Thread, PostJob(t)
    PROVE  TokenInv'
<1>1. /\ Lengths \in [Client -> Nat] /\ Slots(Lengths)' = Slots(Lengths')
      /\ queueSem \in Nat /\ Looking \in 0..1
      /\ thread \in [Thread -> ThreadState]
  BY LengthTypes, LengthsAfter DEF IInv, TypeOK
<1>2. /\ thread[t].pc = "post" /\ thread' = [thread EXCEPT ![t] = IdleThread]
      /\ queueSem' = queueSem + 1
      /\ UNCHANGED <<fifo, worker>>
  BY DEF PostJob, clientVars
<1>3. Lengths' = Lengths /\ Looking' = Looking
  BY <1>2 DEF Lengths, Looking
<1>4. Posting' = Posting \ {t} /\ t \in Posting
  <2>1. \A u \in Thread : thread'[u].pc = "post" <=>
            thread[u].pc = "post" /\ u # t
    BY <1>1, <1>2 DEF IdleThread
  <2> QED BY <1>2, <2>1 DEF Posting
<1>5. /\ IsFiniteSet(Posting') /\ Cardinality(Posting) \in Nat
      /\ Cardinality(Posting') = Cardinality(Posting) - 1
  BY <1>4, FS_RemoveElement, FS_CardinalityType DEF TokenInv
<1>6. IsFiniteSet(Slots(Lengths)) /\ Cardinality(Slots(Lengths)) \in Nat
  BY FS_CardinalityType DEF TokenInv
<1>7. Cardinality(Slots(Lengths))
          <= queueSem' + Looking' + Cardinality(Posting')
  BY <1>1, <1>2, <1>3, <1>5, <1>6 DEF TokenInv
<1> QED BY <1>1, <1>3, <1>5, <1>6, <1>7 DEF TokenInv

\* The worker takes a token to look, or looks in vain
LEMMA TokenTaken ==
    ASSUME EndInv, IInv, IInv', TokenInv, Down', AcquireQueueSem \/ SelectNothing
    PROVE  TokenInv'
<1>1. /\ Lengths \in [Client -> Nat] /\ Slots(Lengths)' = Slots(Lengths')
      /\ queueSem \in Nat /\ worker \in Worker
      /\ queueSem' \in Nat /\ Looking' \in 0..1
  BY LengthTypes, LengthsAfter DEF IInv, TypeOK
<1>2. UNCHANGED <<fifo, thread>>
  BY DEF AcquireQueueSem, SelectNothing, clientVars
<1>3. Lengths' = Lengths /\ Posting' = Posting
  BY <1>2 DEF Lengths, Posting
<1>4. /\ IsFiniteSet(Slots(Lengths)) /\ Cardinality(Slots(Lengths)) \in Nat
      /\ Cardinality(Posting) \in Nat
  BY FS_CardinalityType DEF TokenInv
<1>5. CASE AcquireQueueSem
  <2>1. /\ queueSem' = queueSem - 1
        /\ worker.pc = "wait" /\ worker'.pc = "select"
    BY <1>1, <1>5 DEF AcquireQueueSem, Worker
  <2>2. Looking = 0 /\ Looking' = 1
    BY <2>1 DEF Looking
  <2>3. Cardinality(Slots(Lengths))
            <= queueSem' + Looking' + Cardinality(Posting)
    BY <1>1, <1>4, <2>1, <2>2 DEF TokenInv
  <2> QED BY <1>1, <1>3, <1>4, <2>3 DEF TokenInv
<1>6. CASE SelectNothing
  <2>1. worker.pc = "select" /\ (~queueUp \/ ~(\E c \in Client : IsNextReady(c)))
    BY <1>6 DEF SelectNothing
  <2>2. ASSUME NEW c \in Client PROVE fifo[c] = <<>>
    <3> SUFFICES ASSUME fifo[c] # <<>> PROVE FALSE
      OBVIOUS
    <3>1. phase[c] = "open" /\ ~queueLost[c] /\ queueMode[c] # "safe"
      BY DEF IInv, ListsInv, EndInv, LostInv
    <3>2. ~activeJob[c]
      BY <2>1 DEF IInv, WorkerInv, ActivePc
    <3>3. queueUp
      BY <3>1 DEF TokenInv, Down
    <3> QED BY <2>1, <3>1, <3>2, <3>3, ReadyIsFound DEF Ready
  <2>3. \A c \in Client : Lengths[c] = 0
    BY <2>2, LengthTypes, Sizes
  <2>4. Slots(Lengths) = {}
    BY <2>3 DEF Slots
  <2>5. Cardinality(Slots(Lengths)) = 0
    BY <2>4, FS_EmptySet
  <2>6. Cardinality(Slots(Lengths))
            <= queueSem' + Looking' + Cardinality(Posting)
    BY <1>1, <1>4, <2>5
  <2> QED BY <1>1, <1>3, <1>4, <2>6 DEF TokenInv
<1> QED BY <1>5, <1>6

LEMMA TokenStarted ==
    ASSUME IInv, IInv', TokenInv, Down', NEW c \in Client, StartJob(c)
    PROVE  TokenInv'
<1>1. /\ Lengths \in [Client -> Nat] /\ Lengths' \in [Client -> Nat]
      /\ Slots(Lengths)' = Slots(Lengths')
      /\ queueSem \in Nat
  BY LengthTypes, LengthsAfter
<1>2. /\ worker.pc = "select" /\ worker'.pc = "execute"
      /\ fifo[c] # <<>> /\ OnlyAt(c, fifo, fifo') /\ fifo'[c] = Tail(fifo[c])
  BY StartedStep DEF Started
<1>3. UNCHANGED <<queueSem, thread>>
  BY DEF StartJob
<1>4. OnlyAt(c, Lengths, Lengths') /\ Lengths[c] = Lengths'[c] + 1
  <2>1. fifo[c] \in Seq(Job)
    BY DEF IInv, TypeOK
  <2>2. Size(fifo[c]) = Size(fifo'[c]) + 1
    BY <1>2, <2>1, Sizes
  <2> QED BY <1>2, <2>2, LengthTypes, LengthsAfter DEF OnlyAt
<1>5. Lengths[c] <= LastFence
  BY ShortFifos
<1>6. /\ IsFiniteSet(Slots(Lengths'))
      /\ Cardinality(Slots(Lengths')) \in Nat
      /\ Cardinality(Slots(Lengths)) = Cardinality(Slots(Lengths')) + 1
  BY <1>1, <1>4, <1>5, SlotsCounted DEF TokenInv
<1>7. Posting' = Posting /\ Looking = 1 /\ Looking' = 0
  BY <1>2, <1>3 DEF Posting, Looking
<1>8. IsFiniteSet(Posting) /\ Cardinality(Posting) \in Nat
  BY FS_CardinalityType DEF TokenInv
<1>9. Cardinality(Slots(Lengths'))
          <= queueSem' + Looking' + Cardinality(Posting')
  BY <1>1, <1>3, <1>6, <1>7, <1>8 DEF TokenInv
<1> QED BY <1>1, <1>6, <1>7, <1>8, <1>9 DEF TokenInv

LEMMA TokenNext ==
    ASSUME EndInv, TokenInv, [Next]_vars
    PROVE  TokenInv'
<1>0. /\ IInv /\ IInv' /\ Down'
      /\ worker \in Worker /\ thread \in [Thread -> ThreadState]
      /\ fifo \in [Client -> Seq(Job)] /\ queueSem \in Nat
  <2>1. IInv /\ IInv'
    BY NextInv DEF EndInv
  <2> QED BY <2>1, StaysDown DEF TokenInv, IInv, TypeOK
<1>1. ASSUME UNCHANGED <<fifo, thread, queueSem>>,
             worker'.pc = "select" <=> worker.pc = "select"
      PROVE  TokenInv'
  BY <1>0, <1>1, TokenRest
<1>2. CASE WorkerStep
  <2>1. CASE ExecuteJob \/ CompleteJob \/ CancelJob \/ CancelDone
             \/ DropCancelled \/ NotifyCompletion \/ FinishJob \/ WakeFree
    <3>1. UNCHANGED <<fifo, thread, queueSem>>
      BY <2>1 DEF ExecuteJob, CompleteJob, CancelJob, CancelDone,
         DropCancelled, NotifyCompletion, FinishJob, WakeFree, clientVars,
         deviceVars
    <3>2. worker.pc # "select"
      BY <2>1 DEF ExecuteJob, CompleteJob, CancelJob, CancelDone,
         DropCancelled, NotifyCompletion, FinishJob, WakeFree
    <3>3. worker'.pc # "select"
      <4>1. CASE ExecuteJob \/ CompleteJob \/ CancelJob
        BY <1>0, <4>1 DEF ExecuteJob, CompleteJob, CancelJob, Worker
      <4>2. CASE CancelDone \/ DropCancelled \/ NotifyCompletion
        BY <1>0, <4>2 DEF CancelDone, DropCancelled, NotifyCompletion, Worker
      <4>3. CASE FinishJob \/ WakeFree
        BY <1>0, <4>3 DEF FinishJob, WakeFree, Worker, IdleWorker
      <4> QED BY <2>1, <4>1, <4>2, <4>3
    <3> QED BY <1>1, <3>1, <3>2, <3>3
  <2>2. CASE FailJob
    <3>1. /\ UNCHANGED <<thread, queueSem>>
          /\ worker.pc # "select" /\ worker'.pc # "select"
          /\ fifo' = [fifo EXCEPT ![worker.client] = <<>>]
      BY <1>0, <2>2 DEF FailJob, deviceVars, Worker
    <3>2. \A c \in Client : fifo'[c] = fifo[c] \/ fifo'[c] = <<>>
      BY <1>0, <3>1
    <3> QED BY <1>0, <3>1, <3>2, TokenRest
  <2> QED BY <1>0, <1>2, <2>1, <2>2, TokenTaken, TokenStarted DEF WorkerStep
<1>3. ASSUME NEW t \in Thread, Call(t) \/ ThreadStep(t) \/ GiveUp(t)
      PROVE  TokenInv'
  <2>1. ASSUME NEW names \in SUBSET Buffer, EnqueueRenderCommands(t, names)
        PROVE  TokenInv'
    BY <1>0, <2>1, TokenAppended DEF EnqueueRenderCommands
  <2>2. ASSUME NEW b \in Buffer, NEW stream \in Stream,
               EnqueueRenderDirectPresent(t, b, stream)
        PROVE  TokenInv'
    <3>1. /\ Calls(t) /\ queueMode[Owner[t]] # "safe"
          /\ AppendJob(t, "present", stream, {b})
          /\ stream # 0 /\ stream \in Stream \cup {0}
      BY <2>2, QueueConstants DEF EnqueueRenderDirectPresent
    <3> QED BY <1>0, <3>1, TokenAppended
  <2>3. CASE \E mode \in Mode, inject \in BOOLEAN :
                 ConfigureRenderQueue(t, mode, inject)
    BY <1>0, <1>1, <2>3 DEF ConfigureRenderQueue, deviceVars
  <2>4. ASSUME UNCHANGED <<fifo, queueSem, worker>>,
               \/ GiveUp(t) \/ AcquireCompletion(t) \/ DrainToken(t)
               \/ DequeueRenderCompletion(t)
               \/ \E f : LookUpFence(t, f) /\ thread[t].pc \in {"idle", "check"}
        PROVE  TokenInv'
    <3>1. thread'[t].pc # "post" /\ thread[t].pc # "post"
      BY <1>0, <2>4 DEF GiveUp, AcquireCompletion, DrainToken,
         DequeueRenderCompletion, Calls, LookUpFence, ThreadState, IdleThread
    <3>2. \A u \in Thread : u # t => thread'[u] = thread[u]
      BY <1>0, <2>4 DEF GiveUp, AcquireCompletion, DrainToken,
         DequeueRenderCompletion, Calls, LookUpFence
    <3>3. \A u \in Thread : thread'[u].pc = "post" <=> thread[u].pc = "post"
      BY <3>1, <3>2
    <3> QED BY <1>0, <2>4, <3>3, TokenRest
  <2>5. CASE \/ GiveUp(t) \/ AcquireCompletion(t) \/ DrainToken(t)
             \/ DequeueRenderCompletion(t) \/ CheckAgain(t)
             \/ \E f \in Fence : WaitRenderQueueFence(t, f)
    <3>1. UNCHANGED <<fifo, queueSem, worker>>
      BY <2>5 DEF GiveUp, AcquireCompletion, DrainToken, CheckAgain,
         DequeueRenderCompletion, WaitRenderQueueFence, LookUpFence,
         clientVars, deviceVars
    <3> QED BY <2>4, <2>5, <3>1 DEF CheckAgain, WaitRenderQueueFence, Calls
  <2> QED BY <1>0, <1>3, <2>1, <2>2, <2>3, <2>5, TokenPosted
             DEF Call, ThreadStep
<1>4. ASSUME NEW c \in Client,
             OpenClient(c) \/ ClientCall(c) \/ FreeStep(c)
      PROVE  TokenInv'
  <2>1. UNCHANGED <<fifo, thread, queueSem, worker>>
    BY <1>4 DEF OpenClient, ClientCall, FreeStep, CreateRenderBuffer,
       CloseRenderBuffer, SelectRenderQueue, DeselectRenderQueue,
       CancelAtFree, CancelAtFreeDone, DropAtFree, AwaitIdle, UnlinkClient,
       clientVars, deviceVars
  <2> QED BY <1>1, <2>1
<1>5. ASSUME NEW c \in Client, BeginFree(c) PROVE TokenInv'
  <2>1. /\ UNCHANGED <<thread, queueSem, worker>>
        /\ fifo' = [fifo EXCEPT ![c] = <<>>]
    BY <1>5 DEF BeginFree, deviceVars
  <2>2. \A d \in Client : fifo'[d] = fifo[d] \/ fifo'[d] = <<>>
    BY <1>0, <2>1
  <2> QED BY <1>0, <2>1, <2>2, TokenRest
<1>6. CASE ShutdownRenderQueue
  <2>1. /\ UNCHANGED <<fifo, thread, worker>> /\ queueSem' = queueSem + 1
    BY <1>6 DEF ShutdownRenderQueue, clientVars
  <2> QED BY <1>0, <2>1, TokenRest
<1>7. CASE UNCHANGED vars
  BY <1>1, <1>7 DEF vars, clientVars, deviceVars
<1> QED BY <1>2, <1>3, <1>4, <1>5, <1>6, <1>7 DEF Next

LEMMA TokenInit == Init => TokenInv
<1> SUFFICES ASSUME Init PROVE TokenInv
  OBVIOUS
<1>1. \A c \in Client : Lengths[c] = 0
  BY Sizes DEF Init, Lengths
<1>2. Slots(Lengths) = {}
  BY <1>1 DEF Slots
<1>3. Posting = {}
  BY DEF Init, IdleThread, Posting
<1>4. queueSem = 0 /\ Looking = 0 /\ queueUp
  BY DEF Init, IdleWorker, Looking
<1> QED BY <1>2, <1>3, <1>4, FS_EmptySet DEF TokenInv, Down

\* No queued job is left without a wakeup: for every job in a FIFO the worker
\* has a token of renderQueueSem to consume, is about to look, or an enqueuer
\* is about to post.
THEOREM WakeupsCorrect == Spec => []NoLostWork
<1>1. EndInv /\ TokenInv => NoLostWork
  BY LengthTypes DEF TokenInv, NoLostWork, Posting, Looking, EndInv
<1> QED BY <1>1, TokenInit, TokenNext, EndInvariance, PTL DEF Spec
=============================================================================
