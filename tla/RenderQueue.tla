----------------------------- MODULE RenderQueue -----------------------------
(***************************************************************************)
(* The asynchronous render queue of the intel_valleyview driver,           *)
(* RenderQueue.cpp: one FIFO and one fence timeline per open client, one   *)
(* kernel worker that executes jobs round-robin, completion records,       *)
(* fence waiters, select() pools, and the tear-down of a client while the  *)
(* worker may be executing one of its jobs.                                *)
(*                                                                         *)
(* A critical section of renderQueueLock is one step, except the two loops *)
(* that cancel a FIFO: they take one step per job with the lock held (see  *)
(* QueueLockFree).  A critical section of renderLock is one step.  What    *)
(* the GPU does with a job is a choice between success and failure.        *)
(*                                                                         *)
(* Driver initialisation succeeded in the initial state.  acquire_sem is   *)
(* called without B_CAN_INTERRUPT by the worker and by Free, so these two  *)
(* waits end only with a token.                                            *)
(***************************************************************************)
EXTENDS RenderQueueCore, Sequences, FiniteSets

CONSTANTS
    Client,         \* the opens of the device node
    Thread,         \* application threads that issue the ioctls
    Owner,          \* the client each thread works on
    Buffer,         \* names of buffer objects of a client
    Stream,         \* window streams of asynchronous presents
    Mode,           \* the queue modes applications configure
    Event,          \* the events applications select() on
    Ioctl,          \* the optional calls each thread makes
    RecordAllocated,    \* possible answers of calloc for a completion record
    MaxRecords,     \* kRenderMaxCompletionRecords (64 in the driver)
    NoClient

ASSUME QueueConstants ==
    /\ Owner \in [Thread -> Client]
    /\ Stream \subseteq Nat \ {0}
    /\ Mode \subseteq {"safe", "async", "direct"}
    /\ Event \subseteq {"read", "write", "error"}
    /\ Ioctl \in [Thread -> SUBSET {"wait", "dequeue", "inject"}]
    /\ RecordAllocated \subseteq BOOLEAN /\ TRUE \in RecordAllocated
    /\ MaxRecords \in Nat \ {0}
    /\ NoClient \notin Client

VARIABLES
    phase,          \* life of a client: unopened, open, Free's steps, gone
    queueState, queueMode, queueLost, lastFailed, failNext,
    fifo,           \* queueHead..queueTail
    activeJob,      \* whether client.activeJob is non-NULL
    records,        \* completionHead..completionTail
    completionSem, idleSem,
    selected,       \* state of the select() interest per client and event
    bufferState, queuedReferences,
    closeTodo,      \* Free: jobs the cancel loop has still to visit
    closeDrop,      \* Free: cancelled jobs whose references are still held
    renderClients,  \* the device's list of clients, head first
    cursor,         \* renderQueueCursor
    queuedJobs,     \* device.renderQueuedJobs
    queueSem, queueUp,
    worker, thread,
    outcome, epoch  \* history: how each fence really ended, and the last
                    \* fence retired before the latest ConfigureRenderQueue

clientVars == <<phase, queueState, queueMode, queueLost, lastFailed, failNext,
                fifo, activeJob>>
signalVars == <<records, completionSem, idleSem, selected>>
bufferVars == <<bufferState, queuedReferences>>
closeVars == <<closeTodo, closeDrop>>
deviceVars == <<renderClients, cursor, queuedJobs, queueSem, queueUp>>
history == <<outcome, epoch>>
vars == <<clientVars, signalVars, bufferVars, closeVars, deviceVars, worker,
          thread, history>>

-----------------------------------------------------------------------------
Fence == 1..LastFence

Job == [fence: 0..LastFence, kind: {"commands", "present"},
        stream: Stream \cup {0}, buffers: SUBSET Buffer, drop: BOOLEAN]

NoJob == [fence |-> 0, kind |-> "commands", stream |-> 0, buffers |-> {},
          drop |-> FALSE]

Result == {"complete", "failed", "cancelled"}
Record == [fence: 0..LastFence, result: Result]

\* Where the worker thread is, and its local variables
Worker == [pc: {"wait", "select", "execute", "settle", "cancel", "drop",
                "notify", "finish", "wake", "exited"},
           client: Client \cup {NoClient}, job: Job, ok: BOOLEAN,
           todo: Seq(Job), cancelled: Seq(Job), signals: Nat]

IdleWorker == [pc |-> "wait", client |-> NoClient, job |-> NoJob, ok |-> TRUE,
               todo |-> <<>>, cancelled |-> <<>>, signals |-> 0]

\* A thread is between two ioctls, or inside one that has several steps
ThreadState == [pc: {"idle", "post", "asleep", "check", "drain"},
                fence: 0..LastFence, result: Result \cup {"none"}]

IdleThread == [pc |-> "idle", fence |-> 0, result |-> "none"]

Init ==
    /\ phase = [c \in Client |-> "unopened"]
    /\ queueState = [c \in Client |-> InitQueueState]
    /\ queueMode = [c \in Client |-> "safe"]
    /\ queueLost = [c \in Client |-> FALSE]
    /\ lastFailed = [c \in Client |-> 0]
    /\ failNext = [c \in Client |-> FALSE]
    /\ fifo = [c \in Client |-> <<>>]
    /\ activeJob = [c \in Client |-> FALSE]
    /\ records = [c \in Client |-> <<>>]
    /\ completionSem = [c \in Client |-> 0]
    /\ idleSem = [c \in Client |-> 0]
    /\ selected = [c \in Client |-> [e \in Event |-> "off"]]
    /\ bufferState = [c \in Client |-> [b \in Buffer |-> "absent"]]
    /\ queuedReferences = [c \in Client |-> [b \in Buffer |-> 0]]
    /\ closeTodo = [c \in Client |-> <<>>]
    /\ closeDrop = [c \in Client |-> <<>>]
    /\ renderClients = <<>>
    /\ cursor = NoClient
    /\ queuedJobs = 0
    /\ queueSem = 0
    /\ queueUp = TRUE
    /\ worker = IdleWorker
    /\ thread = [t \in Thread |-> IdleThread]
    /\ outcome = [c \in Client |-> [f \in Fence |-> "pending"]]
    /\ epoch = [c \in Client |-> 0]

\* renderQueueLock is held across steps only by the loops that cancel a FIFO
QueueLockFree ==
    /\ worker.pc # "cancel"
    /\ \A c \in Client : phase[c] # "cancelling"

\* Mutation of Decrement: the guard against going below zero is off by one
DecrementAboveOne(n) == IF n > 1 THEN n - 1 ELSE n

Decrement(n) == IF n > 0 THEN n - 1 ELSE 0

\* Mutation of Closing: set only when Free starts to wait
ClosingOnlyInWait(c) == phase[c] = "waitIdle"

\* client.closing
Closing(c) == phase[c] \notin {"unopened", "open"}

\* Mutation of LoseQueue: the client stays usable
LoseQueueQuietly(c, fence) ==
    /\ UNCHANGED queueLost
    /\ lastFailed' = [lastFailed EXCEPT ![c] = fence]

LoseQueue(c, fence) ==
    /\ queueLost' = [queueLost EXCEPT ![c] = TRUE]
    /\ lastFailed' = [lastFailed EXCEPT ![c] = fence]

\* PruneCompletionLocked, then the append of AppendCompletionLocked.  The
\* oldest record goes even when the allocation of the new one fails.
Pruned(s) == IF Len(s) < MaxRecords \/ s = <<>> THEN s ELSE Tail(s)

AppendCompletion(c, job, result, allocated) ==
    records' = [records EXCEPT ![c] =
        IF allocated
        THEN Append(Pruned(@), [fence |-> job.fence, result |-> result])
        ELSE Pruned(@)]

Signal(allocated) == IF allocated THEN 1 ELSE 0

\* Mutation of Notified: ERROR selectors are forgotten
NotifiedButError(c, events) ==
    [selected EXCEPT ![c] = [e \in Event |->
        IF e \in events \ {"error"} /\ @[e] # "off" THEN "fired" ELSE @[e]]]

\* Mutation of Notified: WRITE selectors are forgotten
NotifiedButWrite(c, events) ==
    [selected EXCEPT ![c] = [e \in Event |->
        IF e \in events \ {"write"} /\ @[e] # "off" THEN "fired" ELSE @[e]]]

\* notify_select_event_pool for a set of events
Notified(c, events) ==
    [selected EXCEPT ![c] = [e \in Event |->
        IF e \in events /\ @[e] # "off" THEN "fired" ELSE @[e]]]

\* Mutation of ReleaseReferences: the deferred close is forgotten
ReleaseReferencesOnly(c, names) ==
    /\ queuedReferences' = [queuedReferences EXCEPT ![c] = [b \in Buffer |->
           IF b \in names /\ @[b] # 0 THEN @[b] - 1 ELSE @[b]]]
    /\ UNCHANGED bufferState

\* ReleaseRenderQueueReferences: drop the references, close the buffers whose
\* close was deferred to the last of them
ReleaseReferences(c, names) ==
    LET held(b) == b \in names /\ queuedReferences[c][b] # 0 IN
    /\ queuedReferences' = [queuedReferences EXCEPT ![c] = [b \in Buffer |->
           IF held(b) THEN @[b] - 1 ELSE @[b]]]
    /\ bufferState' = [bufferState EXCEPT ![c] = [b \in Buffer |->
           IF held(b) /\ queuedReferences[c][b] = 1 /\ @[b] = "closePending"
           THEN "freed" ELSE @[b]]]

Resolve(c, fence, result) == outcome' = [outcome EXCEPT ![c][fence] = result]

-----------------------------------------------------------------------------
(***************************************************************************)
(* The worker thread, RenderQueueWorker.                                   *)
(***************************************************************************)

\* Mutation of Ready: the scan ends before it comes back to the cursor
ReadyButCursor(c) ==
    /\ phase[c] = "open" /\ ~queueLost[c] /\ queueMode[c] # "safe"
    /\ ~activeJob[c] /\ fifo[c] # <<>> /\ cursor # c

Ready(c) ==
    /\ phase[c] = "open"
    /\ ~queueLost[c]
    /\ queueMode[c] # "safe"
    /\ ~activeJob[c]
    /\ fifo[c] # <<>>

Position(c) == CHOOSE i \in DOMAIN renderClients : renderClients[i] = c

\* Mutation of Distance: the scan starts at the cursor, not behind it
DistanceFromCursor(c) ==
    LET start == IF cursor = NoClient THEN 0 ELSE Position(cursor) - 1
    IN (Position(c) - 1 + Len(renderClients) - start) % Len(renderClients)

\* How many clients SelectReadyClientLocked looks at before c: it starts
\* behind the cursor, or at the head, and wraps around
Distance(c) ==
    LET start == IF cursor = NoClient THEN 0 ELSE Position(cursor)
    IN (Position(c) - 1 + Len(renderClients) - start) % Len(renderClients)

\* Mutation of IsNextReady: the scan stops at the end of the list
IsNextReadyWithoutWrap(c) ==
    /\ c \in {renderClients[i] : i \in DOMAIN renderClients}
    /\ Ready(c)
    /\ cursor # NoClient => Position(c) > Position(cursor)
    /\ \A d \in {renderClients[i] : i \in DOMAIN renderClients} :
           Ready(d) => Distance(c) <= Distance(d)

IsNextReady(c) ==
    /\ c \in {renderClients[i] : i \in DOMAIN renderClients}
    /\ Ready(c)
    /\ \A d \in {renderClients[i] : i \in DOMAIN renderClients} :
           Ready(d) => Distance(c) <= Distance(d)

AcquireQueueSem ==
    /\ worker.pc = "wait"
    /\ queueSem > 0
    /\ queueSem' = queueSem - 1
    /\ worker' = [worker EXCEPT !.pc = "select"]
    /\ UNCHANGED <<clientVars, signalVars, bufferVars, closeVars,
                   renderClients, cursor, queuedJobs, queueUp, thread, history>>

\* The worker leaves once ShutdownRenderQueue has cleared renderQueueRunning,
\* and goes back to sleep when no client is ready
SelectNothing ==
    /\ worker.pc = "select"
    /\ QueueLockFree
    /\ ~queueUp \/ ~(\E c \in Client : IsNextReady(c))
    /\ worker' = [worker EXCEPT !.pc = IF queueUp THEN "wait" ELSE "exited"]
    /\ UNCHANGED <<clientVars, signalVars, bufferVars, closeVars, deviceVars,
                   thread, history>>

\* Pop the head of the next ready client, start it, tell WRITE selectors.  The
\* injected failure of ConfigureRenderQueue is consumed by the first job.
StartJob(c) ==
    LET job == Head(fifo[c])
        starts == CanStart(queueState[c], job.fence)
    IN
    /\ worker.pc = "select"
    /\ QueueLockFree
    /\ queueUp
    /\ IsNextReady(c)
    /\ cursor' = c
    /\ fifo' = [fifo EXCEPT ![c] = Tail(@)]
    /\ IF starts
       THEN /\ queueState' =
                   [queueState EXCEPT ![c] = StartRenderJob(@, job.fence)]
            /\ UNCHANGED <<queueLost, lastFailed>>
       ELSE LoseQueue(c, job.fence) /\ UNCHANGED queueState
    /\ activeJob' = [activeJob EXCEPT ![c] = TRUE]
    /\ queuedJobs' = Decrement(queuedJobs)
    /\ failNext' = [failNext EXCEPT ![c] = FALSE]
    /\ selected' = Notified(c, {"write"})
    /\ worker' = [worker EXCEPT !.pc = "execute", !.client = c, !.job = job,
                                !.ok = ~failNext[c], !.signals = 0]
    /\ UNCHANGED <<phase, queueMode, records, completionSem, idleSem,
                   bufferVars, closeVars, renderClients, queueSem, queueUp,
                   thread, history>>

\* A present that a newer one replaced does nothing and succeeds; any other
\* job may fail.  The references go before the outcome is published.
ExecuteJob ==
    LET c == worker.client
        job == worker.job
    IN
    /\ worker.pc = "execute"
    /\ \E succeeds \in BOOLEAN :
           /\ worker.ok /\ job.kind = "present" /\ job.drop => succeeds
           /\ worker' = [worker EXCEPT !.pc = "settle",
                                       !.ok = @ /\ succeeds]
    /\ ReleaseReferences(c, job.buffers)
    /\ UNCHANGED <<clientVars, signalVars, closeVars, deviceVars, thread,
                   history>>

\* The job succeeded: the timeline advances past it
CompleteJob ==
    LET c == worker.client
        job == worker.job
    IN
    /\ worker.pc = "settle"
    /\ QueueLockFree
    /\ worker.ok
    /\ CanFinish(queueState[c], job.fence)
    /\ queueState' =
           [queueState EXCEPT ![c] = FinishRunningRenderJob(@, job.fence)]
    /\ \E allocated \in RecordAllocated :
           /\ AppendCompletion(c, job, "complete", allocated)
           /\ worker' = [worker EXCEPT !.pc = "notify",
                                       !.signals = Signal(allocated)]
    /\ Resolve(c, job.fence, "complete")
    /\ UNCHANGED <<phase, queueMode, queueLost, lastFailed, failNext, fifo,
                   activeJob, completionSem, idleSem, selected, bufferVars,
                   closeVars, deviceVars, thread, epoch>>

\* The job failed: the client is lost and its whole FIFO is detached, to be
\* cancelled before the lock is released
FailJob ==
    LET c == worker.client
        job == worker.job
    IN
    /\ worker.pc = "settle"
    /\ QueueLockFree
    /\ ~(worker.ok /\ CanFinish(queueState[c], job.fence))
    /\ queueState' = [queueState EXCEPT ![c] =
           IF CanFinish(@, job.fence)
           THEN FinishRunningRenderJob(@, job.fence) ELSE @]
    /\ LoseQueue(c, job.fence)
    /\ \E allocated \in RecordAllocated :
           /\ AppendCompletion(c, job, "failed", allocated)
           /\ worker' = [worker EXCEPT !.pc = "cancel", !.ok = FALSE,
                                       !.signals = Signal(allocated),
                                       !.todo = fifo[c],
                                       !.cancelled = fifo[c]]
    /\ fifo' = [fifo EXCEPT ![c] = <<>>]
    /\ Resolve(c, job.fence, "failed")
    /\ UNCHANGED <<phase, queueMode, failNext, activeJob, completionSem,
                   idleSem, selected, bufferVars, closeVars, deviceVars,
                   thread, epoch>>

\* One turn of the loop that cancels the detached FIFO, with the lock held
CancelJob ==
    LET c == worker.client
        job == Head(worker.todo)
    IN
    /\ worker.pc = "cancel"
    /\ worker.todo # <<>>
    /\ queueState' = [queueState EXCEPT ![c] =
           IF CanCancel(@, job.fence)
           THEN CancelQueuedRenderJob(@, job.fence) ELSE @]
    /\ queuedJobs' = Decrement(queuedJobs)
    /\ \E allocated \in RecordAllocated :
           /\ AppendCompletion(c, job, "cancelled", allocated)
           /\ worker' = [worker EXCEPT !.todo = Tail(@),
                                       !.signals = @ + Signal(allocated)]
    /\ Resolve(c, job.fence, "cancelled")
    /\ UNCHANGED <<phase, queueMode, queueLost, lastFailed, failNext, fifo,
                   activeJob, completionSem, idleSem, selected, bufferVars,
                   closeVars, renderClients, cursor, queueSem, queueUp, thread,
                   epoch>>

CancelDone ==
    /\ worker.pc = "cancel"
    /\ worker.todo = <<>>
    /\ worker' = [worker EXCEPT !.pc = "drop"]
    /\ UNCHANGED <<clientVars, signalVars, bufferVars, closeVars, deviceVars,
                   thread, history>>

\* One turn of the loop that frees the cancelled jobs, without the lock
DropCancelled ==
    /\ worker.pc = "drop"
    /\ IF worker.cancelled = <<>>
       THEN /\ worker' = [worker EXCEPT !.pc = "notify"]
            /\ UNCHANGED bufferVars
       ELSE /\ worker' = [worker EXCEPT !.cancelled = Tail(@)]
            /\ ReleaseReferences(worker.client, Head(worker.cancelled).buffers)
    /\ UNCHANGED <<clientVars, signalVars, closeVars, deviceVars, thread,
                   history>>

\* NotifyCompletion, once per appended record, without the lock
NotifyCompletion ==
    LET c == worker.client IN
    /\ worker.pc = "notify"
    /\ IF worker.signals = 0
       THEN /\ worker' = [worker EXCEPT !.pc = "finish"]
            /\ UNCHANGED <<completionSem, selected>>
       ELSE /\ worker' = [worker EXCEPT !.signals = @ - 1]
            /\ completionSem' = [completionSem EXCEPT ![c] = @ + 1]
            /\ selected' = Notified(c,
                   IF worker.ok THEN {"read"} ELSE {"read", "error"})
    /\ UNCHANGED <<clientVars, records, idleSem, bufferVars, closeVars,
                   deviceVars, thread, history>>

\* activeJob and closing are one critical section; a Free that saw activeJob
\* is woken after it
FinishJob ==
    LET c == worker.client IN
    /\ worker.pc = "finish"
    /\ QueueLockFree
    /\ activeJob' = [activeJob EXCEPT ![c] = FALSE]
    /\ worker' = IF Closing(c)
                 THEN [worker EXCEPT !.pc = "wake"] ELSE IdleWorker
    /\ UNCHANGED <<phase, queueState, queueMode, queueLost, lastFailed,
                   failNext, fifo, signalVars, bufferVars, closeVars,
                   deviceVars, thread, history>>

WakeFree ==
    /\ worker.pc = "wake"
    /\ idleSem' = [idleSem EXCEPT ![worker.client] = @ + 1]
    /\ worker' = IdleWorker
    /\ UNCHANGED <<clientVars, records, completionSem, selected, bufferVars,
                   closeVars, deviceVars, thread, history>>

WorkerStep ==
    \/ AcquireQueueSem \/ SelectNothing \/ (\E c \in Client : StartJob(c))
    \/ ExecuteJob \/ CompleteJob \/ FailJob \/ CancelJob \/ CancelDone
    \/ DropCancelled \/ NotifyCompletion \/ FinishJob \/ WakeFree

-----------------------------------------------------------------------------
(***************************************************************************)
(* The ioctls of application threads.  Only calls that change something    *)
(* are steps: a refused call returns an error and leaves the state alone.  *)
(***************************************************************************)

Calls(t) ==     \* the thread can enter the driver for its client
    /\ thread[t].pc = "idle"
    /\ phase[Owner[t]] = "open"

CreateRenderBuffer(c, b) ==
    /\ phase[c] = "open"
    /\ bufferState[c][b] = "absent"
    /\ bufferState' = [bufferState EXCEPT ![c][b] = "open"]
    /\ UNCHANGED <<clientVars, signalVars, queuedReferences, closeVars,
                   deviceVars, worker, thread, history>>

CloseRenderBuffer(c, b) ==
    /\ phase[c] = "open"
    /\ bufferState[c][b] \in {"open", "closePending"}
    /\ bufferState' = [bufferState EXCEPT ![c][b] =
           IF queuedReferences[c][b] # 0 THEN "closePending" ELSE "freed"]
    /\ UNCHANGED <<clientVars, signalVars, queuedReferences, closeVars,
                   deviceVars, worker, thread, history>>

\* Refused while a job is queued or active
ConfigureRenderQueue(t, mode, inject) ==
    LET c == Owner[t] IN
    /\ Calls(t)
    /\ QueueLockFree
    /\ ~activeJob[c] /\ fifo[c] = <<>>
    /\ mode # "safe" => queueUp
    /\ queueMode' = [queueMode EXCEPT ![c] = mode]
    /\ failNext' = [failNext EXCEPT ![c] = inject]
    /\ queueLost' = [queueLost EXCEPT ![c] = FALSE]
    /\ lastFailed' = [lastFailed EXCEPT ![c] = 0]
    /\ epoch' = [epoch EXCEPT ![c] = queueState[c].retired]
    /\ UNCHANGED <<phase, queueState, fifo, activeJob, signalVars, bufferVars,
                   closeVars, deviceVars, worker, thread, outcome>>

\* Presents of the same stream that still wait are superseded by the new one
Superseded(s, job) ==
    [i \in DOMAIN s |->
        IF s[i].kind = "present" /\ ShouldDropQueuedPresentation(s[i], job)
        THEN [s[i] EXCEPT !.drop = TRUE] ELSE s[i]]

\* What both enqueue calls do once the request is validated: take a reference
\* on every buffer, assign the fence, append.  The semaphore follows later.
AppendJob(t, kind, stream, names) ==
    LET c == Owner[t]
        job == [fence |-> queueState[c].next, kind |-> kind, stream |-> stream,
                buffers |-> names, drop |-> FALSE]
    IN
    /\ QueueLockFree
    /\ \A b \in names : bufferState[c][b] = "open"
    /\ queueUp
    /\ ~queueLost[c]
    /\ CanQueueRenderJob(queueState[c], queuedJobs)
    /\ queueState' = [queueState EXCEPT ![c] = QueueRenderJob(@)]
    /\ fifo' = [fifo EXCEPT ![c] = Append(
           IF kind = "present" THEN Superseded(@, job) ELSE @, job)]
    /\ queuedJobs' = queuedJobs + 1
    /\ queuedReferences' = [queuedReferences EXCEPT ![c] = [b \in Buffer |->
           IF b \in names THEN @[b] + 1 ELSE @[b]]]
    /\ thread' = [thread EXCEPT ![t] = [IdleThread EXCEPT !.pc = "post"]]
    /\ UNCHANGED <<phase, queueMode, queueLost, lastFailed, failNext,
                   activeJob, signalVars, bufferState, closeVars,
                   renderClients, cursor, queueSem, queueUp, worker, history>>

EnqueueRenderCommands(t, names) ==
    /\ Calls(t)
    /\ queueMode[Owner[t]] # "safe"
    /\ names # {}
    /\ AppendJob(t, "commands", 0, names)

EnqueueRenderDirectPresent(t, b, stream) ==
    /\ Calls(t)
    /\ queueMode[Owner[t]] = "direct"
    /\ AppendJob(t, "present", stream, {b})

\* release_sem(renderQueueSem), after the locks are gone
PostJob(t) ==
    /\ thread[t].pc = "post"
    /\ queueSem' = queueSem + 1
    /\ thread' = [thread EXCEPT ![t] = IdleThread]
    /\ UNCHANGED <<clientVars, signalVars, bufferVars, closeVars,
                   renderClients, cursor, queuedJobs, queueUp, worker, history>>

\* FindFenceLocked: the record if it is still there, else what the timeline
\* and the last failure let the driver deduce
RecordedFence(c, f) == {i \in DOMAIN records[c] : records[c][i].fence = f}

\* Mutation of FenceFound: only the records are searched
FenceRecorded(c, f) == RecordedFence(c, f) # {}

FenceFound(c, f) ==
    RecordedFence(c, f) # {} \/ RenderFenceIsRetired(queueState[c], f)

\* Mutation of FenceResult: the comparison with the failed fence is off by one
FenceResultOffByOne(c, f) ==
    IF RecordedFence(c, f) # {}
    THEN records[c][CHOOSE i \in RecordedFence(c, f) : TRUE].result
    ELSE IF lastFailed[c] = 0 \/ f <= lastFailed[c] THEN "complete"
    ELSE "cancelled"

FenceResult(c, f) ==
    IF RecordedFence(c, f) # {}
    THEN records[c][CHOOSE i \in RecordedFence(c, f) : TRUE].result
    ELSE IF lastFailed[c] = 0 \/ f < lastFailed[c] THEN "complete"
    ELSE IF f = lastFailed[c] THEN "failed" ELSE "cancelled"

\* One turn of WaitRenderQueueFence: answer, refuse a fence never handed out,
\* or go to sleep
LookUpFence(t, f) ==
    LET c == Owner[t] IN
    /\ QueueLockFree
    /\ thread' = [thread EXCEPT ![t] =
           IF FenceFound(c, f)
           THEN [pc |-> "idle", fence |-> f, result |-> FenceResult(c, f)]
           ELSE IF f >= queueState[c].next THEN IdleThread
           ELSE [pc |-> "asleep", fence |-> f, result |-> "none"]]
    /\ UNCHANGED <<clientVars, signalVars, bufferVars, closeVars, deviceVars,
                   worker, history>>

WaitRenderQueueFence(t, f) == Calls(t) /\ LookUpFence(t, f)

AcquireCompletion(t) ==
    LET c == Owner[t] IN
    /\ thread[t].pc = "asleep"
    /\ completionSem[c] > 0
    /\ completionSem' = [completionSem EXCEPT ![c] = @ - 1]
    /\ thread' = [thread EXCEPT ![t].pc = "check"]
    /\ UNCHANGED <<clientVars, records, idleSem, selected, bufferVars,
                   closeVars, deviceVars, worker, history>>

CheckAgain(t) == thread[t].pc = "check" /\ LookUpFence(t, thread[t].fence)

\* The timeout, or a signal to the thread
GiveUp(t) ==
    /\ thread[t].pc = "asleep"
    /\ thread' = [thread EXCEPT ![t] = IdleThread]
    /\ UNCHANGED <<clientVars, signalVars, bufferVars, closeVars, deviceVars,
                   worker, history>>

\* DequeueRenderCompletion takes the oldest record, then one token if there
\* is one
DequeueRenderCompletion(t) ==
    LET c == Owner[t] IN
    /\ Calls(t)
    /\ QueueLockFree
    /\ records[c] # <<>>
    /\ records' = [records EXCEPT ![c] = Tail(@)]
    /\ thread' = [thread EXCEPT ![t] =
           [pc |-> "drain", fence |-> Head(records[c]).fence,
            result |-> Head(records[c]).result]]
    /\ UNCHANGED <<clientVars, completionSem, idleSem, selected, bufferVars,
                   closeVars, deviceVars, worker, history>>

DrainToken(t) ==
    LET c == Owner[t] IN
    /\ thread[t].pc = "drain"
    /\ completionSem' = [completionSem EXCEPT ![c] = Decrement(@)]
    /\ thread' = [thread EXCEPT ![t].pc = "idle"]
    /\ UNCHANGED <<clientVars, records, idleSem, selected, bufferVars,
                   closeVars, deviceVars, worker, history>>

\* What makes SelectRenderQueue notify at once
EventHolds(c, e) ==
    \/ e = "read" /\ records[c] # <<>>
    \/ e = "error" /\ queueLost[c]
    \/ /\ e = "write"
       /\ phase[c] = "open"
       /\ ~queueLost[c]
       /\ queueMode[c] # "safe"
       /\ CanQueueRenderJob(queueState[c], queuedJobs)

SelectRenderQueue(c, e) ==
    /\ phase[c] = "open"
    /\ QueueLockFree
    /\ selected[c][e] = "off"
    /\ selected' = [selected EXCEPT ![c][e] =
           IF EventHolds(c, e) THEN "fired" ELSE "armed"]
    /\ UNCHANGED <<clientVars, records, completionSem, idleSem, bufferVars,
                   closeVars, deviceVars, worker, thread, history>>

DeselectRenderQueue(c, e) ==
    /\ phase[c] = "open"
    /\ QueueLockFree
    /\ selected[c][e] # "off"
    /\ selected' = [selected EXCEPT ![c][e] = "off"]
    /\ UNCHANGED <<clientVars, records, completionSem, idleSem, bufferVars,
                   closeVars, deviceVars, worker, thread, history>>

-----------------------------------------------------------------------------
(***************************************************************************)
(* Open and Free of the device node, and the end of the driver.            *)
(***************************************************************************)

\* Open: RegisterRenderQueueClient puts the client at the head of the list
OpenClient(c) ==
    /\ phase[c] = "unopened"
    /\ queueUp
    /\ QueueLockFree
    /\ phase' = [phase EXCEPT ![c] = "open"]
    /\ renderClients' = <<c>> \o renderClients
    /\ UNCHANGED <<queueState, queueMode, queueLost, lastFailed, failNext,
                   fifo, activeJob, signalVars, bufferVars, closeVars, cursor,
                   queuedJobs, queueSem, queueUp, worker, thread, history>>

\* ShutdownRenderQueueClient.  The kernel calls the free hook when the last
\* call on the descriptor has returned, so no thread is inside the driver.
BeginFree(c) ==
    /\ phase[c] = "open"
    /\ \A t \in Thread : Owner[t] = c => thread[t].pc = "idle"
    /\ QueueLockFree
    /\ phase' = [phase EXCEPT ![c] = "cancelling"]
    /\ closeTodo' = [closeTodo EXCEPT ![c] = fifo[c]]
    /\ closeDrop' = [closeDrop EXCEPT ![c] = fifo[c]]
    /\ fifo' = [fifo EXCEPT ![c] = <<>>]
    /\ UNCHANGED <<queueState, queueMode, queueLost, lastFailed, failNext,
                   activeJob, signalVars, bufferVars, deviceVars, worker,
                   thread, history>>

\* One turn of the cancel loop, lock held.  With a job running the timeline
\* refuses to cancel, and the job is dropped without being retired.
CancelAtFree(c) ==
    LET job == Head(closeTodo[c])
        retires == CanCancel(queueState[c], job.fence)
    IN
    /\ phase[c] = "cancelling"
    /\ closeTodo[c] # <<>>
    /\ closeTodo' = [closeTodo EXCEPT ![c] = Tail(@)]
    /\ queuedJobs' = Decrement(queuedJobs)
    /\ IF retires
       THEN /\ queueState' = [queueState EXCEPT ![c] =
                   CancelQueuedRenderJob(@, job.fence)]
            /\ Resolve(c, job.fence, "cancelled")
       ELSE UNCHANGED <<queueState, outcome>>
    /\ UNCHANGED <<phase, queueMode, queueLost, lastFailed, failNext, fifo,
                   activeJob, signalVars, bufferVars, closeDrop,
                   renderClients, cursor, queueSem, queueUp, worker, thread,
                   epoch>>

\* activeJob is read with the lock still held; the wait follows later
CancelAtFreeDone(c) ==
    /\ phase[c] = "cancelling"
    /\ closeTodo[c] = <<>>
    /\ phase' = [phase EXCEPT ![c] =
           IF activeJob[c] THEN "dropThenWait" ELSE "dropThenUnlink"]
    /\ UNCHANGED <<queueState, queueMode, queueLost, lastFailed, failNext,
                   fifo, activeJob, signalVars, bufferVars, closeVars,
                   deviceVars, worker, thread, history>>

DropAtFree(c) ==
    /\ phase[c] \in {"dropThenWait", "dropThenUnlink"}
    /\ IF closeDrop[c] = <<>>
       THEN /\ phase' = [phase EXCEPT ![c] =
                   IF @ = "dropThenWait" THEN "waitIdle" ELSE "unlink"]
            /\ UNCHANGED <<closeDrop, bufferVars>>
       ELSE /\ closeDrop' = [closeDrop EXCEPT ![c] = Tail(@)]
            /\ ReleaseReferences(c, Head(closeDrop[c]).buffers)
            /\ UNCHANGED phase
    /\ UNCHANGED <<queueState, queueMode, queueLost, lastFailed, failNext,
                   fifo, activeJob, signalVars, closeTodo, deviceVars, worker,
                   thread, history>>

AwaitIdle(c) ==
    /\ phase[c] = "waitIdle"
    /\ idleSem[c] > 0
    /\ idleSem' = [idleSem EXCEPT ![c] = @ - 1]
    /\ phase' = [phase EXCEPT ![c] = "unlink"]
    /\ UNCHANGED <<queueState, queueMode, queueLost, lastFailed, failNext,
                   fifo, activeJob, records, completionSem, selected,
                   bufferVars, closeVars, deviceVars, worker, thread, history>>

\* Mutation of CursorWithout: the cursor keeps pointing to the freed client
StaleCursor(c) == cursor

CursorWithout(c) == IF cursor = c THEN NoClient ELSE cursor

\* The list with c taken out
ClientsWithout(c) ==
    LET p == Position(c) IN
    [i \in 1..(Len(renderClients) - 1) |->
        renderClients[IF i < p THEN i ELSE i + 1]]

\* The client leaves the list and the cursor; then its records, semaphores and
\* (DestroyRenderClient) buffers, and the client itself, are freed
UnlinkClient(c) ==
    /\ phase[c] = "unlink"
    /\ QueueLockFree
    /\ phase' = [phase EXCEPT ![c] = "gone"]
    /\ renderClients' = ClientsWithout(c)
    /\ cursor' = CursorWithout(c)
    /\ records' = [records EXCEPT ![c] = <<>>]
    /\ completionSem' = [completionSem EXCEPT ![c] = 0]
    /\ idleSem' = [idleSem EXCEPT ![c] = 0]
    /\ selected' = [selected EXCEPT ![c] = [e \in Event |-> "off"]]
    /\ bufferState' = [bufferState EXCEPT ![c] = [b \in Buffer |-> "freed"]]
    /\ UNCHANGED <<queueState, queueMode, queueLost, lastFailed, failNext,
                   fifo, activeJob, queuedReferences, closeVars, queuedJobs,
                   queueSem, queueUp, worker, thread, history>>

FreeStep(c) ==
    CancelAtFree(c) \/ CancelAtFreeDone(c) \/ DropAtFree(c) \/ AwaitIdle(c)
        \/ UnlinkClient(c)

\* ShutdownRenderQueue, from UninitDriver: no client is left
ShutdownRenderQueue ==
    /\ queueUp
    /\ \A c \in Client : phase[c] \in {"unopened", "gone"}
    /\ queueUp' = FALSE
    /\ queueSem' = queueSem + 1
    /\ UNCHANGED <<clientVars, signalVars, bufferVars, closeVars,
                   renderClients, cursor, queuedJobs, worker, thread, history>>

-----------------------------------------------------------------------------
\* What a thread does once it is inside the driver
ThreadStep(t) ==
    PostJob(t) \/ AcquireCompletion(t) \/ CheckAgain(t) \/ DrainToken(t)

Call(t) ==
    \/ \E mode \in Mode : ConfigureRenderQueue(t, mode, FALSE)
    \/ /\ "inject" \in Ioctl[t]
       /\ \E mode \in Mode : ConfigureRenderQueue(t, mode, TRUE)
    \/ \E names \in SUBSET Buffer : EnqueueRenderCommands(t, names)
    \/ \E b \in Buffer, stream \in Stream :
           EnqueueRenderDirectPresent(t, b, stream)
    \/ "wait" \in Ioctl[t] /\ \E f \in Fence : WaitRenderQueueFence(t, f)
    \/ "dequeue" \in Ioctl[t] /\ DequeueRenderCompletion(t)

ClientCall(c) ==
    \/ \E b \in Buffer : CreateRenderBuffer(c, b) \/ CloseRenderBuffer(c, b)
    \/ \E e \in Event : SelectRenderQueue(c, e) \/ DeselectRenderQueue(c, e)

Next ==
    \/ WorkerStep
    \/ \E t \in Thread : Call(t) \/ ThreadStep(t) \/ GiveUp(t)
    \/ \E c \in Client :
           OpenClient(c) \/ ClientCall(c) \/ BeginFree(c) \/ FreeStep(c)
    \/ ShutdownRenderQueue
    \/ worker.pc = "exited" /\ UNCHANGED vars       \* the driver is unloaded

Spec == Init /\ [][Next]_vars

\* The worker runs at real-time display priority, and a thread inside the
\* driver keeps running; nothing obliges an application to make a call
Fairness ==
    /\ WF_vars(WorkerStep)
    /\ \A t \in Thread : WF_vars(ThreadStep(t))
    /\ \A c \in Client : WF_vars(FreeStep(c))

FairSpec == Spec /\ Fairness

-----------------------------------------------------------------------------
(***************************************************************************)
(* Properties.                                                             *)
(***************************************************************************)

Phase == {"unopened", "open", "cancelling", "dropThenWait", "dropThenUnlink",
          "waitIdle", "unlink", "gone"}

\* Every variable has its type: the counters of the driver stay natural
\* numbers and the worker's locals are jobs and clients.
TypeOK ==
    /\ phase \in [Client -> Phase]
    /\ queueState \in [Client -> QueueState]
    /\ queueMode \in [Client -> Mode \cup {"safe"}]
    /\ queueLost \in [Client -> BOOLEAN]
    /\ lastFailed \in [Client -> 0..LastFence]
    /\ failNext \in [Client -> BOOLEAN]
    /\ fifo \in [Client -> Seq(Job)]
    /\ activeJob \in [Client -> BOOLEAN]
    /\ records \in [Client -> Seq(Record)]
    /\ completionSem \in [Client -> Nat]
    /\ idleSem \in [Client -> Nat]
    /\ selected \in
           [Client -> [Event -> {"off", "armed", "fired"}]]
    /\ bufferState \in
           [Client -> [Buffer -> {"absent", "open", "closePending", "freed"}]]
    /\ queuedReferences \in [Client -> [Buffer -> Nat]]
    /\ closeTodo \in [Client -> Seq(Job)]
    /\ closeDrop \in [Client -> Seq(Job)]
    /\ renderClients \in Seq(Client)
    /\ cursor \in Client \cup {NoClient}
    /\ queuedJobs \in Nat
    /\ queueSem \in Nat
    /\ queueUp \in BOOLEAN
    /\ worker \in Worker
    /\ thread \in [Thread -> ThreadState]
    /\ outcome \in [Client -> [Fence -> Result \cup {"pending"}]]
    /\ epoch \in [Client -> 0..LastFence]

\* The jobs of c that were given a fence and not yet retired, in the order the
\* driver will retire them: detached by a failure, or still in the FIFO
Waiting(c) ==
    (IF worker.client = c THEN worker.todo ELSE <<>>) \o closeTodo[c] \o fifo[c]

\* The timeline has no hole and no duplicate: the unretired jobs of an open
\* client carry exactly the fences between the last retired (or the running)
\* one and nextFence, and queuedJobs counts them.  Start, Finish and Cancel of
\* RenderQueueCore.h can therefore never refuse a job of an open client.
TimelineContiguous ==
    \A c \in Client : phase[c] \in {"unopened", "open"} =>
        LET s == queueState[c]
            running == IF s.running THEN 1 ELSE 0
        IN
        /\ Len(Waiting(c)) = s.queued
        /\ s.next = s.retired + running + s.queued + 1
        /\ \A i \in DOMAIN Waiting(c) :
               Waiting(c)[i].fence = s.retired + running + i

\* A fence has an outcome exactly when the timeline has retired it: nothing is
\* reported for work that is queued or running, and no retired fence is
\* forgotten, whichever of completion, failure, cancellation or Free retired it.
RetiredMeansResolved ==
    \A c \in Client : \A f \in Fence :
        outcome[c][f] # "pending" <=> f <= queueState[c].retired

\* The outcome of a fence is final (AppendCompletionLocked runs once per job).
OutcomeIsFinal ==
    [][\A c \in Client, f \in Fence :
           outcome[c][f] # "pending" => outcome'[c][f] = outcome[c][f]]_outcome

\* A failed fence is terminal for its client: since the last configure every
\* fence before it completed, itself failed, every fence after it was cancelled,
\* and a client that is not lost has only completed fences.
FailureIsTerminal ==
    \A c \in Client : \A f \in Fence :
        epoch[c] < f /\ f <= queueState[c].retired /\ phase[c] = "open" =>
            outcome[c][f] = IF ~queueLost[c] \/ f < lastFailed[c]
                            THEN "complete"
                            ELSE IF f = lastFailed[c] THEN "failed"
                            ELSE "cancelled"

\* Jobs waiting in the FIFOs the worker serves
QueuedAnywhere == {p \in Client \X Fence : p[2] \in DOMAIN fifo[p[1]]}

\* No queued job is left without a wakeup: for every job in a FIFO the worker
\* has a token to consume, is about to look, or an enqueuer is about to post.
NoLostWork ==
    Cardinality(QueuedAnywhere)
        <= queueSem + (IF worker.pc = "select" THEN 1 ELSE 0)
                    + Cardinality({t \in Thread : thread[t].pc = "post"})

\* device.renderQueuedJobs is the number of jobs in all FIFOs and in the lists
\* being cancelled, so the guards against going below zero never act and the
\* device limit is neither leaked nor exceeded.
DeviceCountExact ==
    /\ queuedJobs = Cardinality(
           {p \in Client \X Fence : p[2] \in DOMAIN Waiting(p[1])})
    /\ queuedJobs <= MaxJobsPerDevice

\* The queue implements the abstract timeline of RenderTimeline: in-order,
\* exactly-once retirement, and no success after a failure.
Timeline == INSTANCE RenderTimeline WITH
    issued <- [c \in Client |-> queueState[c].next - 1],
    retired <- [c \in Client |-> queueState[c].retired],
    lost <- queueLost,
    closed <- [c \in Client |-> Closing(c)]

ImplementsTimeline == Timeline!Spec

\* The worker never works on a freed client, and neither its cursor nor the
\* client list points to one.
NoUseAfterFree ==
    /\ worker.client # NoClient => phase[worker.client] # "gone"
    /\ cursor # NoClient =>
           cursor \in {renderClients[i] : i \in DOMAIN renderClients}
    /\ \A i \in DOMAIN renderClients : phase[renderClients[i]] # "gone"

\* The jobs of c that still hold references on their buffers
Holding(c) ==
    {fifo[c][i] : i \in DOMAIN fifo[c]}
    \cup {closeDrop[c][i] : i \in DOMAIN closeDrop[c]}
    \cup (IF worker.client = c
          THEN {worker.cancelled[i] : i \in DOMAIN worker.cancelled}
               \cup (IF worker.pc = "execute" THEN {worker.job} ELSE {})
          ELSE {})

\* A buffer named by a job that has not released it is still there, its
\* reference count is the number of these jobs, and a deferred close has
\* happened as soon as the count is back to zero.
BuffersHeldByJobs ==
    \A c \in Client, b \in Buffer : phase[c] # "gone" =>
        /\ queuedReferences[c][b] =
               Cardinality({job \in Holding(c) : b \in job.buffers})
        /\ queuedReferences[c][b] # 0 =>
               bufferState[c][b] \in {"open", "closePending"}
        /\ bufferState[c][b] = "closePending" => queuedReferences[c][b] # 0

\* A present is dropped only for a newer present of its stream that waits
\* behind it, and of the waiting presents of a stream only the newest is shown;
\* also the one the worker is busy with, unless Free took the FIFO away.
OnlySupersededPresentsDrop ==
    /\ \A c \in Client : \A i \in DOMAIN fifo[c] :
          fifo[c][i].kind = "present" =>
              (fifo[c][i].drop <=>
                  \E j \in DOMAIN fifo[c] :
                      j > i /\ fifo[c][j].stream = fifo[c][i].stream)
    /\ worker.pc = "execute" /\ worker.job.drop =>
          \/ phase[worker.client] # "open"
          \/ \E j \in DOMAIN fifo[worker.client] :
                 fifo[worker.client][j].stream = worker.job.stream

\* What a wait or a dequeued record reports of a fence of the current epoch is
\* how the fence ended, also when its record was dequeued or pruned.
AnswersAreTrueSinceConfigure ==
    \A t \in Thread :
        thread[t].result # "none" /\ thread[t].fence > epoch[Owner[t]] =>
            thread[t].result = outcome[Owner[t]][thread[t].fence]

\* "Initialization or runtime failure in an asynchronous mode never
\* manufactures a successful fence": a wait never reports completion of a fence
\* that failed or was cancelled.
NoManufacturedSuccess ==
    \A t \in Thread :
        thread[t].result = "complete" =>
            outcome[Owner[t]][thread[t].fence] = "complete"

\* Round-robin: the client just served is not served again while another one
\* is ready (SelectReadyClientLocked starts behind the cursor).
RoundRobin ==
    [][\A c \in Client :
           StartJob(c) /\ cursor = c =>
               ~(\E d \in Client : d # c /\ Ready(d))]_vars

\* A READ or ERROR selector is never left behind: once the event holds, it has
\* been notified or the worker is about to.  (A record that could not be
\* allocated notifies nobody.)
NoMissedCompletionEvent ==
    \A c \in Client, e \in Event \ {"write"} :
        selected[c][e] = "armed" /\ EventHolds(c, e) =>
            worker.client = c /\ worker.pc \in {"cancel", "drop", "notify"}

\* Every job of a client that is not closed is retired.
EveryJobRetires ==
    \A c \in Client : \A f \in Fence :
        queueState[c].next > f /\ phase[c] = "open"
            ~> outcome[c][f] # "pending" \/ phase[c] # "open"

\* Free returns, also when it finds a job running.
FreeReturns ==
    \A c \in Client : phase[c] = "cancelling" ~> phase[c] = "gone"

\* "Retirement ... wakes fence waiters": a thread that sleeps for a fence does
\* not sleep for ever once the fence is retired.
WaitersWake ==
    \A t \in Thread :
        thread[t].pc = "asleep"
            /\ RenderFenceIsRetired(queueState[Owner[t]], thread[t].fence)
            ~> thread[t].pc # "asleep"

-----------------------------------------------------------------------------
(***************************************************************************)
(* The inductive invariant behind the theorems of RenderQueue_proofs.      *)
(***************************************************************************)

\* The worker's program points at which client.activeJob is set
ActivePc == {"execute", "settle", "cancel", "drop", "notify", "finish"}

\* The worker has a client from StartJob to the end of the job, and activeJob
\* says so to the others
WorkerInv ==
    /\ worker.pc \in ActivePc \cup {"wake"} => worker.client \in Client
    /\ worker.pc \notin ActivePc \cup {"wake"} => worker.client = NoClient
    /\ \A c \in Client :
           activeJob[c] <=> worker.client = c /\ worker.pc \in ActivePc

\* renderQueueLock has one holder
LockInv ==
    \A c \in Client : phase[c] = "cancelling" =>
        /\ worker.pc # "cancel"
        /\ \A d \in Client : phase[d] = "cancelling" => d = c

\* What the worker's lists and the FIFOs may hold at each point
ListsInv ==
    /\ worker.pc # "cancel" => worker.todo = <<>>
    /\ \A c \in Client :
           /\ fifo[c] # <<>> => phase[c] = "open"
           /\ closeTodo[c] # <<>> => phase[c] = "cancelling"
           /\ worker.client = c /\ worker.pc = "cancel" => fifo[c] = <<>>
           /\ worker.client = c /\ phase[c] # "open" => worker.todo = <<>>

\* The jobs of s carry the fences that follow the retired or running one of q
Contiguous(q, s) ==
    LET running == IF q.running THEN 1 ELSE 0 IN
    /\ Len(s) = q.queued
    /\ q.next = q.retired + running + q.queued + 1
    /\ \A i \in 1..Len(s) : s[i].fence = q.retired + running + i

TimelineInv ==
    \A c \in Client :
        /\ queueState[c].running <=>
               worker.client = c /\ worker.pc \in {"execute", "settle"}
        /\ queueState[c].running =>
               /\ worker.job.fence = queueState[c].retired + 1
               /\ worker.job.fence = queueState[c].started
        /\ phase[c] \in {"unopened", "open"} =>
               Contiguous(queueState[c],
                   IF worker.client = c /\ worker.pc = "cancel"
                   THEN worker.todo ELSE fifo[c])

\* Free waits for a job that was active when it looked, and for no other, and
\* the worker posts at most one token for it
CloseInv ==
    \A c \in Client :
        /\ idleSem[c] \in {0, 1}
        /\ activeJob[c] => phase[c] \in
               {"open", "cancelling", "dropThenWait", "waitIdle"}
        /\ worker.client = c => idleSem[c] = 0
        /\ worker.client = c /\ worker.pc = "wake" =>
               phase[c] \in {"dropThenWait", "waitIdle"}
        /\ idleSem[c] = 1 => phase[c] \in {"dropThenWait", "waitIdle"}

\* The list holds every client between Open and the end of Free, once
ListedInv ==
    /\ \A c \in Client : phase[c] \notin {"unopened", "gone"} <=>
           \E i \in 1..Len(renderClients) : renderClients[i] = c
    /\ \A i, j \in 1..Len(renderClients) :
           renderClients[i] = renderClients[j] => i = j
    /\ cursor # NoClient =>
           \E i \in 1..Len(renderClients) : renderClients[i] = cursor

\* Everything above together: inductive, and implies the safety properties
IInv ==
    /\ TypeOK
    /\ WorkerInv
    /\ LockInv
    /\ ListsInv
    /\ TimelineInv
    /\ RetiredMeansResolved
    /\ CloseInv
    /\ ListedInv
=============================================================================
