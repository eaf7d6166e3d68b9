--------------------------- MODULE RenderQueueCore ---------------------------
(***************************************************************************)
(* The pure state machine of one client timeline, RenderQueueCore.h: the   *)
(* record RenderClientQueueState and the functions that advance it.  Each  *)
(* C++ function that returns false and leaves the state alone is a guard   *)
(* (Can...) and an effect here.                                            *)
(***************************************************************************)
EXTENDS Naturals

CONSTANTS
    LastFence,      \* stands for UINT64_MAX: the value nextFence never leaves
    MaxJobsPerClient,   \* kRenderMaxQueuedJobsPerClient (32 in the driver)
    MaxJobsPerDevice    \* kRenderMaxQueuedJobsPerDevice (128 in the driver)

ASSUME QueueLimits ==
    /\ LastFence \in Nat \ {0}
    /\ MaxJobsPerClient \in Nat \ {0}
    /\ MaxJobsPerDevice \in Nat \ {0}

InvalidFence == 0           \* kInvalidRenderFence

QueueState ==
    [next: 1..LastFence, started: 0..LastFence, retired: 0..LastFence,
     queued: Nat, running: BOOLEAN]

\* InitializeRenderClientQueueState
InitQueueState ==
    [next |-> 1, started |-> 0, retired |-> 0, queued |-> 0, running |-> FALSE]

\* Mutation of CanQueueRenderJob: the end of the fence space is not checked
CanQueueForEver(s, deviceQueued) ==
    s.queued < MaxJobsPerClient /\ deviceQueued < MaxJobsPerDevice

CanQueueRenderJob(s, deviceQueued) ==
    /\ s.next # InvalidFence
    /\ s.next # LastFence
    /\ s.queued < MaxJobsPerClient
    /\ deviceQueued < MaxJobsPerDevice

\* Mutation of QueueRenderJob: nextFence is not incremented
QueueSameFence(s) == [s EXCEPT !.queued = s.queued + 1]

\* QueueRenderJob: the fence handed out is s.next
QueueRenderJob(s) == [s EXCEPT !.next = s.next + 1, !.queued = s.queued + 1]

CanStart(s, fence) ==
    /\ fence # InvalidFence
    /\ ~s.running
    /\ s.queued # 0
    /\ fence = s.retired + 1

StartRenderJob(s, fence) ==
    [s EXCEPT !.queued = s.queued - 1, !.running = TRUE, !.started = fence]

\* CompleteRenderJob and FailRenderJob are both FinishRunningRenderJob
CanFinish(s, fence) ==
    /\ s.running
    /\ fence # InvalidFence
    /\ fence = s.started
    /\ fence = s.retired + 1

FinishRunningRenderJob(s, fence) ==
    [s EXCEPT !.running = FALSE, !.retired = fence]

\* Mutation of CanCancel: the order of retirement is not checked
CanCancelUnordered(s, fence) == s.queued # 0 /\ fence # InvalidFence

CanCancel(s, fence) ==
    /\ ~s.running
    /\ s.queued # 0
    /\ fence # InvalidFence
    /\ fence = s.retired + 1

\* Mutation of CancelQueuedRenderJob: the job stays counted
CancelUncounted(s, fence) == [s EXCEPT !.retired = fence]

CancelQueuedRenderJob(s, fence) ==
    [s EXCEPT !.queued = s.queued - 1, !.retired = fence]

RenderFenceIsRetired(s, fence) == fence # InvalidFence /\ fence <= s.retired

\* Mutation of ShouldDropQueuedPresentation: any stream supersedes
ShouldDropAnyStream(old, new) == old.fence < new.fence

\* Presents are records with the fields fence and stream; stream 0 is no stream
ShouldDropQueuedPresentation(old, new) ==
    /\ old.fence # InvalidFence
    /\ new.fence # InvalidFence
    /\ old.stream # 0
    /\ old.stream = new.stream
    /\ old.fence < new.fence
=============================================================================
