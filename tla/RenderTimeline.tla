--------------------------- MODULE RenderTimeline ---------------------------
(***************************************************************************)
(* What the driver promises an application about fences: each client has a *)
(* timeline of fences 1, 2, 3, ...; they end one at a time and in order;   *)
(* once a fence has failed every fence already issued is cancelled, and no *)
(* new one is issued before the timeline is drained and configured again.  *)
(* A closed timeline takes no new fence and its last fences may be left    *)
(* without an outcome, because nobody can ask any more.                    *)
(***************************************************************************)
EXTENDS Naturals

CONSTANTS Client, LastFence

VARIABLES issued, retired, outcome, lost, closed

timeline == <<issued, retired, outcome, lost, closed>>

Init ==
    /\ issued = [c \in Client |-> 0]
    /\ retired = [c \in Client |-> 0]
    /\ outcome = [c \in Client |-> [f \in 1..LastFence |-> "pending"]]
    /\ lost = [c \in Client |-> FALSE]
    /\ closed = [c \in Client |-> FALSE]

Issue(c) ==
    /\ ~lost[c] /\ ~closed[c]
    /\ issued' = [issued EXCEPT ![c] = @ + 1]
    /\ UNCHANGED <<retired, outcome, lost, closed>>

Retire(c, result) ==
    /\ retired[c] < issued[c]
    /\ retired' = [retired EXCEPT ![c] = @ + 1]
    /\ outcome' = [outcome EXCEPT ![c][retired[c] + 1] = result]
    /\ UNCHANGED <<issued, closed>>

Complete(c) == ~lost[c] /\ Retire(c, "complete") /\ UNCHANGED lost

Fail(c) ==
    /\ ~lost[c]
    /\ Retire(c, "failed")
    /\ lost' = [lost EXCEPT ![c] = TRUE]

Cancel(c) ==
    /\ lost[c] \/ closed[c]
    /\ Retire(c, "cancelled")
    /\ UNCHANGED lost

Configure(c) ==
    /\ retired[c] = issued[c] /\ ~closed[c]
    /\ lost' = [lost EXCEPT ![c] = FALSE]
    /\ UNCHANGED <<issued, retired, outcome, closed>>

Close(c) ==
    /\ closed' = [closed EXCEPT ![c] = TRUE]
    /\ UNCHANGED <<issued, retired, outcome, lost>>

Next ==
    \E c \in Client :
        Issue(c) \/ Complete(c) \/ Fail(c) \/ Cancel(c) \/ Configure(c)
            \/ Close(c)

Spec == Init /\ [][Next]_timeline
=============================================================================
