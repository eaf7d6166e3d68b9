---------------------------- MODULE MCRenderQueue ----------------------------
(***************************************************************************)
(* Instances of RenderQueue for TLC: two clients with a thread each, or one *)
(* client shared by two threads.                                           *)
(***************************************************************************)
EXTENDS RenderQueue, TLC

CONSTANTS c1, c2, t1, t2

OneThreadEach == t1 :> c1 @@ t2 :> c2

\* Swapping the clients together with their threads changes nothing
SwapClients ==
    {p \in Permutations({c1, c2, t1, t2}) :
        /\ {p[c1], p[c2]} = {c1, c2}
        /\ p[c1] = c1 <=> p[t1] = t1}

OneThread == t1 :> c1

TwoThreadsOneClient == t1 :> c1 @@ t2 :> c1

\* The optional calls of the threads
NoIoctl == [t \in Thread |-> {}]
WaitEach == [t \in Thread |-> {"wait"}]
WaitAndDequeueEach == [t \in Thread |-> {"wait", "dequeue"}]
DequeueAndInjectEach == [t \in Thread |-> {"dequeue", "inject"}]

\* Only the first thread looks for completions
OneLooks ==
    [t \in Thread |-> IF t = t1 THEN {"wait", "dequeue"} ELSE {"inject"}]
=============================================================================
