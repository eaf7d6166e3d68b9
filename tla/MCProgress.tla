------------------------------ MODULE MCProgress ------------------------------
(***************************************************************************)
(* What must go on in intel_valleyview, for TLC: the initial state chooses   *)
(* the render queue or the display, the other rests.                         *)
(***************************************************************************)
EXTENDS MCRenderQueue, Display

VARIABLE device

ProgressInit == Init /\ DisplayInit /\ device \in {"queue", "display"}

ProgressNext ==
    \/ device = "queue" /\ Next /\ UNCHANGED <<device, displayVars>>
    \/ device = "display" /\ DisplayNext /\ UNCHANGED <<device, vars>>

\* Fairness and DisplayFairness of the one that runs
ProgressSpec ==
    /\ ProgressInit /\ [][ProgressNext]_<<device, vars, displayVars>>
    /\ WF_vars(device = "queue" /\ WorkerStep)
    /\ \A t \in Thread : WF_vars(device = "queue" /\ ThreadStep(t))
    /\ \A c \in Client : WF_vars(device = "queue" /\ FreeStep(c))
    /\ WF_displayVars(device = "display" /\ PresentWorker)
    /\ WF_displayVars(device = "display" /\ VerticalBlank)
    /\ WF_displayVars(device = "display" /\ ShutdownP0)
    /\ SF_displayVars(device = "display" /\ StopPresentWorker /\ UNCHANGED presenter)
=============================================================================
