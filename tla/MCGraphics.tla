------------------------------ MODULE MCGraphics ------------------------------
(***************************************************************************)
(* Two parts of intel_valleyview for TLC: the initial state chooses which   *)
(* runs, the contexts over the engines or the residency of buffers, and the  *)
(* other rests.  Clients and buffers are interchangeable.                    *)
(***************************************************************************)
EXTENDS RenderResidency, RenderContext, TLC

VARIABLE device

OneUnitEach == [b \in Buffer |-> 1]

GraphicsInit ==
    /\ RenderContextInit /\ RenderResidencyInit
    /\ device \in {"context", "residency"}
    /\ device = "residency" => engine = EngineAtBoot(FALSE)

GraphicsNext ==
    \/ device = "context" /\ RenderContextNext /\ UNCHANGED <<device, residencyVars>>
    \/ device = "residency" /\ RenderResidencyNext /\ UNCHANGED <<device, contextVars>>

GraphicsSpec == GraphicsInit /\ [][GraphicsNext]_<<device, contextVars, residencyVars>>

GraphicsSymmetry == Permutations(RenderClient) \cup Permutations(Buffer)
=============================================================================
