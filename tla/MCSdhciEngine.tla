--------------------------- MODULE MCSdhciEngine ---------------------------
(***************************************************************************)
(* Instances of SdhciEngine for TLC.  The callers are interchangeable.     *)
(***************************************************************************)
EXTENDS SdhciEngine, TLC

CallerSymmetry == Permutations(Caller)
=============================================================================
