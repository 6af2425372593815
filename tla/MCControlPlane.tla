--------------------------- MODULE MCControlPlane ---------------------------
(* A small control plane: two callers that share a session name, or not.   *)
EXTENDS ControlPlane, TLC

CallerSymmetry == Permutations(Callers)

=============================================================================
