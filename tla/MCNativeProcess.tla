-------------------------- MODULE MCNativeProcess --------------------------
(* Small instances of the systemd process port.                             *)
EXTENDS NativeProcess, TLC

CONSTANTS g1, g2, g3, n1

\* Three generations share a directory, as a launch and its replacements do.
MCNamespaceOf == g1 :> n1 @@ g2 :> n1 @@ g3 :> n1

\* Generations of one directory are only compared.
Symmetry == Permutations(Gens)
=============================================================================
