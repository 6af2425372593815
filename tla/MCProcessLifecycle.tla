------------------------ MODULE MCProcessLifecycle ------------------------
(* Finite instances of ProcessLifecycle; the configurations give the bounds. *)

EXTENDS ProcessLifecycle, TLC

\* Profiles and leases are only compared.
Symmetry == Permutations(Profiles) \cup Permutations(Leases)
=============================================================================
