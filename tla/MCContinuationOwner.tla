------------------------ MODULE MCContinuationOwner ------------------------
(* Small instances of the continuation owner over the lease machine.        *)
EXTENDS ContinuationOwner, TLC

\* Operations are only compared.
Symmetry == Permutations(Ops)
=============================================================================
