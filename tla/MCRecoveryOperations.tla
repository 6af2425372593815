---------------------- MODULE MCRecoveryOperations ----------------------
EXTENDS RecoveryOperations, TLC

\* The operations, and the incarnations, are interchangeable.
Symmetry == Permutations(Ops) \cup Permutations(Incarnations)
==========================================================================
