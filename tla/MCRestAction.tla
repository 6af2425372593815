--------------------------- MODULE MCRestAction ---------------------------
(* Small instances of the rest-action forwarder.                            *)
EXTENDS RestAction, TLC

\* Operations are only compared.
Symmetry == Permutations(Operations)
=============================================================================
