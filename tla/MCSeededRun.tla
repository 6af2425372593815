--------------------------- MODULE MCSeededRun ---------------------------
(* Small instances of the seeded-run ledger for TLC.                        *)
EXTENDS SeededRun, TLC

\* Operation ids are only compared: sound for the safety runs.
OpSymmetry == Permutations(Ops)
=============================================================================
