------------------------ MODULE MCRuntimeV2Ledger ------------------------
(* Small instances of the Runtime-v2 ledger for TLC.                        *)
EXTENDS RuntimeV2Ledger, TLC

\* Operation ids are only compared: sound for the safety runs.
OpSymmetry == Permutations(Ops)
=============================================================================
