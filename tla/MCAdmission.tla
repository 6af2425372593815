--------------------------- MODULE MCAdmission ---------------------------
(* Small instances of admission and shutdown for TLC.                       *)
EXTENDS Admission, TLC
=============================================================================
