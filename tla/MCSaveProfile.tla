--------------------------- MODULE MCSaveProfile ---------------------------
(* Small instances of the save-profile ledger and provisioner for TLC.      *)
EXTENDS SaveProfile, TLC

\* Operation ids and profiles are only compared.
Symmetry == Permutations(Ops) \cup Permutations(Profiles)
=============================================================================
