------------------------- MODULE MCAttachedRoutes -------------------------
(* Model values for AttachedRoutes; operations are interchangeable.          *)
EXTENDS AttachedRoutes, TLC

OpSymmetry == Permutations(Ops)

\* The reports, the native routes and the information share the worker and
\* the lease and nothing else: a step of one commutes with every step of
\* another, and they are explored one at a time.  So are, within the
\* information, cursors and witnesses, which share the capabilities.
ReportsIdle == peers = [p \in Peers |-> Silent]
NativeIdle ==
  /\ <<pending, asked, late>> = <<None, None, {}>>
  /\ host.receipts = [o \in Ops |-> NoReceipt] /\ host.authority = 1
WitnessesIdle ==
  /\ <<lookup_binding, runtime_v3_baseline>> = <<None, None>>
  /\ bootstrap = [supported |-> None, failed |-> FALSE]
CursorsIdle == handed = [c \in Cursors |-> None]
InformationIdle ==
  WitnessesIdle /\ CursorsIdle /\ <<capabilities, call>> = <<None, None>>

Apart ==
  \/ ReportsIdle /\ NativeIdle /\ (CursorsIdle \/ WitnessesIdle)
  \/ ReportsIdle /\ InformationIdle
  \/ NativeIdle /\ InformationIdle
=============================================================================
