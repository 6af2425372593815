SPECIFICATION LifecycleSpec
CONSTANTS
  MaxOp = 3
  Profiles = {p1, p2}
  Leases = {l1}
  SupersededReplays = FALSE
  MaxEpoch = 2
  Nothing = Nothing
SYMMETRY Symmetry
INVARIANTS
  OneTree
PROPERTIES
  StoppedMeansGone
