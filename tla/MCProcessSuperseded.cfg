SPECIFICATION LifecycleSpec
CONSTANTS
  MaxOp = 3
  Profiles = {p1}
  Leases = {l1}
  SupersededReplays = TRUE
  MaxEpoch = 2
  Nothing = Nothing
INVARIANTS
  LiveIsHeld
