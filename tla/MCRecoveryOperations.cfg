SPECIFICATION Spec
CONSTANTS
  o1 = o1
  o2 = o2
  i1 = i1
  i2 = i2
  Ops = {o1, o2}
  Incarnations = {i1, i2}
  UnresolvedCapacity = 2
  RetainedCapacity = 2
  None = None
  MaxBoot = 2
  MaxEpoch = 2
  MaxGen = 2
SYMMETRY Symmetry
INVARIANTS
  DispatchedOnce
  OneInFlight
  OutcomeTruthful
  SettlementImportable
  SpentIsNotRestored
CHECK_DEADLOCK FALSE
