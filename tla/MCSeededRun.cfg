SPECIFICATION SeededSpec
CONSTANTS
  o1 = o1
  o2 = o2
  Ops = {o1, o2}
  operation_capacity = 2
  HostMismatches = TRUE
  MaxGeneration = 2
  MaxCrashes = 1
SYMMETRY OpSymmetry
PROPERTIES
  RejectionTruthful
  ImplementsAtMostOnce
