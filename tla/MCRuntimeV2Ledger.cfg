SPECIFICATION Spec
CONSTANTS
  o1 = o1
  o2 = o2
  Ops = {o1, o2}
  operation_capacity = 2
  MaxGeneration = 1
  MaxCrashes = 1
SYMMETRY OpSymmetry
INVARIANTS
  JournalRestorable
  ObservationReachable
PROPERTIES
  ImplementsAtMostOnce
