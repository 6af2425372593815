SPECIFICATION Spec
CONSTANTS
  o1 = o1
  o2 = o2
  p1 = p1
  p2 = p2
  Ops = {o1, o2}
  Profiles = {p1, p2}
  capacity = 2
  Foreign = {2}
  None = None
  MaxLease = 2
SYMMETRY Symmetry
INVARIANTS
  RestartAgrees
  SelectedIsCurrent
PROPERTIES
  CreationBacked
  ImplementsAtMostOnce
CHECK_DEADLOCK FALSE
