SPECIFICATION RestSpec
CONSTANTS
  o1 = o1
  o2 = o2
  o3 = o3
  o4 = o4
  s1 = s1
  Operations = {o1, o2, o3, o4}
  Sels = {s1}
  MAX_OPERATION_BINDINGS = 3
  MAX_SELECTOR_ADMISSIONS = 1
  Required = 1
  Nothing = Nothing
  MaxGen = 4
  MaxLeases = 2
  MaxLag = 0
SYMMETRY Symmetry
INVARIANTS
  TruthIsAccepted
  SlotsArePromised
PROPERTIES
  CompletedStaysClosed
CHECK_DEADLOCK FALSE
