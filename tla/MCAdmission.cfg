SPECIFICATION LiveSpec
CONSTANTS
  c1 = c1
  c2 = c2
  Callers = {c1, c2}
  queue_capacity = 1
  Backlog = 2
INVARIANTS
  CountersAreExact
  NoneLost
PROPERTIES
  ShutdownCompletes
  EveryCallerResolved
