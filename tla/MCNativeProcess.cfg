SPECIFICATION Spec
CONSTANTS
  g1 = g1
  g2 = g2
  g3 = g3
  n1 = n1
  Gens = {g1, g2, g3}
  Namespaces = {n1}
  NamespaceOf <- MCNamespaceOf
  capacity = 2
  None = None
  MaxBoot = 2
  MaxIdentity = 2
  MaxDigest = 2
SYMMETRY Symmetry
INVARIANTS
  OneTreePerNamespace
  AbsentIsGone
PROPERTIES
  ImplementsAtMostOnce
CHECK_DEADLOCK FALSE
