CONSTANTS
  None = None
  MaxLeases = 2
  Kinds = {k1, k2}
  Cursors = {1, 2, 3}
  Identities = {i1, i2, i3}
  Pinned = {i1, i2}
  MAX_CURSOR_BINDINGS = 2
  LiveBootstrap = TRUE
  Peers = {p1, p2, p3}
  FirstPeer = p1
  MAX_GENERATION = 2
  REPORT_LIFETIME = 2
  Ops = {o1, o2}
  MaxHostGeneration = 1
  MaxAuthority = 2
  Mutations = {"local_action", "rejoin"}
  MaxLate = 1
  MaxBoots = 2
SPECIFICATION Spec
SYMMETRY OpSymmetry
CONSTRAINT Apart
INVARIANTS
  AgreementIsCommon
  PendingUntilResolved
  AuthorityFenced
  AnswersAreCurrent
