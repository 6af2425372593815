SPECIFICATION OwnerSpec
CONSTANTS
  Ttl = 2
  Generations = {1}
  MaxBoot = 2
  MaxEpoch = 2
  MaxSeq = 1
  MaxMono = 3
  MaxSkew = 1
  o1 = o1
  o2 = o2
  Ops = {o1, o2}
  MaxRetained = 2
  NoOwner = NoOwner
SYMMETRY Symmetry
INVARIANTS
  OneLiveLease
  HostHoldsWhatIsAdmitted
  StopHolds
  OnlyReturnedLeasesServe
  OwnerAgreesWithAdmission
PROPERTIES
  AdoptedIsHeld
CHECK_DEADLOCK FALSE
