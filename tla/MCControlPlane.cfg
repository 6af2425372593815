CONSTANTS
    c1 = c1
    c2 = c2
    s1 = s1
    Callers = {c1, c2}
    Sessions = {s1}
    Capacity = 2
    LeaseDuration = 2
    MaxTick = 3
    MaxId = 4
    MaxSends = 1
    Absent = Absent
    NoLease = NoLease
    NoProof = NoProof
SYMMETRY CallerSymmetry
SPECIFICATION Spec
INVARIANTS
    NoOrphanProcess
    RunningWithinCapacity
    ClosedMeansStopped
PROPERTIES
    ImplementsFence
