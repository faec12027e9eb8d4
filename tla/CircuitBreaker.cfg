SPECIFICATION Spec
CHECK_DEADLOCK FALSE
CONSTANTS
    r1 = r1
    r2 = r2
    r3 = r3
    r4 = r4
    r5 = r5
    Requests <- MCRequests
    THRESHOLD = 2
    RECOVERY = 1
    MaxTime = 2
    MaxFaults = 1
SYMMETRY RequestSymmetry
INVARIANTS
    TypeOK
    BreakerIsConsistent
    TripsAddUp
