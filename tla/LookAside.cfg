SPECIFICATION Spec
CONSTANTS
    r1 = r1
    r2 = r2
    k1 = k1
    k2 = k2
    m1 = m1
    Requests <- MCRequests
    Rows <- MCRows
    Missing <- MCMissing
    MaxFaults = 1
INVARIANTS
    TypeOK
PROPERTIES
    MislabelNeedsRace
    ClearIsComplete
