SPECIFICATION Spec
CHECK_DEADLOCK FALSE
CONSTANTS
    u1 = u1
    u2 = u2
    r1 = r1
    r2 = r2
    r3 = r3
    Absent = Absent
    Users <- MCUsers
    Requests <- MCRequests
    MaxFaults = 1
INVARIANTS
    TypeOK
    StaleNeedsOverlap
PROPERTIES
    ImplementsContract
    EventuallyCoherent
