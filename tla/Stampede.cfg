SPECIFICATION Spec
CHECK_DEADLOCK FALSE
CONSTANTS
    r1 = r1
    r2 = r2
    x1 = x1
    None = None
    SafeRequests <- MCSafe
    UnsafeRequests <- MCUnsafe
    MAX_SPINS = 2
    MaxFaults = 2
INVARIANTS
    TypeOK
    LockExcludes
    DbCallsAccounted
PROPERTIES
    WaitsEnd
