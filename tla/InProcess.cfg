SPECIFICATION Spec
CONSTANTS
    l1 = l1
    l2 = l2
    t1 = t1
    t2 = t2
    k1 = k1
    k2 = k2
    u1 = u1
    Nobody = Nobody
    POOL = 2
    MAXSIZE = 1
    LruRequests <- MCLruRequests
    TtlRequests <- MCTtlRequests
    Codes <- MCCodes
    Users <- MCUsers
    Asks <- MCAsks
INVARIANTS
    TypeOK
    CountersAddUp
    SingleFlight
PROPERTIES
    LabelNeedsOverlap
    RequestsEnd
