SPECIFICATION Spec
CHECK_DEADLOCK FALSE
SYMMETRY Symmetry
CONSTANTS
    k1 = k1
    k2 = k2
    g1 = g1
    g2 = g2
    p1 = p1
    p2 = p2
    Seed = Seed
    Absent = Absent
    Keys <- MCKeys
    Seeded <- MCSeeded
    Gets <- MCGets
    Posts <- MCPosts
    L1_TTL = 1
    L2_TTL = 2
    MaxFlushes = 1
    MaxFaults = 1
INVARIANTS
    TypeOK
    StaleIsRaced
    StalenessIsBounded
