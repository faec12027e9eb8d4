SPECIFICATION EDSpec
CHECK_DEADLOCK FALSE
CONSTANTS
    i1 = i1
    i2 = i2
    all = all
    one = one
    g1 = g1
    g2 = g2
    p1 = p1
    Seed = Seed
    Absent = Absent
    Items <- MCItems
    Tags <- MCTags
    TagsOf <- MCTagsOf
    Gets <- MCGets
    Puts <- MCPuts
    TTL = 2
    SLACK = 0
    MaxManual = 1
    MaxFailures = 1
SYMMETRY GetSymmetry
INVARIANTS
    EDTypeOK
    StaleIsPending
    TagsReachEntries
