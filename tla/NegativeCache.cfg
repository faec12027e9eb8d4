SPECIFICATION NCSpec
CHECK_DEADLOCK FALSE
CONSTANTS
    g1 = g1
    p1 = p1
    d1 = d1
    a1 = a1
    a2 = a2
    MaxId = 2
    Seeds = 1
    Lookups <- MCLookups
    Creates <- MCCreates
    Deletes <- MCDeletes
    Inits <- MCInits
    Resets <- MCResets
    SeedRow = SeedRow
    NoRow = NoRow
    NoEntry = NoEntry
    MaxFaults = 1
INVARIANTS
    NCTypeOK
    DenialsAreExplained
    WrongIsRaced
