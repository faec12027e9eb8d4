SPECIFICATION HCSpec
CHECK_DEADLOCK FALSE
CONSTANTS
    a1 = a1
    a2 = a2
    b1 = b1
    p1 = p1
    p2 = p2
    r1 = r1
    x = x
    y = y
    Articles <- MCArticles
    Browsers <- MCBrowsers
    Puts <- MCPuts
    Resets <- MCResets
    Bodies <- MCBodies
    SeedBody = SeedBody
    Nothing = Nothing
    MaxSecond = 2
INVARIANTS
    HCTypeOK
    EtagsAreHonest
    DatesAreHonest
