SPECIFICATION Spec
CHECK_DEADLOCK FALSE
CONSTANTS
    p1 = p1
    r1 = r1
    f1 = f1
    s1 = s1
    s2 = s2
    x1 = x1
    Trending = Trending
    Config = Config
    Catalog <- MCCatalog
    Fills <- MCFills
    Flushes <- MCFlushes
    Starts <- MCStarts
    Stops <- MCStops
    Tasks <- MCTasks
    CATALOG_TTL = 1
    CONFIG_TTL = 5
    TRENDING_TTL = 4
    SCHEDULER_INTERVAL = 1
    Lag = 1
    MaxFaults = 1
INVARIANTS
    TypeOK
    SchedulerIsSingle
    WarmStaysWarm
PROPERTIES
    WarmsAgain
