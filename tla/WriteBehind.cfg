SPECIFICATION Spec
CONSTANTS
    e1 = e1
    e2 = e2
    e3 = e3
    worker = worker
    f1 = f1
    Events <- MCTwoEvents
    Worker = worker
    Forcers <- MCForcers
    BATCH = 1
    MaxFaults = 1
    MaxClears = 1
INVARIANTS
    TypeOK
    LossNeedsExposure
    RowsFollowEvents
    StatsAreHonest
PROPERTIES
    StreamDrains
