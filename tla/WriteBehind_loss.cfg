SPECIFICATION Spec
CONSTANTS
    e1 = e1
    e2 = e2
    e3 = e3
    worker = worker
    f1 = f1
    Events <- MCEvents
    Worker = worker
    Forcers <- MCForcers
    BATCH = 2
    MaxFaults = 0
    MaxClears = 0
INVARIANTS
    NothingDropped
