SPECIFICATION FairSpec
CONSTANTS
    Events = {e1, e2, e3}
    Clients = {c1, c2}
    Limit = 2
    MaxBatch = 2
    MaxTime = 2
    MaxTroubles = 1
INVARIANTS
    NothingLost
PROPERTIES
    WholeBatches
    Drains
CHECK_DEADLOCK FALSE
