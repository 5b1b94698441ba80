SPECIFICATION ChannelsSpec
CONSTANTS
    Tasks = {t1}
    NoTask = NoTask
    Messages = {m1, m2}
    MaxCounter = 3
INVARIANTS
    VectorsUsedOnce
    InOrderExactlyOnce
CHECK_DEADLOCK FALSE
