SPECIFICATION FairSpec
CONSTANTS
    Tasks = {t1, t2}
    NoTask = NoTask
    MaxCounter = 2
INVARIANTS
    TerminatedIsCleared
PROPERTIES
    NoUseAfterEnd
    CallsReturn
