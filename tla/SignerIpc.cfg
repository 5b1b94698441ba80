SPECIFICATION Spec
CONSTANTS
    Calls = {c1, c2, c3}
    Allowed = {c1, c2}
    NoCall = NoCall
    Skew = 1
    Patience = 1
    MaxEntries = 2
    Faults = {"restart", "setback"}
    MaxTime = 3
    MaxExtra = 1
INVARIANTS
    SteadySignsOnce
PROPERTIES
    ConnectionsServed
CHECK_DEADLOCK FALSE
