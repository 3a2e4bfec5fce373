SPECIFICATION FairSpec
CONSTANTS
    Captors = {k1, k2}
    Openers = {o}
    Confirmers = {c}
    None = None
    MaxGates = 1
    MaxWindows = 1
    k1 = k1
    k2 = k2
    o = o
    c = c
INVARIANTS
    TypeOK
    OfferedRightly
    ClearedIsProbed
PROPERTIES
    SolvedIsCleared
CHECK_DEADLOCK FALSE
