SPECIFICATION Spec
CONSTANTS
    Readers = {r1, r2}
    Openers = {}
    Confirmers = {}
    Windows = {}
    NoOne = NoOne
    OtherHost = OtherHost
    MaxRestarts = 0
    r1 = r1
    r2 = r2
SYMMETRY Symmetry
INVARIANTS
    ExclusiveUse
CHECK_DEADLOCK FALSE
