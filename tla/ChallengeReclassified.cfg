SPECIFICATION Spec
CONSTANTS
    Captors = {k1, k2}
    Openers = {o}
    Confirmers = {c}
    None = None
    MaxGates = 1
    MaxWindows = 0
    k1 = k1
    k2 = k2
    o = o
    c = c
SYMMETRY Symmetry
INVARIANTS
    ConfirmedIsCaptured
CHECK_DEADLOCK FALSE
