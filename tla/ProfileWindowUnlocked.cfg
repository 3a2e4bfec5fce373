SPECIFICATION Spec
CONSTANTS
    Readers = {}
    Openers = {o}
    Confirmers = {c}
    Windows = {w1, w2}
    NoOne = NoOne
    OtherHost = OtherHost
    MaxRestarts = 0
    o = o
    c = c
    w1 = w1
    w2 = w2
SYMMETRY Symmetry
INVARIANTS
    HeldWhileWindowOpen
