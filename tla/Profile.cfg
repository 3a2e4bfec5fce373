SPECIFICATION FairSpec
CONSTANTS
    Readers = {r1}
    Openers = {o}
    Confirmers = {c}
    Windows = {w1}
    NoOne = NoOne
    OtherHost = OtherHost
    MaxRestarts = 1
    r1 = r1
    o = o
    c = c
    w1 = w1
INVARIANTS
    TypeOK
    LockIsOwed
PROPERTIES
    LeftoverIsDropped
