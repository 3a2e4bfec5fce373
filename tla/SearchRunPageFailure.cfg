SPECIFICATION Spec
CONSTANTS
    Runs = {r1}
    Suitable = {r1}
    Ids = {a}
    Contents = {x, y}
    NoVacancy = NoVacancy
    MaxPages = 2
    DetailLimit = 2
    CoreFaults = {}
    CanCrash = FALSE
    OtherWriters = FALSE
    r1 = r1
    a = a
    x = x
    y = y
INVARIANTS
    PageFailureIsPartial
CHECK_DEADLOCK FALSE
