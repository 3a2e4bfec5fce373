SPECIFICATION FairSpec
CONSTANTS
    Runs = {r1, r2}
    Suitable = {r2}
    Ids = {a}
    Contents = {x, y}
    NoVacancy = NoVacancy
    MaxPages = 1
    DetailLimit = 1
    CoreFaults = {"profile", "lookup", "ingest", "item"}
    CanCrash = FALSE
    OtherWriters = TRUE
    r1 = r1
    r2 = r2
    a = a
    x = x
    y = y
INVARIANTS
    CreatedOnce
    UpdatesOnlyMissed
PROPERTIES
    EveryRunFinalized
CHECK_DEADLOCK FALSE
