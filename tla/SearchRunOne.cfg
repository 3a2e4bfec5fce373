SPECIFICATION Spec
CONSTANTS
    Runs = {r1}
    Suitable = {r1}
    Ids = {a, b}
    Contents = {x, y}
    NoVacancy = NoVacancy
    MaxPages = 2
    DetailLimit = 1
    CoreFaults = {"profile", "start", "lookup", "ingest", "item", "finalize"}
    CanCrash = TRUE
    OtherWriters = TRUE
    r1 = r1
    a = a
    b = b
    x = x
    y = y
SYMMETRY Symmetry
INVARIANTS
    TypeOK
    VerdictIsTrue
    ClaimsAreBacked
    ResponseIsHonest
    GuardedUnlessWalled
PROPERTIES
    ImplementsContract
    RunsGoOnward
CHECK_DEADLOCK FALSE
