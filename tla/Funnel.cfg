SPECIFICATION FairSpec
CONSTANTS
    v1 = v1
    v2 = v2
    bad = bad
    Vacancies = {v1, v2}
    Plans <- MCPlans
    Incomplete = bad
    Limits = {0, 2}
    Appliers = {a1}
    Syncers = {s1, s2}
    Steady = {s1}
    Served = {v1}
    NoVacancy = none
    Embedded = {v1}
    PageSize = 2
    MaxListed = 2
    MaxChanges = 1
INVARIANTS
    TypeOK
    ReportIsTrue
    OkIsApplied
    SyncedIsThere
PROPERTIES
    ImplementsContract
    EveryApplicationArrives
