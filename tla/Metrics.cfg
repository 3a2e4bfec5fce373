SPECIFICATION FairSpec
CONSTANTS
    Vacancies = {v1, v2}
    Meters = {m1, m2}
    Steady = {m1}
    PageSize = 2
    MaxChanges = 1
    MaxParts = 2
    MaxListed = 2
INVARIANTS
    TypeOK
    CountsAreBacked
PROPERTIES
    NewCountsArrive
