SPECIFICATION CFairSpec
CONSTANTS
    Users = {u1}
    Confirmers = {c1}
    Operators = {o1}
    MaxGrants = 3
    Faults = {"killed", "lost", "bare"}
INVARIANTS
    CTypeOK
    StoredRefreshIsGood
PROPERTIES
    LoginSurvives
    FollowingConnects
CHECK_DEADLOCK FALSE
