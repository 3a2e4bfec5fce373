SPECIFICATION FairSpec
CONSTANTS
    Selectors = {s1}
    Syncers = {y1, y2}
    Patient = y1
    Resumes = {r1, r2}
    InUse = {r1}
    Wished = r1
    None = None
    MaxChanges = 1
INVARIANTS
    TypeOK
    AnswerIsStored
    FileNotOlder
    LinkIsSelection
PROPERTIES
    ImplementsContract
    FileCatchesUp
CHECK_DEADLOCK FALSE
