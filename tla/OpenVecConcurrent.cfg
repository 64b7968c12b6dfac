SPECIFICATION FairSpec
CONSTANTS
    Threads = {t1, t2}
    Names = {n1}
    None = None
    NoDir = NoDir
    Faults = {"saveMeta"}
    MaxCreations = 2
    MaxEngines = 3
INVARIANTS
    LocksOrdered
PROPERTIES
    OperationsEnd
