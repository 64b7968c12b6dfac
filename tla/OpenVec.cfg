SPECIFICATION Spec
CONSTANTS
    Threads = {t1, t2}
    Names = {n1, n2}
    None = None
    NoDir = NoDir
    Faults = {"openCollection", "saveMeta", "removeDir"}
    MaxCreations = 2
    MaxEngines = 3
SYMMETRY Symmetry
INVARIANTS
    TypeOK
    MetaSaved
    CreatedSurvives
    OneEnginePerDirectory
    DropLeavesNothing
    NoGhosts
