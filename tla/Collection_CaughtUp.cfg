SPECIFICATION Spec
CONSTANTS
    Ids = {d1, d2}
    Versions = {v1}
    None = None
    NoFile = NoFile
    NoIndex = NoIndex
    FlushThreshold = 1
    CompactTrigger = 3
    WalSync = TRUE
    TornAppend = FALSE
    Faults = {}
    MaxRecords = 4
    MaxSegmentId = 4
    UpgradeThreshold = 3
    MaxFailures = 0
SYMMETRY Symmetry
INVARIANTS
    CaughtUp
