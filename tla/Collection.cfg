SPECIFICATION Spec
CONSTANTS
    Ids = {d1, d2}
    Versions = {v1}
    None = None
    NoFile = NoFile
    NoIndex = NoIndex
    FlushThreshold = 1
    CompactTrigger = 3
    WalSync = TRUE
    TornAppend = FALSE
    Faults = {"append", "segWrite"}
    MaxRecords = 3
    MaxSegmentId = 3
    UpgradeThreshold = 2
    MaxFailures = 1
SYMMETRY Symmetry
INVARIANTS
    TypeOK
    SearchComplete
    DeletedNotFound
PROPERTIES
    EngineStoresDocuments
