SPECIFICATION Spec
CONSTANTS
    Ids = {d1, d2}
    Versions = {v1, v2}
    None = None
    NoFile = NoFile
    FlushThreshold = 2
    CompactTrigger = 2
    WalSync = TRUE
    TornAppend = FALSE
    Faults = {}
    MaxRecords = 4
    MaxSegmentId = 3
SYMMETRY Symmetry
INVARIANTS
    TypeOK
    MemTableRecoverable
    WriteOnceDurable
    WriteOnceVisible
    GoneStaysGone
PROPERTIES
    FlushedIsDurable
    ImplementsDocumentStore
