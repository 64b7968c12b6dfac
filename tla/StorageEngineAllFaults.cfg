SPECIFICATION Spec
CONSTANTS
    Ids = {d1}
    Versions = {v1}
    None = None
    NoFile = NoFile
    FlushThreshold = 1
    CompactTrigger = 2
    WalSync = FALSE
    TornAppend = TRUE
    Faults = {"append", "segWrite", "segOpen", "segRemove", "walRemove", "walOpen"}
    MaxRecords = 2
    MaxSegmentId = 3
SYMMETRY Symmetry
INVARIANTS
    SegmentIdsFresh
PROPERTIES
    OpenSegmentsImmutable
