SPECIFICATION Spec
CONSTANTS
    Ids = {d1, d2, d3}
    Bodies = {}
    None = None
    NoBytes = NoBytes
    Mismatch = Mismatch
    One = 6
    Vectors <- MCVectors
    Queries <- MCQueries
    Retrainings <- MCRetrainings
    Levels = 4
    NCentroids = 2
    TrainingThreshold = 3
    MaxIterations = 15
    MaxInserts = 5
    RetrainedAfter = 3
    SavedAfter = 4
SYMMETRY Symmetry
INVARIANTS
    TypeOK
    OnePlaceEach
    CountCoversLive
    FullProbeAccurate
    SelfFindable
PROPERTIES
    ImplementsVectorIndex
