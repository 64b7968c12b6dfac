SPECIFICATION Spec
CONSTANTS
    Ids = {d1, d2, d3, d4}
    Bodies = {}
    None = None
    NoBytes = NoBytes
    Mismatch = Mismatch
    One = 1
    Vectors <- MCVectors
    Queries <- MCQueries
    Metric = "l2"
    M = 1
    MMax0 = 3
    EfConstruction = 3
    EfSearch = 1
    TopLevel = 1
    MaxInserts = 4
    SavedAfter = 2
SYMMETRY Symmetry
INVARIANTS
    TypeOK
    GraphWellFormed
    SearchFindsLive
    SmallIsComplete
PROPERTIES
    ImplementsVectorIndex
