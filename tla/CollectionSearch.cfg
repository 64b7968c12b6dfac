SPECIFICATION Spec
CONSTANTS
    Ids = {d1, d2}
    None = None
    NoIndex = NoIndex
    Mismatch = Mismatch
    Panic = Panic
    MaxInserts = 3
    One = 1
    Precision = 15249024
    Bodies <- MCBodies
    Vectors <- MCVectors
    Fields <- MCFields
    FieldMetric <- MCFieldMetric
    Cjk <- MCCjk
    Wide <- MCWide
    Narrow <- MCNarrow
    Lower <- MCLower
    Terms <- MCTerms
    AllFilters <- MCAllFilters
    Requests <- MCRequests
SYMMETRY Symmetry
INVARIANTS
    TypeOK
    IndexesConsistent
    SearchExact
    StoredIsFound
    TextExact
    HybridExact
PROPERTIES
    ImplementsVectorIndex
