SPECIFICATION Spec
CONSTANTS
    Threads = {t1, t2}
    Names = {n1}
    None = None
    NoDir = NoDir
    Faults = {}
    MaxCreations = 1
    MaxEngines = 3
SYMMETRY Symmetry
INVARIANTS
    ThreadSafe
