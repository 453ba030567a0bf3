CONSTANTS
    t1 = t1
    t2 = t2
    ZeroTag = ZeroTag
    NoTag = NoTag
    Tags = {t1, t2}
    Setups <- MCSetups
    MaxCapacity = 3
    NumFrozen = 2
    Links = 1
SPECIFICATION Spec
SYMMETRY Symmetry
INVARIANTS
    LiveVectors
PROPERTIES
    SaveKeepsContent
    LoadRestores
