SPECIFICATION Spec
CONSTANTS
    Setups <- MCSetups
    Graphs <- MCGraphs
    Nearest <- MCNearest
    OutDegree = 2
    KBase = 2
    MaxParts = 5
    Universal = 0
    NodesPerSector = {0, 3}
    SectorsPerNode = 2
    VectorsPerSector = {0, 2, 3}
    ReorderMultiplier = 3
    MaxSectorReads = 2
    CacheCap = 3
    CacheAsked = {1, 4}
    Quantized <- MCQuantized
    Searches <- MCSearches
    SampleL = 2
    SampleBeam = 2
INVARIANTS
    MergedIsUnion
    EntriesAreRight
    ReadsFindTheNode
    NothingLeftBehind
    AnswersAreNearest
