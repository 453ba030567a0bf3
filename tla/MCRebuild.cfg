SPECIFICATION Spec
CONSTANTS
    Requests <- MCRequests
    MaxBuilds = 3
    MaxChunks = 3
    CacheSpace = 1
    CacheThreshold = 4
CHECK_DEADLOCK FALSE
INVARIANTS
    LoadsWhatWasAsked
