SPECIFICATION Spec
CONSTANTS
    Dim = 3
    Queries <- MCQueries
    Requests <- MCRequests
    Samples <- MCSamples
    Rotations <- MCRotations
    NumCenters = 2
    MaxReps = 12
    OpqIters = 2
CHECK_DEADLOCK FALSE
INVARIANTS
    DistancesAreDecoded
    CodesAreNearest
PROPERTIES
    TrainingEnds
