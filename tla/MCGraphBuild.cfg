CONSTANTS
    w1 = w1
    w2 = w2
    MaxDegree = 2
    SlackDegree = 3
    MaxC = 4
    Universal = 0
    Workers = {w1, w2}
    ListSize = 3
    K = 2
    AlphaMin = 100
    AlphaMax = 150
    Rounds <- MCRounds
    Layouts <- MCLayouts
    LidFiles <- MCLidFiles
    Queries <- MCQueries
SPECIFICATION Spec
PROPERTIES
    NeverCutOff
    BuildAdvances
INVARIANTS
    QueueHoldsNearest
    PrunedCandidatesCovered
