SPECIFICATION ToolsSpec
CONSTANTS
    PartSize = 2
    Junk = Junk
    Commands <- MCCommands
    Evaluations <- MCEvaluations
    RangeCommands <- MCRangeCommands
    MaxListSize = 4
    Absent = Absent
    Garbage = Garbage
    Clients = {1, 2}
    Services <- MCServices
    Bodies <- MCBodies
    DefaultL = 100
    MaxSetups = 2
    Missing = Missing
    Null = Null
CHECK_DEADLOCK FALSE
INVARIANTS
    TruthIsNearest
    RecallMeasuresDistance
    RangeIsComplete
    AnswersAreMerged
PROPERTY RequestsEnd
