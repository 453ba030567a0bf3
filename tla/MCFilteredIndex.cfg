CONSTANTS
    Tags = {1, 2, 3, 4, 5, 6}
    Labels = {1, 2}
    Universal = 0
    NoTag = NoTag
    HiddenTag = 0
    None = None
    Offers <- MCOffers
    Configs <- MCConfigs
    ActiveWindow = 1
    ConsolidateInterval = 1
    FileLabels <- MCFileTwoLabels
    InsertThreads = 2
    DataLabels <- MCFileTwoLabels
    Threads = 2
    Absent = Absent
    Labelled <- MCLabelled
    UniversalId = 0
    MaxOut = 2
    StitchedR = 1
SPECIFICATION FilteredSpec
CHECK_DEADLOCK FALSE
INVARIANTS
    LabelsFollowTags
    EveryLabelHasAStart
    AnswersHaveLabel
    SavedIsAsked
    LoadKeepsLabels
    LabelReachKept
PROPERTY StreamEnds
