CONSTANTS
    t1 = t1
    t2 = t2
    t3 = t3
    th1 = th1
    th2 = th2
    NoTag = NoTag
    NoThread = NoThread
    Tags = {t1, t2, t3}
    Threads = {th1, th2}
    MaxPoints = 3
    Modes = {FALSE, TRUE}
    NumFrozen = 1
    Setups <- MCSetups
    Workers = 2
SPECIFICATION GraphSpec
SYMMETRY Symmetry
VIEW GraphView
INVARIANTS
    NoDanglingEdgeSync
    ListsWellFormed
    ConsolidationKeepsReach
