CONSTANTS
    t1 = t1
    t2 = t2
    t3 = t3
    th1 = th1
    th2 = th2
    th3 = th3
    NoTag = NoTag
    NoThread = NoThread
    Tags = {t1, t2, t3}
    Threads = {th1, th2, th3}
    MaxPoints = 2
    Modes = {FALSE, TRUE}
SPECIFICATION Spec
SYMMETRY Symmetry
INVARIANTS
    SlotsAccounted
    TagMapsInverse
    VectorOfTagSync
    CountsConsistent
PROPERTY ImplementsTagStore
