CONSTANTS
    t1 = t1
    t2 = t2
    th1 = th1
    th2 = th2
    th3 = th3
    NoTag = NoTag
    NoThread = NoThread
    Tags = {t1, t2}
    Threads = {th1, th2, th3}
    MaxPoints = 1
    Modes = {TRUE}
SPECIFICATION Spec
INVARIANT VectorOfTag
