CONSTANTS
    s1 = s1
    i1 = i1
    c1 = c1
    c2 = c2
    w1 = w1
    w2 = w2
    b1 = b1
    b2 = b2
    NoScratch = NoScratch
    NoThread = NoThread
    Searchers = {s1}
    Inserters = {i1}
    Consolidators = {c1, c2}
    Team = {w1, w2}
    Scratches = {b1, b2}
    Locations = 2
    Calls = 1
    Modes = {TRUE, FALSE}
SPECIFICATION FairSpec
CHECK_DEADLOCK FALSE
INVARIANTS
    ScratchExclusive
    ConsolidationAlone
PROPERTY CallsReturn
