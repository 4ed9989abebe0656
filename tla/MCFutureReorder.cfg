CONSTANTS
    s1 = s1
    s2 = s2
    w1 = w1
    w2 = w2
    f = f
    g = g
    v1 = v1
    v2 = v2
    e1 = e1
    NoThread = NoThread
    NullValue = NullValue
    Threads <- MCThreads
    Futures <- MCFutures
    Values <- MCValues
    Errors <- MCErrors
    Programs <- ReorderPrograms
    Budget = 1
    MaxSpurious = 1
    ReorderStores = TRUE
SPECIFICATION FairSpec
INVARIANTS
    AwaitersAgree
CHECK_DEADLOCK FALSE
