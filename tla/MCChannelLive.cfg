CONSTANTS
    p1 = p1
    p2 = p2
    c1 = c1
    c2 = c2
    v1 = v1
    v2 = v2
    NoThread = NoThread
    NullValue = NullValue
    Threads <- MCThreads
    Values <- LiveValues
    Allowed <- LiveAllowed
    Requested = 0
    SpinRounds = 1
    Budget = 2
    MaxSpurious = 1
SPECIFICATION FairSpec
PROPERTIES
    WakeupsArrive
    CloseReleasesAll
CHECK_DEADLOCK FALSE
