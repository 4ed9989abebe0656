CONSTANTS
    p1 = p1
    p2 = p2
    c1 = c1
    c2 = c2
    v1 = v1
    v2 = v2
    NoThread = NoThread
    NullValue = NullValue
    Threads <- MCThreads
    Values <- MCValues
    Allowed <- MCAllowed
    Requested = 2
    SpinRounds = 0
    Budget = 2
    MaxSpurious = 1
SPECIFICATION Spec
INVARIANTS
    TypeOK
    NoLostWakeup
    ReferencesBalanced
PROPERTIES
    ImplementsQueue
CHECK_DEADLOCK FALSE
