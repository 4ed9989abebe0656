CONSTANTS
    Nothing = Nothing
    Threads = {t1}
    Sites <- MCSites
    Handles <- MCHandles
    CatchesAny = {"catch"}
    HasFinally = {"catch finally", "finally"}
    Classes <- MCClasses
    MaxDepth = 4
    MaxTries = 3
    MaxThrows = 3
    MaxCalls = 1
SPECIFICATION Spec
INVARIANTS
    TypeOK
    FramesNest
    FinallyOfCareful
PROPERTIES
    CarefulThrowsLand
CHECK_DEADLOCK FALSE
