CONSTANTS
    Null = Null
    Room = 4
    MaxYields = 4
    MaxCalls = 6
SPECIFICATION FairSpec
INVARIANTS
    TypeOK
    OneRuns
    InStep
PROPERTIES
    CallsReturn
    DestroyEnds
CHECK_DEADLOCK FALSE
