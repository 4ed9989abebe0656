CONSTANTS
    Lengths <- MCLengths
    Requests <- MCRequests
    HalfInt = 16
    MaxLength = 5
SPECIFICATION FairSpec
INVARIANTS
    TypeOK
PROPERTIES
    ImplementsLoop
    CallEnds
CHECK_DEADLOCK FALSE
