CONSTANTS
    N = 3
    Capacity = 2
    Rivals <- MCRivals
    HasDeadline = TRUE
    MaxPushes = 2
SPECIFICATION FairSpec
INVARIANTS
    TypeOK
    SelectedDoesNotBlock
    AllClosedMeansDrained
    ReadyIsFound
PROPERTIES
    SelectReturns
CHECK_DEADLOCK FALSE
