CONSTANTS
    main = main
    w1 = w1
    w2 = w2
    NoThread = NoThread
    Main = main
    Workers <- MCWorkers
    Owners <- MCOwners
    Deltas <- MCDeltas
    Adds <- MCAdds
    Budget <- MCBudget
SPECIFICATION FairSpec
INVARIANTS
    TypeOK
    NoneStranded
    ZeroMeansDone
    ResourcesReturned
PROPERTIES
    ImplementsLatch
    WaitersReturn
CHECK_DEADLOCK FALSE
