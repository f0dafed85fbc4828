SPECIFICATION Spec
CONSTANTS
    Requests <- MCRequests
    Streams <- MCStreams
    Says <- MCSays
    RecvMax = 1
    SendMax = 1
    Declared = 1
    DrainMax = 1
    MaxServed = 2
    MaxSends <- MCMaxSends
    Careful = TRUE
INVARIANTS
    TypeOK
    AnswersInOrder
    HeadsOutsideBodies
    HeadsNeverReadFromBodies
    WholeMeansWhole
    GivenUpStaysOpen
    NoMissedWakeUp
CHECK_DEADLOCK FALSE
