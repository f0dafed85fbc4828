SPECIFICATION Spec
CONSTANTS
    Requests <- MCRequests
    Streams <- MCStreams
    Says <- MCSays
    RecvMax = 1
    SendMax = 1
    Declared = 1
    DrainMax = 1
    MaxServed = 2
    MaxSends <- MCMaxSends
    Careful = FALSE
INVARIANTS
    HeadsOutsideBodies
CHECK_DEADLOCK FALSE
