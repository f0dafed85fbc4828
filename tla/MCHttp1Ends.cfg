SPECIFICATION FairSpec
CONSTANTS
    Requests <- OneRequest
    Streams <- OneStream
    Says <- OneSays
    RecvMax = 1
    SendMax = 1
    Declared = 1
    DrainMax = 1
    MaxServed = 2
    MaxSends <- OneMaxSends
    Careful = TRUE
PROPERTIES
    EndedMeansAnswered
CHECK_DEADLOCK FALSE
