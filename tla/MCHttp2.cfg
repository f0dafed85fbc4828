SPECIFICATION Spec
CONSTANTS
    Requests <- MCRequests
    Says <- MCSays
    Uploads <- MCUploads
    MaxSends <- MCMaxSends
    RecvMax = 3
    SendMax = 1
    Chunk <- MCChunk
    Window = 1
    StreamWindow <- MCStreamWindow
    MaxBatch = 2
    MaxResets = 1
    MaxTrouble = 1
    Careful = FALSE
INVARIANTS
    TypeOK
    NoCreditLost
    NoMissedWakeUp
    GoneMeansTold
    EndedIsWhole
    FinishedIsForgotten
    LostMeansOver
CHECK_DEADLOCK FALSE
