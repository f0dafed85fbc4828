SPECIFICATION Spec
CONSTANTS
    Requests <- OneRequest
    Says <- OneSays
    Uploads <- OneUploads
    MaxSends <- OneMaxSends
    RecvMax = 3
    SendMax = 1
    Chunk <- OneChunk
    Window = 1
    StreamWindow <- OneStreamWindow
    MaxBatch = 2
    MaxResets = 1
    MaxTrouble = 0
    Careful = TRUE
INVARIANTS
    CreditOnce
CHECK_DEADLOCK FALSE
