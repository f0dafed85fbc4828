SPECIFICATION Spec
CONSTANTS
    QueueMax = 1
    MaxSends = 3
    MaxRefused = 2
    MaxFrames = 2
    Closers <- MCClosers
INVARIANTS
    TypeOK
    AnswerFirst
    OneFarewell
    PausedForAReason
PROPERTIES
    SessionEnds
    PeerHeard
CHECK_DEADLOCK FALSE
