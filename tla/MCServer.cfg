SPECIFICATION Spec
CONSTANTS
    Master = "w1"
    Children <- MCChildren
    Connections <- MCConnections
    MaxConnections = 1
INVARIANTS
    TypeOK
    DrainedFirst
PROPERTIES
    GraceKept
    ServerEnds
CHECK_DEADLOCK FALSE
