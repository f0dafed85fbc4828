SPECIFICATION Spec
CONSTANTS
    Requests <- MCRequests
    WithBody <- MCWithBody
    Repeatable <- MCRepeatable
    MaxIdle = 1
    MaxConnections = 3
    Answers <- MCAnswers
INVARIANTS
    TypeOK
    OwnAnswer
    SentOnce
    OneOwner
    WholeMeansWhole
CHECK_DEADLOCK FALSE
