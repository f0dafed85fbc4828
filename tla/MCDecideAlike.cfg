SPECIFICATION Spec
CONSTANTS
    Clients = {c1, c2}
    NoClient = NoClient
    Requests = 1
    Peak = 2
    Window = 3
    Capacity = 2
    EvictScan = 2
    LockFors <- MCLockFors
    FirstTime = 1
    MaxTime = 6
INVARIANT TypeOK
PROPERTY LocalIsLimiter
PROPERTY SharedIsLimiter
CHECK_DEADLOCK FALSE
