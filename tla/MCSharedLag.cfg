SPECIFICATION FairSpec
CONSTANTS
    Clients = {c1}
    NoClient = NoClient
    Workers = {w1, w2}
    Free = Free
    Requests = 1
    Peak = 0
    Window = 4
    Ban = 0
    Capacity = 2
    EvictScan = 2
    Slots = 1
    Shards = 1
    Probes = 1
    SweepEvery = 1
    SweepStep = 1
    MaxLag = 1
    MaxDeaths = 1
    MaxTime = 6
    MaxRequests = 4
INVARIANT AllowanceHeld
INVARIANT AloneAllowanceHeld
PROPERTY Answered
CHECK_DEADLOCK FALSE
