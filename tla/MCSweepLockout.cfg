SPECIFICATION Spec
CONSTANTS
    Clients = {c1, c2}
    NoClient = NoClient
    Workers = {w1, w2}
    Free = Free
    Requests = 1
    Peak = 0
    Window = 2
    Ban = 3
    Capacity = 2
    EvictScan = 2
    Slots = 2
    Shards = 2
    Probes = 2
    SweepEvery = 1
    SweepStep = 1
    MaxLag = 0
    MaxDeaths = 0
    MaxTime = 4
    MaxRequests = 5
PROPERTY LockoutEnforced
SYMMETRY Symmetry
CHECK_DEADLOCK FALSE
