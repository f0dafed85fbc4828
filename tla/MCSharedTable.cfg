SPECIFICATION Spec
CONSTANTS
    Clients = {c1, c2, c3}
    NoClient = NoClient
    Workers = {w1, w2}
    Free = Free
    Requests = 1
    Peak = 0
    Window = 2
    Ban = 3
    Capacity = 1
    EvictScan = 2
    Slots = 2
    Shards = 2
    Probes = 2
    SweepEvery = 2
    SweepStep = 1
    MaxLag = 0
    MaxDeaths = 1
    MaxTime = 3
    MaxRequests = 4
INVARIANT TypeOK
INVARIANT NoLostUpdate
INVARIANT OneSlotPerClient
PROPERTY LockoutKept
SYMMETRY Symmetry
CHECK_DEADLOCK FALSE
