SPECIFICATION MCSpec
CONSTANTS
    Cap = 2
    MaxGarbage = 1
    Ends <- MCEnds
    Addrs = {"a", "b", "c"}
    Sources = {"s", "t"}
    NetOf <- MCNetOf
    NewBucket <- MCNewBucket
    NewPos <- MCNewPos
    TriedSlot <- MCTriedSlot
    NewBuckets = {1, 2}
    Positions = {1, 2}
    MAX_REFS = 2
    RETRIES = 1
    MAX_FAILURES = 1
    HORIZON = 2
    MIN_FAIL = 2
    REPLACEMENT = 2
    TEST_WINDOW = 1
    COLLISIONS = 1
    Penalty = 1
    AmMaxTime = 4
    MaxId = 4
    MaxOps = 4
    Starts <- MCStarts
    Subnets = {"s", "t"}
    Untils = {1, 3}
    Callers = {"rpc", "sched"}
    BmMaxTime = 2
    MaxCalls = 2
    MaxCrashes = 1
    MaxPeers = 2
    Requests = {"r1", "r2", "r3", "r4"}
    HWorkers = {"w1"}
    ConnOf <- MCConnOf
    PathOf <- MCPathOf
    HDepth = 1
    WBlocks = {"g", "a", "b", "x", "y", "z"}
    WParent <- MCTree
    WSpends <- MCSpends
    WMaxHeaders = 2
    WMaxOutpoints = 2
    WQueries <- MCQueries
    WMoves = 2
    RParent <- MCParent
    RBad <- MCBad
    RLayouts <- MCLayouts
    RStops = 1
    VHeight = 4
    VFaults <- MCFaults
    VMemory = {0, 2, 9}
    OMost = 3
INVARIANTS
    MessagesSound
    
    RequestsAnswered
    StartSound
PROPERTIES
    ServicesProgress
CHECK_DEADLOCK FALSE
