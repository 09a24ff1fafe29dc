SPECIFICATION MCSpec
CONSTANTS
    CqWorkers = {w1, w2}
    Master = Master
    NoThread = NoThread
    nBatchSize = 2
    Batches <- MCBatches
    MaxControls = 2
    MaxAdds = 2
    CqMaxSpurious = 1
    Keys = {k1, k2, k3}
    NoKey = NoKey
    NoVM = NoVM
    FailPoints = {"cache", "dataset", "vm"}
    Workers = {t1, t2}
    Clients = {c1}
    LoadThread = {}
    Main = main
    QueueLimit = 0
    Callbacks = {a}
    MaxEvents = 2
    MaxEntries = 1
    MaxSpurious = 1
INVARIANTS
    WaitReturnsVerdict
    NeverAnotherKey
    EntryCountExact
PROPERTIES
    
    ImplementsSerialQueue
CHECK_DEADLOCK FALSE
