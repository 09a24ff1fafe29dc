SPECIFICATION Spec
CONSTANTS
    p1 = p1
    p2 = p2
    NoPeer = NoPeer
    Peers = {p1, p2}
    Preferred = {p1}
    WtxidRelay = {p2}
    RelayPermission = {p1}
    TxHashes = {"t", "w", "c"}
    LowBits <- MCLowBits
    Txs <- Family
    TopBit = 4
    MaxDelay = 2
    MaxBack = 1
    NonprefDelay = 1
    TxidDelay = 0
    OverloadedDelay = 1
    GetdataInterval = 1
    MaxAnnouncements = 2
    MaxInFlight = 1
    MaxOrphans = 1
    MaxInvs = 3
    MaxEvents = 1
INVARIANTS
    TrackerSound
    RequestedTxFindsBest
    DownloadTidy
PROPERTY
    Lifecycle
