SPECIFICATION MCSpec
CONSTANTS
    o = o
    u = u
    g = g
    h1 = h1
    h2 = h2
    h3 = h3
    h4 = h4
    h5 = h5
    x2 = x2
    x3 = x3
    None = None
    Peers = {o, u}
    Preferred = {o, u}
    NoBan = {}
    Honest = {o}
    Blocks = {h1, h2, h3, h4, h5, x2, x3}
    Genesis = g
    HonestTip = h5
    Parent <- MCParent
    Bit <- MCBit
    Recent = {h5}
    Steep = {}
    MinimumChainWork = 4
    MAX_HEADERS_RESULTS = 2
    MAX_BLOCKS_TO_ANNOUNCE = 1
    MAX_NUM_UNCONNECTING_HEADERS_MSGS = 2
    HEADER_COMMITMENT_PERIOD = 2
    REDOWNLOAD_BUFFER_SIZE = 1
    MaxCommitments = 2
    MaxProtected = 1
    DISCOURAGEMENT_THRESHOLD = 3
    MaxUnasked = 4
    A = A  B = B  Nobody = Nobody
    Scenarios <- MCScenarios
    PROTOCOL_VERSION = 9
    WTXID_RELAY_VERSION = 9
    FEEFILTER_VERSION = 6
    BIP0031_VERSION = 4
    MIN_PEER_PROTO_VERSION = 2
    MAX_ADDR_TO_SEND = 2
    MisbehaviorLimit = 5
    Txs = {t1}
    Addrs = {a1, a2}
    V1Addrs = {a1}
    MAX_MONEY = 2
    StrangeMessages <- MCStrange
    MaxWork = 2
    MaxStrange = 3
INVARIANTS
    OnlyChainsWithWork
    SessionSound
PROPERTIES
    MCHeadersSynced
CHECK_DEADLOCK FALSE
