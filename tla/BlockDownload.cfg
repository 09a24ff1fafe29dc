SPECIFICATION Spec
CONSTANTS
    o = o
    i = i
    g = g
    a1 = a1
    a2 = a2
    b1 = b1
    None = None
    Peers = {o, i}
    Outbound = {o}
    Honest = {o}
    Limited = {}
    CmpctPeers = {o, i}
    Blocks = {a1, a2, b1}
    Genesis = g
    Parent <- MCParent
    Fault <- MCFault
    Recent = {a1, a2}
    BLOCK_DOWNLOAD_WINDOW = 1
    MAX_BLOCKS_IN_TRANSIT_PER_PEER = 2
    MAX_CMPCTBLOCKS_INFLIGHT_PER_BLOCK = 2
    MaxAnnouncers = 2
    CmpctDepth = 1
    DISCOURAGEMENT_THRESHOLD = 2
    MaxUnasked = 3
INVARIANT DownloadSound
PROPERTY TipCatchesUp
CHECK_DEADLOCK FALSE
