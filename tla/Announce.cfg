CONSTANTS
    Genesis = 0
    Blocks = {1, 2, 3, 11, 12}
    Parent <- MCParent
    Bad = {3}
    MAX_BLOCKS_TO_ANNOUNCE = 2
    MAX_HEADERS_RESULTS = 3
    GetBlocksLimit = 2
    MAX_CMPCTBLOCK_DEPTH = 1
    MAX_BLOCKTXN_DEPTH = 0
    Peers <- MCPeers
    MaxOther = 1
    None = None
SPECIFICATION Spec
INVARIANT AnnouncedIsServed
PROPERTY PeerLearnsTip
CHECK_DEADLOCK FALSE
