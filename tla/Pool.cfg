SPECIFICATION MCSpec
CONSTANTS
    Txs <- MCTxs
    In <- MCIn
    Size <- MCSize
    Fee <- MCFee
    AncestorLimit = 2
    DescendantLimit = 2
    AncSizeLimit = 4
    DescSizeLimit = 4
    MaxSize = 3
    Incremental = 1
    Blocks <- MCBlocks
    Genesis = "g0"
    Parent <- MCParent
    Height <- MCHeight
    Vtx <- MCVtx
    BadScripts = {}
    LockHeight <- MCLockHeight
    RelLock <- MCRelLock
    Replaceable <- MCReplaceable
    FullRbf = FALSE
    MinRelay = 1
    ExtraSize = 1
    MaxReplacements = 3
    Maturity = 2
    DisconnectMax = 5
    Packages <- MCPackages
    Deltas <- MCDeltas
    MaxPrioritised = 1
    IdxBlocks <- MCIdxBlocks
    IdxGenesis = "G"
    IdxParent <- MCIdxParent
    Kinds = {"tx", "filter", "coinstats"}
    NoBlock = NoBlock
    MaxTrouble = 2
    MaxPos = 12
    MaxFlushes = 1
INVARIANTS
    PoolSound
    
PROPERTIES
    PoolMoves
    MCSynced
CHECK_DEADLOCK FALSE
