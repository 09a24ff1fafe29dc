SPECIFICATION MCSpec
CONSTANTS
    Blocks <- MCBlocks
    Genesis = "g"
    NoBlock = "none"
    Parent <- MCParent
    Height <- MCHeight
    ChainWork <- MCWork
    Ancestors <- MCAncestors
    Addr <- MCAddr
    BadBody = {"b2"}
    BadConnect = {"a2"}
    MinimumChainWork = 3
    MinBlocksToKeep = 1
    ConnectBatch = 2
    ReverseIds = 3
    ReconsiderAny = FALSE
    Budgets <- MCBudgets
INVARIANTS
    ActiveChainValid FailedBlocksStillFailed NoRegressAtUnlock 
    IndexHolds  
PROPERTIES
    BetterBlockGetsActive
