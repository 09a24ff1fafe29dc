CONSTANTS
    NoEntry = NoEntry
    Outpoints <- MCOutpoints
    Blocks <- MCBlocks
    Genesis = "g"
    NoBlock = NoBlock
    Parent <- MCParent
    Height <- MCHeight
    Ancestors <- MCAncestors
    Txs <- MCTxs
    Inputs = {"t"}
    NoUndo = NoUndo
    KeepBlocks = 4
    MaxStops = 2
    MaxErrors = 1
    MaxDisconnects = 2
SPECIFICATION Spec
INVARIANTS
    FlagsSound
    CoinsSurvive
