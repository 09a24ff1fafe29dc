SPECIFICATION RulesSpec
CONSTANTS
    LimbBits = 3
    WIDTH = 4
    ByteBits = 2
    PowLimit = 120
    TargetSpacing = 4
    TargetTimespan = 8
    NoRetargeting = FALSE
    AllowMinDifficulty = FALSE
    MedianTimeSpan = 3
    MaxFutureBlockTime = 24
    Checkpoints = {2}
    DeploymentHeight <- MCDeploymentHeight
    Deltas = {0, 1, 9, 33}
    MaxHeight = 5
    MaxNow = 48
    Operands <- MCOperands
    Trees <- MCTrees
    Deployments <- MCDeployments
    Period = 2
    Threshold = 2
    MedianSpan = 3
    TxInfo <- MCTxInfo
    Contexts <- MCContexts
    MaxBlockWeight = 60
    MaxSigOpsCost = 40
    MaxMoney = 10
    WitnessScaleFactor = 4
    SignetBlocks = FALSE
    SnapFiles <- MCSnapFiles
    TipHeight = 3
    BaseHeight = 2
    BlocksToKeep = 1
    SnapCrashes = 2
    LMaxTip = 3
    LPoolFile = 2
    LQueue = 1
INVARIANTS
    
    RestartSound
    AssumedNeverTrusted
    NothingOutlived
PROPERTIES
    ProcessEnds
    PruneBehindBoth
CHECK_DEADLOCK FALSE
