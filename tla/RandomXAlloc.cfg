CONSTANTS
    Keys = {k1, k2}
    NoKey = NoKey
    NoVM = NoVM
    FailPoints = {"cache", "dataset", "vm"}
SPECIFICATION RxSpec
INVARIANT HashUsesRequestedKey
