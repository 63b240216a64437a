SPECIFICATION BridgeSpec
CONSTANTS
    Binaries = {"entered"}
    DefaultBinary = "found"
    Arguments <- MCArguments
    MaxOperations = 3
    MaxTimers = 2
INVARIANTS
    OnlyCancelledAreKilled
CHECK_DEADLOCK FALSE
