SPECIFICATION BridgeSpec
CONSTANTS
    Binaries = {"entered"}
    DefaultBinary = "found"
    Arguments <- MCArguments
    MaxOperations = 3
    MaxTimers = 2
INVARIANTS
    BridgeTypeOK
    ReportedTruly
PROPERTIES
    CancelledEnds
CHECK_DEADLOCK FALSE
