SPECIFICATION Spec
CONSTANTS
    MAX_CHALLENGE_TTL_MS = 2
    MAX_CLOCK_SKEW_MS = 1
    MAX_PROOF_AGE_MS = 1
    U64_MAX = 4
    ZeroDigest = ZeroDigest
    InvalidKeys = {badKey}
    IMAGE_ID = image
    Gate <- MCGate
    OtherGate <- MCOtherGate
    Accounts <- MCAccounts
    InitialLeaves <- MCInitialLeaves
    NewAccounts <- MCNewAccounts
    Keys = {k1}
    TTLs = {0, 2, 3}
    HolderOffsets = {0, 1}
    DefaultAccount <- MCAnchor
    DEPTH = 2
    EmptyLeaf = EmptyLeaf
    MaxClock = 3
    MaxProofs = 2
    MaxChallenges = 2
    owner = owner
    tokenA = tokenA
    tokenB = tokenB
    verifierId = verifierId
INVARIANTS
    TypeOK
    AcceptedBalanceWasCommitted
    AcceptedWasPresented
    HonestPresentationAllowed
CHECK_DEADLOCK FALSE
