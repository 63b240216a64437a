SPECIFICATION Spec
CONSTANTS
    MAX_CHALLENGE_TTL_MS = 1
    MAX_CLOCK_SKEW_MS = 1
    MAX_PROOF_AGE_MS = 3
    U64_MAX = 5
    ZeroDigest = ZeroDigest
    InvalidKeys = {}
    IMAGE_ID = image
    Procs = {p1, p2}
    NoProc = NoProc
    Gate <- MCGate
    Root = root
    Proofs <- MCProofs
    TTL = 1
    NoJob = NoJob
    MaxClock = 1
    Nonces = {n1, n2}
    owner = owner
    token = token
    verifierId = verifierId
    Presenters = {k1}
INVARIANTS
    TypeOK
    AllowAtMostOnce
    CacheNeverTorn
    Inv
PROPERTIES
    ConsumedStaysConsumed
    ImplementsSingleUse
    EveryInvocationEnds
CHECK_DEADLOCK FALSE
