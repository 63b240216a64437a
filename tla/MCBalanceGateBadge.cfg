SPECIFICATION Spec
CONSTANTS
    MAX_CHALLENGE_TTL_MS = 1
    MAX_CLOCK_SKEW_MS = 1
    MAX_PROOF_AGE_MS = 1
    U64_MAX = 3
    ZeroDigest = ZeroDigest
    InvalidKeys = {}
    IMAGE_ID = image
    PROGRAM_ID = program
    MIN_ON_CHAIN_PROOF_AGE_MS = 1
    MAX_ON_CHAIN_PROOF_AGE_MS = 2
    MAX_ON_CHAIN_CLOCK_SKEW_MS = 1
    InitArguments <- MCInitArguments
    Instances <- Retries
    owner = owner
    token = token
    verifierId = verifierId
    root = root
    nonce = nonce
    Racers = {c1}
    Horizon = 3
    MaxAge = 1
PROPERTIES
    LocalBadgeIsCommitted
CHECK_DEADLOCK FALSE
