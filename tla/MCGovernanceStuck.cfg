SPECIFICATION Spec
CONSTANTS
    MAX_CHALLENGE_TTL_MS = 1
    MAX_CLOCK_SKEW_MS = 1
    MAX_PROOF_AGE_MS = 3
    U64_MAX = 5
    ZeroDigest = ZeroDigest
    InvalidKeys = {}
    IMAGE_ID = image
    Procs = {p1, p2}
    NoProc = NoProc
    Proposals = {treasury}
    GateOf <- MCGateOf
    Arguments <- OneProposal
    Root = root
    Proofs <- MCProofs
    TTL = 1
    Choices = {yes}
    NoJob = NoJob
    NoState = NoState
    MAX_PENDING_CHALLENGES = 1
    MaxClock = 2
    owner = owner
    token = token
    Presenters = {k1}
    treasury = treasury
    other = other
PROPERTIES
    ExpiredChallengesDoNotBlock
CHECK_DEADLOCK FALSE
