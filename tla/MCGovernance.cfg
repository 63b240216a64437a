SPECIFICATION Spec
CONSTANTS
    MAX_CHALLENGE_TTL_MS = 1
    MAX_CLOCK_SKEW_MS = 1
    MAX_PROOF_AGE_MS = 3
    U64_MAX = 5
    ZeroDigest = ZeroDigest
    InvalidKeys = {}
    IMAGE_ID = image
    Procs = {p1, p2, p3, p4}
    NoProc = NoProc
    Proposals = {treasury, other}
    GateOf <- MCGateOf
    Arguments <- MixedUp
    Root = root
    Proofs <- MCProofs
    TTL = 1
    Choices = {yes, no}
    NoJob = NoJob
    NoState = NoState
    MAX_PENDING_CHALLENGES = 2
    MaxClock = 2
    owner = owner
    token = token
    Presenters = {k1, k2}
    treasury = treasury
    other = other
INVARIANTS
    TypeOK
    BooksBalance
    AcceptedVotesCount
    HandedOutIsKnown
    VotesMatchProposal
PROPERTIES
    VotesAreFinal
    NoVoteAfterExpiry
    ImplementsSingleUse
SYMMETRY Symmetry
CHECK_DEADLOCK FALSE
