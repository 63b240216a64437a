SPECIFICATION Spec
CONSTANTS
    MAX_CHALLENGE_TTL_MS = 1
    MAX_CLOCK_SKEW_MS = 1
    MAX_PROOF_AGE_MS = 3
    U64_MAX = 5
    ZeroDigest = ZeroDigest
    InvalidKeys = {}
    IMAGE_ID = image
    Groups = {g1, g2}
    Members = {m1, m2}
    Gate <- MCGate
    Root = root
    TTL = 1
    Proofs <- MCProofs
    Nonces = {n1, n2}
    Invocations = {i1, i2}
    NoJob = NoJob
    MaxClock = 2
    MaxSent = 2
    owner = owner
    token = token
    verifierId = verifierId
INVARIANTS
    TypeOK
    AdmittedAnsweredOwnChallenge
    ChallengeAdmitsOnce
    LateAnswersAdmitNobody
SYMMETRY Symmetry
CHECK_DEADLOCK FALSE
