SPECIFICATION Spec
CONSTANTS
    alice = alice
    carol = carol
    t1 = t1
    t2 = t2
    a1 = a1
    a2 = a2
    b1 = b1
    b2 = b2
    SenderOf <- TwoSenders
    MAX_CHUNK_BYTES = 2
    MAX_TRANSFER_BYTES = 2
    MAX_CHUNKS = 2
    WINDOW = 2
    Transfers = {t1, t2}
    Envelopes <- MCEnvelopes
    ChunkSizes = {0, 1, 2}
    Copies = {0, 1}
    MAX_PENDING_WIRE_MESSAGES = 3
    Noise <- MCNoise
    Requests <- AnyRequest
    ExpectedSenders <- AnySender
INVARIANTS
    TypeOK
    ReceivedWasPacked
    HonestNeverRejected
CHECK_DEADLOCK FALSE
