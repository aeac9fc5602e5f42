SPECIFICATION FairSpec
CONSTANTS
    SeqSpace = 8
    MAX_OOO_BYTES = 2
    MIN_COMPACT_BYTES = 1
    StreamLen = 4
    MaxSegment = 2
    Reach = 3
    SynPayloads = {0}
    KeepPayload = {TRUE, FALSE}
    PeerFlags <- PeerAny
    AllowReset = TRUE
INVARIANTS
    TypeOK
    OooBounded
    OooAccounting
    OooSorted
    StreamExact
    NextSeqCovered
    NoCapturedByteMissed
    FinAfterAllBytes
PROPERTIES
    ImplementsByteStream
    StreamCompletes
