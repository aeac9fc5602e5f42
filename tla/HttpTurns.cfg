SPECIFICATION FairSpec
CONSTANTS
    Conversations <- Turns
    MAX_HTTP_HEADER_BYTES = 3
    MAX_HTTP_MESSAGE_BYTES = 6
    MAX_PENDING_REQUESTS = 2
INVARIANTS
    TypeOK
    FramingExact
    AllDecoded
    ChunkPrefixValid
PROPERTY PollEnds
CHECK_DEADLOCK FALSE
