SPECIFICATION Spec
CONSTANTS
    Conversations <- Pipelined
    MAX_HTTP_HEADER_BYTES = 3
    MAX_HTTP_MESSAGE_BYTES = 6
    MAX_PENDING_REQUESTS = 2
INVARIANT AllDecoded
CHECK_DEADLOCK FALSE
