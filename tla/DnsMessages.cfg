SPECIFICATION Spec
CONSTANTS
    Flows <- Traffic
    HEADER_LEN = 5
    QUESTION_HEADER_LEN = 1
    RESOURCE_HEADER_LEN = 2
    MaxDnsCompressionJumps = 2
    MaxDnsNameOctets = 6
    IPV4_LEN = 1
    IPV6_LEN = 2
INVARIANTS
    TypeOK
    ReadsInBounds
    NameExact
    FramingExact
    SoundDecoded
    TableAgrees
CHECK_DEADLOCK FALSE
