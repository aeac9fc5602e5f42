SPECIFICATION Spec
CONSTANTS
    SeqSpace = 16
    MAX_OOO_BYTES = 2
    MIN_COMPACT_BYTES = 0
    idle_timeout_us = 1
    active_timeout_us = 2
    TimeSpace = 16
    Packets <- Web
    Filters <- Unfiltered
    MaxPackets = 3
    MaxTime = 3
    Backwards = TRUE
INVARIANT RetiredOnTime
CHECK_DEADLOCK FALSE
