SPECIFICATION Spec
CONSTANTS
    SeqSpace = 16
    MAX_OOO_BYTES = 2
    MIN_COMPACT_BYTES = 0
    idle_timeout_us = 1
    active_timeout_us = 2
    TimeSpace = 16
    Packets <- Mixed
    Filters <- AnyFilter
    MaxPackets = 4
    MaxTime = 3
    Backwards = FALSE
INVARIANTS
    TypeOK
    CountsConserved
    RetiredOnTime
    FilterDirectional
    AppsOfActiveFlow
CHECK_DEADLOCK FALSE
