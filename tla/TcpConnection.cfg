SPECIFICATION Spec
CONSTANTS
    SeqSpace = 16
    MAX_OOO_BYTES = 2
    MIN_COMPACT_BYTES = 0
    Connections <- WholeOrLossy
INVARIANTS
    StateSound
    EndsClosed
    DataBeforeFinIsRead
CHECK_DEADLOCK FALSE
