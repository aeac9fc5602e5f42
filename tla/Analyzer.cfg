SPECIFICATION Spec
CONSTANTS
    GROUPS = 3
    DIGITS = 2
    OCTETS = 2
    UINT_MAX = 1023
    US_PER_SEC = 10
    NS_PER_US = 5
    DEFAULT_IDLE_TIMEOUT_US = 300
    Starts <- MCStarts
    Frames <- MCFrames
INVARIANTS
    CaptureExact
    OptionsAsAsked
    PhasesBalanced
    SectionsAgree
    ExitTells
PROPERTY Exits
CHECK_DEADLOCK FALSE
