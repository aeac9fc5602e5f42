SPECIFICATION Spec
CONSTANTS
    Frames <- AllFrames
    Noise <- AnyFields
    Configs <- AllConfigs
    MaxFrames = 2
INVARIANTS
    TypeOK
    ReadsInBounds
    SoundDecoded
    CorruptRefused
    CarriesKey
CHECK_DEADLOCK FALSE
