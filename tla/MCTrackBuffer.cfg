CONSTANTS
    SAMPLE = 3
    TRACK_BLOCK_SAMPLES = 5
    TRACK_MAX_BLOCKS = 3
    TRACK_PPM_RES = 2
SPECIFICATION BufferSpec
INVARIANTS
    BufferTypeOK
    PlaysTheStream
    MetersAreSet
    ResidueCarriesOver
PROPERTIES
    PublishedIsFinal
CHECK_DEADLOCK FALSE
