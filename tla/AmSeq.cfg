CONSTANTS
    Channels = 3
    Half = 4
    RingHalves = 4
    MaxSample = 41
    MaxLag = 3
SPECIFICATION FairSpec
INVARIANTS
    TypeOK HalvesInPlace
PROPERTIES
    TriggerFindsWait PassEnds
CHECK_DEADLOCK TRUE
