CONSTANTS
    Channels = 2
    Bits = 2
    Bytes = 8
    Halves = {6, 7}
    Step = 2
    TAP_NUM = 3
    POS_MAX = 8
    Count64 = 16
    Count32 = 8
    Rates <- ModeRates
    MayStop = TRUE
    HoldClocks = 12
SPECIFICATION Spec
INVARIANTS
    TypeOK SamplesIntact
PROPERTIES
    NoRequestMissed ImplementsStream KeepsDelivering
CHECK_DEADLOCK TRUE
