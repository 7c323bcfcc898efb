CONSTANTS
    Channels = 8
    Bits = 8
    Bytes = 32
    Halves = {12}
    Step = 4
    TAP_NUM = 63
    POS_MAX = 128
    Count64 = 256
    Count32 = 128
    Rates <- ModeRates
    MayStop = FALSE
    HoldClocks = 0
SPECIFICATION Spec
PROPERTIES
    NoRequestMissed
CHECK_DEADLOCK TRUE
