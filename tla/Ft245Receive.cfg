CONSTANTS
    MaxWords = 1
    MaxReply = 0
    MaxRx = 1
    FifoDepth = 2
    Overlap = {"rx/fifo"}
SPECIFICATION Spec
PROPERTIES
    WaitsForItsByte
CHECK_DEADLOCK TRUE
