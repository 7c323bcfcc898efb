CONSTANTS
    Frames <- MCCommentFrames
    Noise <- NoNoise
    MaxNoise = 0
    Pipelined = FALSE
SPECIFICATION Spec
PROPERTIES
    BlockCountIsAb
CHECK_DEADLOCK TRUE
