CONSTANTS
    Frames <- MCFrames
    Noise <- MCNoise
    MaxNoise = 3
    Pipelined = FALSE
SPECIFICATION FairSpec
PROPERTIES
    ImplementsExchange FramesAnswered ExecutesTheFrame
CHECK_DEADLOCK TRUE
