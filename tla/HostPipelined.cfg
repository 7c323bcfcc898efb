CONSTANTS
    Frames <- MCPipelinedFrames
    Noise <- MCStray
    MaxNoise = 1
    Pipelined = TRUE
SPECIFICATION Spec
INVARIANTS
    TypeOK ParametersInRange
CHECK_DEADLOCK TRUE
