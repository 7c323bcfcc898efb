CONSTANTS
    Created <- ModeCreated
    Queues <- ModeQueues
    uxLength <- ModeLength
    Program <- ModeProgram
    TickWrap = 6
    OverflowWrap = 2
    StepsPerTick = 15
SPECIFICATION Spec
INVARIANTS
    TypeOK NoLostWakeup SleepsAsLongAsAsked
PROPERTIES
    ImplementsQueues LoopsGoOn
CHECK_DEADLOCK TRUE
