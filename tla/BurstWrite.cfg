CONSTANTS
    NWords = 16
    Burst = 8
    MaxRead = 1023
SPECIFICATION FairSpec
INVARIANTS
    TypeOK BufferHolds WholeBursts
PROPERTIES
    ImplementsCopy RequestEnds
CHECK_DEADLOCK TRUE
