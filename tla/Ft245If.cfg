CONSTANTS
    MaxWords = 2
    MaxReply = 2
    MaxRx = 2
    FifoDepth = 1
    Overlap = {"rx/fifo", "tx/fifo", "rx/tx"}
SPECIFICATION FairSpec
INVARIANTS
    TypeOK ReceivedInOrder SentInOrder FifoNeverRepeats
PROPERTIES
    EverythingSent
CHECK_DEADLOCK TRUE
