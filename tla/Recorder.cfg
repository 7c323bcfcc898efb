CONSTANTS
    Channels = 2
    Ring = 3
    Wrap = 9
    QueueLength = 4
    CalBlocks = 2
    MaxTry = 2
    Counts = {0, 1, 5}
    Patient = TRUE
SPECIFICATION FairSpec
INVARIANTS
    TypeOK NoStaleBlock OneUserOfTheCore QuietBetweenCommands NothingLeftRunning
PROPERTIES
    HonestAnswers ImplementsRecording CommandsAnswered
CHECK_DEADLOCK TRUE
