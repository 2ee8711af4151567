CONSTANTS
    Settings <- Exit
    MaxImages = 2
    Threshold = 1
    MaxDup = 1
    QueueSize = 20
SPECIFICATION FairSpec
PROPERTIES ShutdownCompletes AbortCompletes SeekCompletes BufferingEnds
CHECK_DEADLOCK FALSE
