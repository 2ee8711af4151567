CONSTANTS
    Settings <- SeekOnceAudio
    MaxImages = 2
    Threshold = 1
    MaxDup = 1
    QueueSize = 20
SPECIFICATION Spec
INVARIANT AllConsumed
CHECK_DEADLOCK FALSE
