CONSTANTS
    Settings <- SeekOnceVideo
    MaxImages = 2
    Threshold = 1
    MaxDup = 1
    QueueSize = 20
SPECIFICATION Spec
INVARIANT DecoderFlushed
CHECK_DEADLOCK FALSE
