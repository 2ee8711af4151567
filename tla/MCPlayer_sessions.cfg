CONSTANTS
    Settings <- Sessions
    MaxImages = 2
    Threshold = 1
    MaxDup = 1
    QueueSize = 20
SPECIFICATION Spec
INVARIANTS WorkersAnswer IntentKept SessionsDontMix OneSeek
CHECK_DEADLOCK FALSE
