CONSTANTS
    Settings <- OneSession
    MaxImages = 2
    Threshold = 1
    MaxDup = 1
    QueueSize = 20
SPECIFICATION Spec
INVARIANTS OneSeek CachesClearedAlone BufferingIsFresh WorkersAnswer IntentKept
PROPERTY PacketNotOverwritten
CHECK_DEADLOCK FALSE
