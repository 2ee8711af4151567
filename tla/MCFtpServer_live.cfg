CONSTANTS
    NumClients = 1
    ServerQueueSize = 1
    IoQueueSize = 1
    BufferSize = 2
    FileSizes <- Exact
    Commands <- AllCommands
    FilesFail = FALSE
    Exits = TRUE
    MaxUnits = 2
    MaxSessions = 1
    MaxTransfers = 2
SPECIFICATION FairSpec
INVARIANT RoomToReceive
PROPERTIES Answered ExitCompletes
CHECK_DEADLOCK FALSE
