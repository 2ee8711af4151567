CONSTANTS
    NumClients = 2
    ServerQueueSize = 1
    IoQueueSize = 1
    BufferSize = 1
    FileSizes <- Exact
    Commands <- DataCommands
    FilesFail = TRUE
    Exits = FALSE
    MaxUnits = 2
    MaxSessions = 2
    MaxTransfers = 2
SPECIFICATION Spec
INVARIANTS RetrievedInOrder AnswerOnItsWay
PROPERTIES TransferComplete NothingLeft
CHECK_DEADLOCK FALSE
