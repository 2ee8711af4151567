CONSTANTS
    Size = 3
    Items <- MCItems
    Free = Free
    Blank = Blank
    PacketSlots = 3
    VideoBuffers = 3
    FileLen = 3
    MaxSeeks = 1
    MaxHeld = 1
SPECIFICATION FairSpec
INVARIANTS SlotsAreSafe NoTornTexture InOrder
PROPERTIES RingRespected IsFifo Flows
CHECK_DEADLOCK FALSE
