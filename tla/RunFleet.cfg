SPECIFICATION FairSpec
CONSTANTS
    b1 = b1
    b2 = b2
    Bots = {b1, b2}
    OrdersToSend = 1
    Cap = 1
    MaxSeq = 3
    SharedFillIds = FALSE
INVARIANTS
    TypeOK
    ReceivedProcessed
PROPERTIES
    ProcessedInEngineOrder
    ReturnsUnlessBarrierBroken
CHECK_DEADLOCK FALSE
