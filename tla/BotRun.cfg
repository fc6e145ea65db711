SPECIFICATION FairSpec
CONSTANTS
    OrdersToSend = 3
    MaxWire = 2
INVARIANTS
    TypeOK
    ExactWhenUndisturbed
    NothingLost
    SentOnce
PROPERTIES
    BotEnds
CHECK_DEADLOCK FALSE
