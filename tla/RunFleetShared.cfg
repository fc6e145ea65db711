SPECIFICATION Spec
CONSTANTS
    b1 = b1
    b2 = b2
    Bots = {b1, b2}
    OrdersToSend = 1
    Cap = 1
    MaxSeq = 2
    SharedFillIds = TRUE
INVARIANTS
    BothFillsValidated
CHECK_DEADLOCK FALSE
