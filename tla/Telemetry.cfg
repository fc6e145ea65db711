SPECIFICATION FairSpec
CONSTANTS
    w1 = w1
    o1 = o1
    o2 = o2
    Workers = {w1}
    Orders = {o1, o2}
    WorkerOf <- OneWorker
    Threshold = 2
    MaxSeq = 3
INVARIANTS
    TypeOK
    FetchedCounted
PROPERTIES
    DrainsInOrder
    FinishesUnlessFlooded
CHECK_DEADLOCK FALSE
