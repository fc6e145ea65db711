SPECIFICATION FairSpec
CONSTANTS
    s1 = s1
    s2 = s2
    c1 = c1
    c2 = c2
    t1 = t1
    NoMsg = NoMsg
    Submissions = {s1}
    MockSubs = {}
    SystestSubs = {}
    Users = {s1}
    UserOf <- OwnUser
    Loops <- TwoCompilers
    Processes = {c1, c2, t1}
    ProcOf <- ProcOfPair
    QueueOf <- QueueOfPair
    Admins = {a1}
    MaxRetries = 1
    MaxFaults = 0
    MaxCrashes = 2
    MaxTriggers = 1
INVARIANTS
    NoLossWithoutFault
    SingleWriter
PROPERTIES
    RefinesLifecycle
    JudgedOrOrphaned
CHECK_DEADLOCK FALSE
