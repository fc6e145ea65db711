SPECIFICATION FairSpec
CONSTANTS
    s1 = s1
    s2 = s2
    c1 = c1
    c2 = c2
    t1 = t1
    NoMsg = NoMsg
    Submissions = {s1}
    MockSubs = {}
    SystestSubs = {}
    Users = {s1}
    UserOf <- OwnUser
    Loops <- OnePerKind
    Processes = {c1, t1}
    ProcOf <- ProcOfPair
    QueueOf <- QueueOfPair
    Admins = {a1}
    MaxRetries = 1
    MaxFaults = 0
    MaxCrashes = 1
    MaxTriggers = 0
PROPERTIES
    PendingRedelivered
CHECK_DEADLOCK FALSE
