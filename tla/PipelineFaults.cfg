SPECIFICATION Spec
CONSTANTS
    s1 = s1
    s2 = s2
    c1 = c1
    c2 = c2
    t1 = t1
    NoMsg = NoMsg
    Submissions = {s1, s2}
    MockSubs = {s2}
    SystestSubs = {s2}
    Users = {s1, s2}
    UserOf <- OwnUser
    Loops <- OnePerKind
    Processes = {c1, t1}
    ProcOf <- ProcOfPair
    QueueOf <- QueueOfPair
    Admins = {a1}
    MaxRetries = 1
    MaxFaults = 1
    MaxCrashes = 0
    MaxTriggers = 1
INVARIANTS
    TypeOK
    LossBoundedByFaults
CHECK_DEADLOCK FALSE
