SPECIFICATION FairSpec
CONSTANTS
    Jobs = {j1}
    MaxRuns = 2
    Cancels = {c1}
    NumWorkers = 2
    NumBots <- NotDivided
    MaxFaults = 1
    None = None
INVARIANTS
    TypeOK
    NoZombieJob
    EarlyEndAborts
    RedisFollows
    ShardsPartitionBots
PROPERTIES
    ImplementsLifecycle
    RunsEnd
CHECK_DEADLOCK FALSE
