SPECIFICATION FairSpec
CONSTANTS
    Evals = {e1, e2}
    Systests = {e2}
    Ks = {1, 2}
    Results <- MCResults
    Baselines <- MCBaselines
    Platforms = {"docker", "k8s"}
    MaxSandboxes = 2
    MaxFaults = 1
INVARIANTS
    TypeOK
    KeepsSandbox
    LeaksExplained
PROPERTIES
    
    SandboxesReclaimed
CHECK_DEADLOCK FALSE
