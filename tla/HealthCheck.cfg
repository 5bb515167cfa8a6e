SPECIFICATION FairSpec
CONSTANTS
    w1 = w1
    Workers <- OneWorker
    None = None
    N = 2
    Threshold = 2
    MaxCount = 3
    health_check_enabled = TRUE
    Faults = {"broken", "noname"}
INVARIANTS DownAfterThreshold DownForCause
PROPERTY StateFollowsHealth
