SPECIFICATION FairSpec
CONSTANTS
    Workers = {w1}
    None = None
    N = 2
    IdxModulus = 2
    Threshold = 2
    health_check_enabled = TRUE
    Faults = {"broken"}
    MaxCount = 2
PROPERTIES BrokenAvoided HealthyServes HealthyUsed
