SPECIFICATION Spec
CONSTANTS
    c1 = c1
    c2 = c2
    CacheThreads <- TwoThreads
    Jobs <- SomeJobs
    Keys = {"a", "b"}
    Sizes = {1, 2, 3}
    Entries = {1, 2, 3}
    max_size = 2
    max_object_size = 3
    SizeModulus = 6
    NW = 2
    MaxSignals = 2
    MaxBackends = 3
INVARIANTS
    AloneExact ListInChain FailedStartUndone OneSignalClean
PROPERTIES InsertReturns SignalEnds
CHECK_DEADLOCK FALSE
