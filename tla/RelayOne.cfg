SPECIFICATION FairSpec
CONSTANTS
    w1 = w1
    w2 = w2
    c1 = c1
    c2 = c2
    b1 = b1
    Workers <- OneWorker
    Conns <- TwoConns
    Backends <- OneBackend
    NoBackend = NoBackend
    QueueSize = 3
    MaxEvents = 2
INVARIANTS
    TypeOK
    NoUseAfterFree
    ReleasedOnce
    CountsExact
    InterestKept
PROPERTY
    EventuallyFreed
CHECK_DEADLOCK FALSE
