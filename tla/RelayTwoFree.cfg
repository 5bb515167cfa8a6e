SPECIFICATION Spec
CONSTANTS
    w1 = w1
    w2 = w2
    c1 = c1
    c2 = c2
    b1 = b1
    Workers <- TwoWorkers
    Conns <- OneConn
    Backends <- OneBackend
    NoBackend = NoBackend
    QueueSize = 3
    MaxEvents = 2
INVARIANT
    NoUseAfterFree
CHECK_DEADLOCK FALSE
