SPECIFICATION Spec
CONSTANTS
    MaxUri = 6
    WordBytes = 2
    ByteBits = 2
    MaxPatterns = 2
    PoolThreads = {p1, p2, p3, p4}
    MaxSize = 2
    HashMax = 3
    Buckets = 2
    HashBackends = {b1, b2, b3}
    VNodes = 1
    MaxBytes = 5
    ChunkSize = 2
    SocketRoom = 2
    HttpLines = 4
    PoolSize = 9
    BlockSizes = {2, 3}
    Recorders = {t1, t2}
    Durations = {1, 2, 3}
    RingSize = 3
    MaxRecords = 4
    PerSecond = 4
    IntMax = 7
    Rates = {0, 1, 2, 5}
    MaxClock = 17
    MaxWindow = 8
    RouteIds = {"r1", "r2", "r3"}
    RouteName <- Names
    Priority <- Priorities
    RouteMatches <- Matches
    RequestKinds = {"x", "y"}
    TargetWeights = {0, 1}
    MaxTargets = 2
    Thresholds = {0}
INVARIANTS
    AclExact NoLostWakeup Consistent StreamKept ParsedAlike Partitioned
    SummaryCovers WindowLatest RateBound ServedRight
CHECK_DEADLOCK FALSE
