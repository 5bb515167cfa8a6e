SPECIFICATION AnySpec
CONSTANTS
    Parts = {"db"}
    d1 = d1
    d2 = d2
    NS = 2
    Checked = {2}
    CheckType <- Types
    Expects <- Expect
    Rise = 1
    Fall = 2
    Dispatchers <- TwoDispatchers
    NL = 1
    MaxConns <- Conns
    Algos <- AllAlgos
    IdxModulus = 2
    c1 = c1
    c2 = c2
    c3 = c3
    Clients <- ThreeClients
    Packets <- SomePackets
    Role <- Roles
    max_connections = 3
    max_sessions = 2
    MaxTime = 1
INVARIANTS TransactionServed
