SPECIFICATION Spec
CONSTANTS
    c1 = c1
    c2 = c2
    c3 = c3
    NULL = NULL
    Conns <- MCConns
    CLEANUP_QUEUE_SIZE = 4
PROPERTY
    ImplementsFifo
