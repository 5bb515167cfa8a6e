SPECIFICATION Spec
CONSTANTS
    w1 = w1
    None = None
    Workers <- OneWorker
    N = 3
    Algorithms = {"LEASTCONN", "SOURCE", "STICKY", "RANDOM"}
    Weights = {1, 2}
    Times = {0, 2}
    MaxConns = 1
    Infinity = 100
INVARIANTS OnePassFindsUp Fewest NearestUp Share
