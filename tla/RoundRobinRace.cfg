SPECIFICATION Spec
CONSTANTS
    w1 = w1
    w2 = w2
    None = None
    Workers <- TwoWorkers
    N = 2
    IdxModulus = 4
INVARIANT FindsUp
