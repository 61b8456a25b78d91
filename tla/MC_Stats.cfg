CONSTANTS
    w1 = w1
    w2 = w2
    Threads <- MCThreads
    Op <- MCOp
    Rc <- MCRc
    LatBuckets <- MCLatBuckets
    Latency <- MCLatency
    Cap = 2
    MaxOps = 3
    MaxTime = 1
    None = None
SYMMETRY Symmetry
SPECIFICATION Spec
INVARIANTS NewestFirst Bracketed
PROPERTY RingIsLog
CHECK_DEADLOCK FALSE
