SPECIFICATION FairSpec
CONSTANTS
    w1 = w1
    w2 = w2
    w3 = w3
    j1 = j1
    j2 = j2
    j3 = j3
    j4 = j4
    None = None
    Workers <- MCWorkers
    Jobs <- MCJobs
    Stuck <- MCStuck
    Panicky <- MCPanicky
    Unwind = TRUE
INVARIANTS
    Accounted
    DropDrains
PROPERTIES
    NoStall
    DropReturns
CHECK_DEADLOCK FALSE
