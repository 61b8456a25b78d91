CONSTANTS
    f = f
    g = g
    d1 = d1
    u1 = u1
    u2 = u2
    c1 = c1
    c2 = c2
    Empty = Empty
    Absent = Absent
    Dir = Dir
    None = None
    First = u1
    MaxOps = 2
    Names <- MCNames
    Paths <- MCPaths
    Data <- MCData
    Stacks <- MCStacks
    Uppers <- MCUppers
    Clients <- MCClients
    Access <- MCAccess
    Lifecycle <- MCLifecycle
SPECIFICATION Spec
INVARIANT LookupCurrent
CHECK_DEADLOCK FALSE
