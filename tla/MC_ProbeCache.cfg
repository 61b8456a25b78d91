CONSTANTS
    a = a
    x = x
    d1 = d1
    t1 = t1
    t2 = t2
    Empty = Empty
    Absent = Absent
    Dir = Dir
    Error = Error
    None = None
    Threads <- MCThreads
    Names <- MCNames
    Paths <- MCPaths
    Data <- MCData
    Stacks <- MCStacks
SPECIFICATION Spec
INVARIANTS PresentFound RightUnlessMissed
PROPERTY Returns
