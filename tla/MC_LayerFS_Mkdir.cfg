SPECIFICATION Spec
CONSTANTS
    a = a
    b = b
    x = x
    y = y
    d1 = d1
    Empty = Empty
    Absent = Absent
    Dir = Dir
    Names <- MCNames
    Paths <- MCPaths
    Data <- MCData
    Stacks <- OneLower
INVARIANT MadeDirIsEmpty
