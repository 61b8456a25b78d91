SPECIFICATION FairSpec
CONSTANTS
    a = a
    b = b
    x = x
    y = y
    d1 = d1
    Empty = Empty
    Absent = Absent
    Dir = Dir
    Names <- MCNames
    Paths <- MCPaths
    Data <- MCData
    Stacks <- MCStacks
INVARIANTS
    TypeOK
    UpperIsTree
    UpperVisible
    Frame
    Result
    MoveKeepsData
    OldOrNew
    ListingMatches
PROPERTY Terminates
