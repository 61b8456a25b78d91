SPECIFICATION Spec
CONSTANTS
    d = d
    e = e
    x = x
    Names <- MCNames
    Paths <- MCPaths
    DirPaths <- MCDirs
    Byte <- MCByte
    Zero = 0
    Data <- MCData
    Empty <- MCEmpty
    Absent = Absent
    Dir = Dir
    None = None
    MaxLen = 1
    MaxIno = 4
    MaxFh = 2
    Verified <- SecondVerified
    DirRenames = TRUE
    Stacks <- MCStacks
CONSTRAINT Promising
INVARIANTS
    RightFile
    TablesAgree
    
    Converges
PROPERTY OpenIsCurrent
CHECK_DEADLOCK FALSE
