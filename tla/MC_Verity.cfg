SPECIFICATION Spec
CONSTANTS
    None = None
    Torn = Torn
    Absent = Absent
    BlockSize = 2
    Order <- MCOrder
    Link <- MCLink
    LinkText <- MCLinkText
    Contents <- MCContents
    Readers = {r}
    Initial <- MCInitial
    MaxRead = 3
    MaxCalls = 2
    MaxMods = 2
    MaxBuilds = 2
INVARIANTS
    TypeOK
    TreeExact
    Authentic
    NoFalseAlarm
    RangeExact
    ScanExact
    VerifyExact
CHECK_DEADLOCK FALSE
