CONSTANTS
    HeadSize = 3
    LobHeader = 2
    PrefetchSize = 12
    LobRead = 4
    Absent = Absent
    Null = Null
    Results <- MCResults
    Modes = {"raw", "one", "object"}
SPECIFICATION Spec
CHECK_DEADLOCK FALSE
INVARIANTS
    TypeOK
    RawOutput
    RowsRead
    
    ParsedRows
PROPERTIES
    PushedStays
