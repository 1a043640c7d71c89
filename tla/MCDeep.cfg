CONSTANTS
    Compositions <- MCCompositions
    Managed = {"Root", "Item"}
    Keys = {"r", "1", "2", "3", "4", "x", "u2", "u3", "u4", "u5"}
    Values = {"a", "b", "c", "x"}
    Uuid <- MCUuid
    RecursionDepth = 1
    DepthLimit = 2
    Requests <- MCRequests
    Databases <- MCDatabases
    Others <- MCOthers
    None = None
SPECIFICATION Spec
CHECK_DEADLOCK FALSE
INVARIANTS
    TypeOK
    Replaced
    NoConflict
    NoOrphans
    RollbackLeavesStrays
    ModifiedTellsTrue
