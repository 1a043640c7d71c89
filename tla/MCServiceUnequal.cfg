CONSTANTS
    Definitions <- MCDefinitions
    TechnicalAlias <- MCTechnicalAlias
    Reads <- MCUnequalReads
    Counted <- MCUncounted
    Changes <- MCChanges
    Entries <- MCEntries
    Tables <- MCTables
    MaxWrites = 0
SPECIFICATION Spec
INVARIANTS
    UnequalOrNull
