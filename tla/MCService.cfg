CONSTANTS
    Definitions <- MCDefinitions
    TechnicalAlias <- MCTechnicalAlias
    Reads <- MCReads
    Counted <- MCCounted
    Changes <- MCChanges
    Entries <- MCEntries
    Tables <- MCTables
    MaxWrites = 2
SPECIFICATION Spec
INVARIANTS
    TypeOK
    SameAnswer
    CountTellsTrue
    StampsTellTrue
PROPERTIES
    TouchesMeant
