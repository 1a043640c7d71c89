CONSTANTS
    Requests = {r1, r2, r3}
    Resources = {x1, x2, x3, x4}
    None = None
    PoolOptions <- MCOptions
SPECIFICATION Spec
SYMMETRY Symmetric
INVARIANTS
    TypeOK
    Exclusive
    NoForeignResource
    WithinLimit
    Conserved
    DestroyedIsGone
    NoLostWakeup
    PendingIsQueued
    ClearedForGood
PROPERTIES
    NoOvertaking
    ImplementsContract
