CONSTANTS
    Requests = {r1, r2}
    Resources = {x1, x2}
    None = None
    PoolOptions <- TimeoutOptions
SPECIFICATION Spec
INVARIANTS
    NeverStuck
