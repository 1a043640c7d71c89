CONSTANTS
    Requests = {r1, r2}
    Resources = {x1, x2, x3}
    None = None
    PoolOptions <- LiveOptions
SPECIFICATION FairSpec
PROPERTIES
    EveryAcquireSettles
    ClearTerminates
