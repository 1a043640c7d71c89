CONSTANTS
    Services <- MCServices
    Transactions = {t1, t2, t3}
    Connections = {c1, c2}
    MaxRetries = 2
    Deadline = 1
    None = None
    t1 = t1
    t2 = t2
    t3 = t3
    c1 = c1
    c2 = c2
    Sizes <- MCSizes
SPECIFICATION FairSpec
CHECK_DEADLOCK FALSE
INVARIANTS
    OwnVariables
    LentIsHeld
PROPERTIES
    BeginSettles
