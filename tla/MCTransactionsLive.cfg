CONSTANTS
    Transactions = {t1, t2}
    Tenants = {n1}
    Pools = {p1, p2}
    Slots = {s1}
    None = None
    Deployments <- MCDeployments
SPECIFICATION FairSpec
CHECK_DEADLOCK FALSE
PROPERTIES
    EveryTransactionEnds
