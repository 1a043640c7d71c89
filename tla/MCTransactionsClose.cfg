CONSTANTS
    Transactions = {t1, t2}
    Tenants = {n1}
    Pools = {p1, p2}
    Slots = {s1}
    None = None
    Deployments <- ClosingDeployments
SPECIFICATION Spec
CHECK_DEADLOCK FALSE
INVARIANTS
    CommittedIsDurable
