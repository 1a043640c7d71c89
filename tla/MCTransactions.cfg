CONSTANTS
    Transactions = {t1, t2, t3}
    Tenants = {n1}
    Pools = {p1, p2}
    Slots = {s1}
    None = None
    Deployments <- MCDeployments
SPECIFICATION Spec
SYMMETRY Symmetric
CHECK_DEADLOCK FALSE
INVARIANTS
    TypeOK
    LoansAreHeld
    CleanHandover
    EndedHoldsNothing
    OutcomeIsTrue
PROPERTIES
    PoolsKeepContract
