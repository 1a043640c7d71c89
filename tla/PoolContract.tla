---------------------------- MODULE PoolContract ----------------------------
(***************************************************************************)
(* What a connection pool promises the code that borrows from it,          *)
(* whichever way it is implemented: db-service takes its pool either from  *)
(* lib/common/generic-pool.js or from the npm module generic-pool, and     *)
(* DatabaseService relies on no more than this.                            *)
(*                                                                         *)
(*   - a connection is lent to one borrower at a time;                     *)
(*   - at most `limit` connections are lent at a time;                     *)
(*   - a request is granted at most once, and not after it was refused;    *)
(*   - nothing is granted once the pool is closed.                         *)
(***************************************************************************)
EXTENDS Naturals, FiniteSets

CONSTANTS Requests,   \* calls of acquire()
          Resources,  \* connections
          None        \* no connection

VARIABLES waiting,    \* the requests neither granted nor refused
          lent,       \* lent[r]: the connection request r was granted and keeps
          limit,      \* options.max
          closed      \* drain() was called

contractVars == <<waiting, lent, limit, closed>>

LentOut == {lent[r] : r \in Requests} \ {None}

ContractTypeOK ==
    /\ waiting \subseteq Requests
    /\ lent \in [Requests -> Resources \cup {None}]
    /\ limit \in Nat
    /\ closed \in BOOLEAN

ContractInit ==
    /\ waiting = {}
    /\ lent = [r \in Requests |-> None]
    /\ limit \in Nat
    /\ closed = FALSE

Ask(r) ==
    /\ ~closed
    /\ r \notin waiting
    /\ lent[r] = None
    /\ waiting' = waiting \cup {r}
    /\ UNCHANGED <<lent, limit, closed>>

\* A timeout, or a connection that could not be established.
Refuse(r) ==
    /\ r \in waiting
    /\ waiting' = waiting \ {r}
    /\ UNCHANGED <<lent, limit, closed>>

Grant(r, x) ==
    /\ ~closed
    /\ r \in waiting
    /\ x \notin LentOut
    /\ Cardinality(LentOut) < limit
    /\ waiting' = waiting \ {r}
    /\ lent' = [lent EXCEPT ![r] = x]
    /\ UNCHANGED <<limit, closed>>

\* release() and destroy(), which the borrower must not tell apart.
Return(r) ==
    /\ lent[r] # None
    /\ lent' = [lent EXCEPT ![r] = None]
    /\ UNCHANGED <<waiting, limit, closed>>

Close ==
    /\ ~closed
    /\ closed' = TRUE
    /\ waiting' = {}
    /\ UNCHANGED <<lent, limit>>

ContractNext ==
    \/ \E r \in Requests : Ask(r) \/ Refuse(r) \/ Return(r)
    \/ \E r \in Requests, x \in Resources : Grant(r, x)
    \/ Close

ContractSpec == ContractInit /\ [][ContractNext]_contractVars
=============================================================================
