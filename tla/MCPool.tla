------------------------------- MODULE MCPool -------------------------------
(***************************************************************************)
(* Pools small enough for TLC.  Three callers compete for a pool of one    *)
(* that is kept (SQLite's) and for pools of two and three, so that callers *)
(* queue, time out and are overtaken by evictions, and the loop of         *)
(* #dispense has several turns.  There is one connection more than the     *)
(* largest pool holds, for one whose destruction is still under way.       *)
(***************************************************************************)
EXTENDS PoolProperties, TLC

Option(min, max, test, timeout, evict) ==
    [min |-> min, max |-> max, numTests |-> 2, testOnBorrow |-> test,
     acquireTimeout |-> timeout, eviction |-> evict]

MCOptions ==
    {Option(1, 1, FALSE, timeout, FALSE) : timeout \in BOOLEAN}
    \cup {Option(0, 2, test, timeout, TRUE) : test, timeout \in BOOLEAN}
    \cup {Option(1, 3, TRUE, FALSE, TRUE)}

\* For liveness and without acquire timeouts.
LiveOptions ==
    {Option(1, 1, test, FALSE, TRUE) : test \in BOOLEAN}
    \cup {Option(0, 2, test, FALSE, FALSE) : test \in BOOLEAN}

\* HANA's and PostgreSQL's pool time requests out and validate, with one
\* connection at most as in the tests 'pool max = 1'.
TimeoutOptions == {Option(0, 1, test, TRUE, FALSE) : test \in BOOLEAN}

Symmetric == Permutations(Requests) \cup Permutations(Resources)
=============================================================================
