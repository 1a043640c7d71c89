---------------------------- MODULE Transactions ----------------------------
(***************************************************************************)
(* The life of database transactions: begin, commit, rollback, acquire,    *)
(* release, destroy and disconnect of db-service/lib/common/               *)
(* DatabaseService.js, under the transaction objects of the CAP runtime,   *)
(* over pools that keep the promises of PoolContract.                      *)
(*                                                                         *)
(* An action is what runs between two awaits.  begin() and the call that   *)
(* ends a transaction are coroutines of their own: the runtime starts      *)
(* begin() with the first query and commits or rolls back when the request *)
(* does, whether or not begin() is over.  disconnect(), a lost connection  *)
(* and the driver's 'close' event may come between any two steps.          *)
(*                                                                         *)
(* Abstracted: what statements do, but for whether the transaction wrote;  *)
(* the session variables; the order in which a pool serves its waiters     *)
(* (see Pool); begin(min), which has no BEGIN.                             *)
(***************************************************************************)
EXTENDS Naturals, FiniteSets

CONSTANTS Transactions,  \* the objects srv.tx() returns; each is begun once
          Tenants,       \* the keys of db.pools
          Pools,         \* the pools that can be made: bounds disconnect()
          Slots,         \* as many as a pool lends connections (options.max)
          None,          \* no pool, no connection, no transaction
          Deployments    \* what differs between drivers, pools and clients

ASSUME TransactionsAssumption ==
    /\ IsFiniteSet(Slots)
    /\ None \notin Transactions \cup Pools \cup (Pools \X Slots)
    /\ Deployments \subseteq
          [closes    : BOOLEAN,  \* the driver tells of a closed connection: hdb
           validates : BOOLEAN,  \* testOnBorrow
           awaits    : BOOLEAN]  \* a client ends no transaction before its
                                 \* queries are answered
    \* not modelled: HANA's COMMIT when the connection goes while it waits
    /\ \A d \in Deployments : d.closes => d.awaits

Connections == Pools \X Slots

VARIABLES
    deployment,
    pools,      \* this.pools
    draining,   \* pools removed by disconnect()
    cleared,    \* pools whose clear() destroyed their connections
    loans,      \* connections lent, as their pool sees it
    broken,     \* connections that are closed or lost
    session,    \* session[x]: whose database transaction is open on x
    pool,       \* tx.pool
    dbc,        \* tx.dbc
    step,       \* how far tx.begin() is; "acquiring" awaits the pool
    ending,     \* the statement that ends tx, or what the client was told
    work        \* what became of what tx wrote

poolVars == <<pools, draining, cleared, loans>>
dbVars   == <<broken, session, work>>
txVars   == <<pool, dbc, step, ending>>
vars     == <<deployment, poolVars, dbVars, txVars>>

TypeOK ==
    /\ deployment \in Deployments
    /\ pools \in [Tenants -> Pools \cup {None}]
    /\ draining \subseteq Pools
    /\ cleared \subseteq draining
    /\ loans \subseteq Connections
    /\ broken \subseteq Connections
    /\ session \in [Connections -> Transactions \cup {None}]
    /\ pool \in [Transactions -> Pools \cup {None}]
    /\ dbc \in [Transactions -> Connections \cup {None}]
    /\ step \in [Transactions -> {"no", "acquiring", "set", "BEGIN", "begun", "failed"}]
    /\ \A t \in Transactions : pool[t] = None <=> step[t] = "no"
    /\ ending \in [Transactions -> {"no", "COMMIT", "ROLLBACK",
                                    "committed", "rolled back", "failed"}]
    /\ work \in [Transactions -> {"none", "open", "durable", "lost"}]

Init ==
    /\ deployment \in Deployments
    /\ pools = [n \in Tenants |-> None]
    /\ draining = {} /\ cleared = {} /\ loans = {} /\ broken = {}
    /\ session = [x \in Connections |-> None]
    /\ pool = [t \in Transactions |-> None]
    /\ dbc = [t \in Transactions |-> None]
    /\ step = [t \in Transactions |-> "no"]
    /\ ending = [t \in Transactions |-> "no"]
    /\ work = [t \in Transactions |-> "none"]

Told(t) == ending[t] \in {"committed", "rolled back", "failed"}

Fresh(p) == p \notin draining /\ \A n \in Tenants : pools[n] # p

Step(t, s) == step' = [step EXCEPT ![t] = s]
End(t, e)  == ending' = [ending EXCEPT ![t] = e]

-----------------------------------------------------------------------------
(* What DatabaseService does with the connection of a transaction          *)

\* pool.release(x); a draining pool does not take it back.
Released(x) ==
    loans' = IF x[1] \in draining THEN loans ELSE loans \ {x}

\* Mutant of Release: this.dbc is cleared but the pool not told.
ReleaseForgetting(t) ==
    /\ dbc' = [dbc EXCEPT ![t] = None]
    /\ UNCHANGED loans

\* release(), which forgets this.dbc before it calls the pool.
Release(t) ==
    \/ dbc[t] = None /\ UNCHANGED <<dbc, loans>>
    \/ dbc[t] # None /\ Released(dbc[t]) /\ dbc' = [dbc EXCEPT ![t] = None]

-----------------------------------------------------------------------------
(* begin                                                                   *)

\* Mutant of PoolFor: the pool of the tenant as it is.
PoolForKnown(n) == {pools[n]}

\* this.pools[tenant] ??= new ConnectionPool(...)
PoolFor(n) == IF pools[n] # None THEN {pools[n]} ELSE {p \in Pools : Fresh(p)}

\* begin() up to its first await.
Begin(t, n) ==
    /\ step[t] = "no" /\ ending[t] = "no"
    /\ \E p \in PoolFor(n) :
          /\ pools' = [pools EXCEPT ![n] = p]
          /\ pool' = [pool EXCEPT ![t] = p]
    /\ Step(t, "acquiring")
    /\ UNCHANGED <<deployment, draining, cleared, loans, dbVars, dbc, ending>>

\* The pool lends x; begin() goes on to set().
Granted(t, x) ==
    /\ step[t] = "acquiring"
    /\ x[1] = pool[t] /\ x[1] \notin draining /\ x \notin loans
    /\ deployment.validates => x \notin broken
    /\ loans' = loans \cup {x}
    /\ dbc' = [dbc EXCEPT ![t] = x]
    /\ Step(t, "set")
    /\ UNCHANGED <<deployment, pools, draining, cleared, dbVars, pool, ending>>

\* A timeout, or no connection could be made: begin() throws.
Refused(t) ==
    /\ step[t] = "acquiring"
    /\ Step(t, "failed")
    /\ UNCHANGED <<deployment, poolVars, dbVars, pool, dbc, ending>>

\* set() throws without a connection (ensureDBC): see BeginFailed.
SetDone(t) ==
    /\ step[t] = "set" /\ dbc[t] # None
    /\ Step(t, "BEGIN")
    /\ UNCHANGED <<deployment, poolVars, dbVars, pool, dbc, ending>>

\* BEGIN is answered; HANA's also without a connection (onBEGIN).
BeginDone(t) ==
    /\ step[t] = "BEGIN"
    /\ Step(t, "begun")
    /\ session' = IF dbc[t] = None \/ dbc[t] \in broken THEN session
                  ELSE [session EXCEPT ![dbc[t]] = t]
    /\ UNCHANGED <<deployment, poolVars, broken, work, pool, dbc, ending>>

\* Mutant of BeginFailed: without the catch.
BeginFailedHolding(t) ==
    /\ step[t] \in {"set", "BEGIN"}
    /\ Step(t, "failed")
    /\ UNCHANGED <<deployment, poolVars, dbVars, pool, dbc, ending>>

\* set() or BEGIN fails: the connection is released, begin() throws.
BeginFailed(t) ==
    /\ step[t] \in {"set", "BEGIN"}
    /\ Step(t, "failed")
    /\ Release(t)
    /\ UNCHANGED <<deployment, pools, draining, cleared, dbVars, pool, ending>>

\* A statement of the transaction, one that was sent while begin() ran too.
Execute(t) ==
    /\ step[t] = "begun" /\ ending[t] \notin {"COMMIT", "ROLLBACK"}
    /\ dbc[t] # None /\ dbc[t] \notin broken
    /\ work[t] = "none"
    /\ work' = [work EXCEPT ![t] = "open"]
    /\ session' = [session EXCEPT ![dbc[t]] = t]
    /\ UNCHANGED <<deployment, poolVars, broken, txVars>>

-----------------------------------------------------------------------------
(* commit and rollback                                                     *)

\* The client may end the transaction: it was begun, and a client that
\* awaits its queries knows that begin() is over.
MayEnd(t) ==
    /\ ending[t] = "no" /\ step[t] # "no"
    /\ deployment.awaits => step[t] \in {"begun", "failed"}

\* commit() returns at once without a connection, and the runtime reports
\* the transaction as committed; else COMMIT is sent.
Commit(t) ==
    /\ MayEnd(t)
    /\ End(t, IF dbc[t] = None THEN "committed" ELSE "COMMIT")
    /\ UNCHANGED <<deployment, poolVars, dbVars, pool, dbc, step>>

\* The same for rollback().
Rollback(t) ==
    /\ MayEnd(t)
    /\ End(t, IF dbc[t] = None THEN "rolled back" ELSE "ROLLBACK")
    /\ UNCHANGED <<deployment, poolVars, dbVars, pool, dbc, step>>

\* A statement that ends the transaction waits in dispatch for begin().
Ends(t, statement) == ending[t] = statement /\ step[t] \in {"begun", "failed"}

CommitDone(t) ==
    /\ Ends(t, "COMMIT")
    /\ dbc[t] # None /\ dbc[t] \notin broken /\ step[t] = "begun"
    /\ session' = [session EXCEPT ![dbc[t]] = None]
    /\ work' = [work EXCEPT ![t] = IF @ = "open" THEN "durable" ELSE @]
    /\ Release(t)
    /\ End(t, "committed")
    /\ UNCHANGED <<deployment, pools, draining, cleared, broken, pool, step>>

\* Mutants of CommitFailed: released in any case; the error swallowed.
CommitFailedReleasing(t) ==
    /\ Ends(t, "COMMIT")
    /\ Release(t)
    /\ End(t, "rolled back")
    /\ UNCHANGED <<deployment, pools, draining, cleared, dbVars, pool, step>>

CommitFailedSwallowed(t) ==
    /\ Ends(t, "COMMIT")
    /\ Release(t)
    /\ session' = [x \in Connections |-> IF session[x] = t THEN None ELSE session[x]]
    /\ End(t, "committed")
    /\ UNCHANGED <<deployment, pools, draining, cleared, broken, work, pool, step>>

\* COMMIT fails: the runtime rolls back, which without a connection is over.
CommitFailed(t) ==
    /\ Ends(t, "COMMIT")
    /\ End(t, IF dbc[t] = None THEN "rolled back" ELSE "ROLLBACK")
    /\ UNCHANGED <<deployment, poolVars, dbVars, pool, dbc, step>>

RollbackDone(t) ==
    /\ Ends(t, "ROLLBACK")
    /\ dbc[t] # None /\ dbc[t] \notin broken
    /\ session' = [session EXCEPT ![dbc[t]] = None]
    /\ work' = [work EXCEPT ![t] = IF @ = "open" THEN "lost" ELSE @]
    /\ Release(t)
    /\ End(t, "rolled back")
    /\ UNCHANGED <<deployment, pools, draining, cleared, broken, pool, step>>

\* Mutant of RollbackFailed: without the finally.
RollbackFailedHolding(t) ==
    /\ Ends(t, "ROLLBACK")
    /\ dbc[t] = None \/ dbc[t] \in broken
    /\ End(t, "failed")
    /\ UNCHANGED <<deployment, poolVars, dbVars, pool, dbc, step>>

\* ROLLBACK fails when the connection does; finally releases it.
RollbackFailed(t) ==
    /\ Ends(t, "ROLLBACK")
    /\ dbc[t] = None \/ dbc[t] \in broken
    /\ Release(t)
    /\ End(t, "failed")
    /\ UNCHANGED <<deployment, pools, draining, cleared, dbVars, pool, step>>

-----------------------------------------------------------------------------
(* Lost connections, and disconnect                                        *)

\* The connections X are closed or lost, and the database rolls back what
\* was open on them, unless it had already executed a COMMIT in flight.
Lose(X) ==
    /\ broken' = broken \cup X
    /\ session' = [x \in Connections |-> IF x \in X THEN None ELSE session[x]]
    /\ \E survivors \in SUBSET {t \in Transactions : ending[t] = "COMMIT"} :
          work' = [t \in Transactions |->
              IF work[t] # "open" \/ dbc[t] \notin X THEN work[t]
              ELSE IF t \in survivors THEN "durable" ELSE "lost"]

Break(x) ==
    /\ x \notin broken
    /\ Lose({x})
    /\ UNCHANGED <<deployment, poolVars, txVars>>

\* The pool replaces connection x.
Renew(x) ==
    /\ broken' = broken \ {x}
    /\ session' = [session EXCEPT ![x] = None]
    /\ UNCHANGED work

\* hdb's 'close' event calls destroy() of the transaction that holds x.
Close(t) ==
    /\ deployment.closes
    /\ dbc[t] # None /\ dbc[t] \in broken
    /\ dbc' = [dbc EXCEPT ![t] = None]
    /\ Released(dbc[t])
    /\ IF dbc[t][1] \in draining THEN UNCHANGED dbVars ELSE Renew(dbc[t])
    /\ UNCHANGED <<deployment, pools, draining, cleared, pool, step, ending>>

\* An idle connection is evicted, or fails its validation.
Replaced(x) ==
    /\ x \in broken /\ x \notin loans /\ x[1] \notin draining
    /\ Renew(x)
    /\ UNCHANGED <<deployment, poolVars, txVars>>

\* Mutant of Disconnect: without `delete this.pools[t]`.
DisconnectKeeping(n) ==
    /\ pools[n] # None /\ pools[n] \notin draining
    /\ draining' = draining \cup {pools[n]}
    /\ step' = [t \in Transactions |->
                   IF step[t] = "acquiring" /\ pool[t] = pools[n] THEN "failed" ELSE step[t]]
    /\ UNCHANGED <<deployment, pools, cleared, loans, dbVars, pool, dbc, ending>>

\* disconnect(tenant): the pool is forgotten and drained; who waits is refused.
Disconnect(n) ==
    /\ pools[n] # None
    /\ pools' = [pools EXCEPT ![n] = None]
    /\ draining' = draining \cup {pools[n]}
    /\ step' = [t \in Transactions |->
                   IF step[t] = "acquiring" /\ pool[t] = pools[n] THEN "failed" ELSE step[t]]
    /\ UNCHANGED <<deployment, cleared, loans, dbVars, pool, dbc, ending>>

\* pool.clear(): all its connections are destroyed, the lent ones too.
Clear(p) ==
    /\ p \in draining \ cleared
    /\ cleared' = cleared \cup {p}
    /\ Lose({x \in Connections : x[1] = p})
    /\ UNCHANGED <<deployment, pools, draining, loans, txVars>>

-----------------------------------------------------------------------------

TransactionNext(t) ==
    \/ \E n \in Tenants : Begin(t, n)
    \/ \E x \in Connections : Granted(t, x)
    \/ Refused(t) \/ SetDone(t) \/ BeginDone(t) \/ BeginFailed(t)
    \/ Execute(t)
    \/ Commit(t) \/ CommitDone(t) \/ CommitFailed(t)
    \/ Rollback(t) \/ RollbackDone(t) \/ RollbackFailed(t)
    \/ Close(t)

Next ==
    \/ \E t \in Transactions : TransactionNext(t)
    \/ \E x \in Connections : Break(x) \/ Replaced(x)
    \/ \E n \in Tenants : Disconnect(n)
    \/ \E p \in Pools : Clear(p)

Spec == Init /\ [][Next]_vars

\* The pool serves who waits when it can again and again (it is first come,
\* first served) and replaces a connection that it found broken; the
\* database answers; and a client ends what it began.
Fairness ==
    /\ \A t \in Transactions :
          /\ SF_vars(\E x \in Connections : Granted(t, x))
          /\ WF_vars(SetDone(t) \/ BeginFailed(t))
          /\ WF_vars(BeginDone(t) \/ BeginFailed(t))
          /\ WF_vars(Commit(t) \/ Rollback(t))
          /\ WF_vars(CommitDone(t) \/ CommitFailed(t))
          /\ WF_vars(RollbackDone(t) \/ RollbackFailed(t))
    /\ \A x \in Connections : WF_vars(Replaced(x))

FairSpec == Spec /\ Fairness

-----------------------------------------------------------------------------
(* Properties                                                              *)

\* A pool's loans and the connections transactions hold are the same, one
\* for each: none is held twice, none is lent and forgotten.
LoansAreHeld ==
    /\ \A x \in loans : x[1] \notin draining => \E t \in Transactions : dbc[t] = x
    /\ \A t \in Transactions : dbc[t] # None =>
          /\ dbc[t] \in loans /\ dbc[t][1] = pool[t]
          /\ \A u \in Transactions \ {t} : dbc[u] # dbc[t]

\* A connection changes hands without an open database transaction: nobody
\* commits or sees what another left behind when a BEGIN, COMMIT or ROLLBACK
\* of it failed.
CleanHandover ==
    \A x \in Connections : session[x] # None => dbc[session[x]] = x

\* Once a client is told how its transaction ended, and when its begin()
\* failed, the transaction keeps no connection from the pool.
EndedHoldsNothing ==
    \A t \in Transactions : Told(t) \/ step[t] = "failed" => dbc[t] = None

\* With a driver that does not tell of closed connections: what is reported
\* committed is durable, what is reported rolled back is not.
OutcomeIsTrue ==
    ~deployment.closes =>
        \A t \in Transactions :
            /\ ending[t] = "committed" => work[t] \in {"none", "durable"}
            /\ ending[t] = "rolled back" => work[t] # "durable"

\* With every driver, what is reported committed is durable.
CommittedIsDurable ==
    \A t \in Transactions : ending[t] = "committed" => work[t] \in {"none", "durable"}

Contract(p) == INSTANCE PoolContract
    WITH Requests <- Transactions, Resources <- Connections,
         waiting  <- {t \in Transactions : step[t] = "acquiring" /\ pool[t] = p},
         lent     <- [t \in Transactions |->
                         IF pool[t] = p /\ dbc[t] \in Connections THEN dbc[t] ELSE None],
         limit    <- Cardinality(Slots),
         closed   <- p \in draining

\* begin, commit, rollback, destroy and disconnect use every pool as
\* PoolContract allows: nobody asks a pool that was drained or asks twice,
\* and each connection is given back once, by the one who was lent it.
\* (Contract(p)!ContractSpec for each p, in a form that TLC can check.)
PoolsKeepContract ==
    /\ \A p \in Pools : Contract(p)!ContractInit
    /\ [][\A p \in Pools : [Contract(p)!ContractNext]_(Contract(p)!contractVars)]_vars

\* A transaction that asked for a connection comes to an end its client is
\* told of, and leaves no connection behind.
EveryTransactionEnds ==
    \A t \in Transactions : step[t] = "acquiring" ~> Told(t) /\ dbc[t] = None
=============================================================================
