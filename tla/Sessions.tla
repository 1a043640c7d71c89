------------------------------- MODULE Sessions -------------------------------
(***************************************************************************)
(* Connections and sessions of the database services: how the factories    *)
(* of SQLiteService.js, PostgresService.js and HANAService.js create       *)
(* connections, what set() leaves on one, who runs statements on it, and   *)
(* what HANA's onNOTFOUND does to it.                                      *)
(*                                                                         *)
(* Abstracted: the pool, which creates what waiters lack, lends to the     *)
(* first in its queue, and is detailed in Pool; failures of COMMIT and     *)
(* ROLLBACK and of connections, which Transactions has; the pool that      *)
(* follows a drained one; features.use_generic_pool.                       *)
(***************************************************************************)
EXTENDS Naturals, Sequences, FiniteSets

CONSTANTS Services,      \* those to start with, of the four below
          Transactions, Connections,
          MaxRetries,    \* maxRetries of the factories
          Deadline,      \* acquireTimeoutMillis, in ticks
          Sizes,         \* <<transactions that are begun, places of the pool>>
          None

\* "tenants" is HANA with a connection pool for each tenant.
ASSUME SessionsAssumption ==
    /\ Services \subseteq {"sqlite", "postgres", "hana", "tenants"}
    /\ MaxRetries \in Nat \ {0} /\ Deadline \in Nat
    /\ None \notin Transactions \cup Connections
    /\ Sizes \subseteq (SUBSET Transactions) \X (SUBSET Connections)

VARIABLES service,
          queue,     \* transactions that wait for the pool
          slot,      \* [state, attempt, elapsed, void]: a place of the pool
          drained,   \* is the pool "open", "leaving" (onNOTFOUND will drain
                     \* it), "drained" or "cleared"?
          step,      \* how far a transaction is
          dbc,       \* this.dbc
          sent,      \* the connection a statement of it was prepared on
          variables, \* by connection, whose values the variables have
          seen,      \* the variables a statement met, and if it came late
          open,      \* whose work is open on a connection
          durable    \* whose work is committed

poolVars == <<queue, slot, drained>>
workVars == <<sent, seen, open, durable>>
vars == <<service, poolVars, step, dbc, variables, workVars>>

Place(state) == [state |-> state, attempt |-> 1, elapsed |-> 0, void |-> FALSE]
In(state) == {c \in Connections : slot[c].state = state}
Creating == In("connecting") \cup In("refreshing") \cup In("hung")

\* The variables of a session: $user.id, which set() of SQLite makes an own
\* property of the object (as it has an alias); $user.locale, which stays a
\* getter of SessionContext; and one that only tx.set({ foo }) sets.
Names == {"id", "locale", "foo"}
Own(t) == [n \in Names |-> IF n = "foo" THEN None ELSE t]
\* No object dbc[$session] on SQLite; on the others nothing was set.
Unset == [n \in Names |-> None]

Init ==
    /\ service \in Services
    /\ queue = <<>> /\ drained = "open"
    /\ \E size \in Sizes :
          /\ step = [t \in Transactions |-> IF t \in size[1] THEN "no" ELSE "unused"]
          /\ slot = [c \in Connections |-> Place(IF c \in size[2] THEN "none" ELSE "unused")]
    /\ dbc = [t \in Transactions |-> None]
    /\ sent = [t \in Transactions |-> None]
    /\ variables = [c \in Connections |-> Unset]
    /\ seen = [t \in Transactions |-> [late |-> FALSE, variables |-> Own(t)]]
    /\ open = [c \in Connections |-> {}]
    /\ durable = {}

Step(t, s) == step' = [step EXCEPT ![t] = s]

----------------------------------------------------------------------------
(* factory.create                                                          *)

\* #dispense
Create(c) ==
    /\ drained \in {"open", "leaving"}
    /\ slot[c].state = "none"
    /\ Len(queue) > Cardinality(In("idle") \cup Creating)
    /\ slot' = [slot EXCEPT ![c] = Place("connecting")]
    /\ UNCHANGED <<service, queue, drained, step, dbc, variables, workVars>>

Connected(c) ==
    /\ slot[c].state = "connecting"
    /\ slot' = [slot EXCEPT ![c] = Place("idle")]
    /\ UNCHANGED <<service, queue, drained, step, dbc, variables, workVars>>

\* The catch of #createResource: the first who waits is refused.
CreateFails(c) ==
    /\ slot' = [slot EXCEPT ![c] = Place("none")]
    /\ IF queue = <<>> THEN UNCHANGED <<queue, step>>
       ELSE queue' = Tail(queue) /\ Step(Head(queue), "failed")

Retry(c) ==
    /\ slot' = [slot EXCEPT ![c].attempt = @ + 1]
    /\ UNCHANGED <<queue, step>>

\* `await new Promise(() => { })`: neither a connection nor an error.
SqliteError(c) ==
    /\ service = "sqlite"
    /\ slot' = [slot EXCEPT ![c].state = "hung"]
    /\ UNCHANGED <<queue, step>>

\* create() of Postgres and createSingleTenant
RetriedError(c) ==
    /\ service \in {"postgres", "hana"}
    /\ IF slot[c].attempt < MaxRetries THEN Retry(c) ELSE CreateFails(c)

\* `if (err.code === 10) return`: the connection is undefined.
AuthenticationError(c) ==
    /\ service = "hana"
    /\ slot' = [slot EXCEPT
          ![c] = [state |-> "idle", attempt |-> 1, elapsed |-> 0, void |-> TRUE]]
    /\ UNCHANGED <<queue, step>>

\* createMultiTenant: one retry more, but none after the deadline; then new
\* credentials are asked for.
TenantError(c) ==
    /\ service = "tenants"
    /\ IF slot[c].attempt <= MaxRetries /\ slot[c].elapsed < Deadline THEN Retry(c)
       ELSE slot' = [slot EXCEPT ![c].state = "refreshing"] /\ UNCHANGED <<queue, step>>

\* 404 and 429 of the service manager
TenantUnknown(c) == service = "tenants" /\ CreateFails(c)

ConnectFails(c) ==
    /\ slot[c].state = "connecting"
    /\ \/ SqliteError(c) \/ RetriedError(c) \/ AuthenticationError(c)
       \/ TenantError(c) \/ TenantUnknown(c)
    /\ UNCHANGED <<service, drained, dbc, variables, workVars>>

\* Mutant of Refreshed: the next call takes a start of its own.
RefreshedAnew(c) ==
    /\ slot[c].state = "refreshing"
    /\ slot' = [slot EXCEPT ![c] = Place("connecting")]
    /\ UNCHANGED <<service, queue, drained, step, dbc, variables, workVars>>

\* `if (Date.now() < deadline) return createMultiTenant(tenant, start)`: the
\* attempts are counted anew, the time is not.
Refreshed(c) ==
    /\ slot[c].state = "refreshing"
    /\ IF slot[c].elapsed < Deadline
       THEN /\ slot' = [slot EXCEPT ![c].state = "connecting", ![c].attempt = 1]
            /\ UNCHANGED <<queue, step>>
       ELSE CreateFails(c)
    /\ UNCHANGED <<service, drained, dbc, variables, workVars>>

RefreshFails(c) ==
    /\ slot[c].state = "refreshing"
    /\ CreateFails(c)
    /\ UNCHANGED <<service, drained, dbc, variables, workVars>>

Tick(c) ==
    /\ service = "tenants" /\ c \in Creating
    /\ slot[c].elapsed < Deadline
    /\ slot' = [slot EXCEPT ![c].elapsed = @ + 1]
    /\ UNCHANGED <<service, queue, drained, step, dbc, variables, workVars>>

----------------------------------------------------------------------------
(* begin, set, and the end of a transaction                                *)

Begin(t) ==
    /\ step[t] = "no" /\ drained \in {"open", "leaving"}
    /\ queue' = Append(queue, t)
    /\ Step(t, "waiting")
    /\ UNCHANGED <<service, slot, drained, dbc, variables, workVars>>

\* begin() goes on with its connection, and throws when it is undefined,
\* before the `try` that would release it.
Lend(c) ==
    /\ drained \in {"open", "leaving"}
    /\ slot[c].state = "idle" /\ queue # <<>>
    /\ queue' = Tail(queue)
    /\ slot' = [slot EXCEPT ![c].state = "lent"]
    /\ LET t == Head(queue)
       IN  IF slot[c].void THEN Step(t, "failed") /\ UNCHANGED dbc
           ELSE Step(t, "set") /\ dbc' = [dbc EXCEPT ![t] = c]
    /\ UNCHANGED <<service, drained, variables, workVars>>

\* set(new SessionContext(ctx)).  On SQLite, it becomes dbc[$session]; were
\* there one, its own properties would be copied into that, not its getters.
WithContext(old, t) ==
    IF service = "sqlite"
    THEN IF old = Unset THEN Own(t) ELSE [old EXCEPT !["id"] = t]
    ELSE [old EXCEPT !["id"] = t, !["locale"] = t]

Set(t) ==
    /\ step[t] = "set"
    /\ variables' = [variables EXCEPT ![dbc[t]] = WithContext(@, t)]
    /\ Step(t, "BEGIN")
    /\ UNCHANGED <<service, poolVars, dbc, workVars>>

\* BEGIN; on a connection with a transaction that is open it does nothing.
Begun(t) ==
    /\ step[t] = "BEGIN"
    /\ Step(t, "begun")
    /\ UNCHANGED <<service, poolVars, dbc, variables, workVars>>

\* tx.set({ foo })
SetFoo(t) ==
    /\ step[t] = "begun" /\ dbc[t] # None
    /\ variables' = [variables EXCEPT ![dbc[t]]["foo"] = t]
    /\ UNCHANGED <<service, poolVars, step, dbc, workVars>>

\* Mutant of Reset: the session stays when the connection is released.
ResetNothing(c) == UNCHANGED variables

\* release() of SQLiteService: `this.dbc[$session] = undefined`.
Reset(c) ==
    IF service = "sqlite" THEN variables' = [variables EXCEPT ![c] = Unset]
    ELSE UNCHANGED variables

\* A drained pool does not take connections back.
Release(t) ==
    /\ dbc' = [dbc EXCEPT ![t] = None]
    /\ Reset(dbc[t])
    /\ slot' = IF drained \in {"drained", "cleared"} THEN slot
               ELSE [slot EXCEPT ![dbc[t]].state = "idle"]

\* Mutant of BeginFails: without the catch.
BeginFailsHolding(t) ==
    /\ step[t] \in {"set", "BEGIN"}
    /\ Step(t, "failed")
    /\ dbc' = [dbc EXCEPT ![t] = None]
    /\ UNCHANGED <<service, poolVars, variables, workVars>>

\* set() fails, on Postgres also when it has set the variables; or BEGIN.
BeginFails(t) ==
    /\ step[t] \in {"set", "BEGIN"}
    /\ Step(t, "failed")
    /\ Release(t)
    /\ UNCHANGED <<service, queue, drained, workVars>>

Commit(t) ==
    /\ step[t] = "begun" /\ dbc[t] # None
    /\ Step(t, "committed")
    /\ durable' = durable \cup open[dbc[t]]
    /\ open' = [open EXCEPT ![dbc[t]] = {}]
    /\ Release(t)
    /\ UNCHANGED <<service, queue, drained, sent, seen>>

Rollback(t) ==
    /\ step[t] = "begun" /\ dbc[t] # None
    /\ Step(t, "rolled back")
    /\ open' = [open EXCEPT ![dbc[t]] = {}]
    /\ Release(t)
    /\ UNCHANGED <<service, queue, drained, sent, seen, durable>>

----------------------------------------------------------------------------
(* Statements                                                              *)

Prepare(t) ==
    /\ step[t] = "begun" /\ dbc[t] # None
    /\ sent[t] = None
    /\ sent' = [sent EXCEPT ![t] = dbc[t]]
    /\ UNCHANGED <<service, poolVars, step, dbc, variables, seen, open, durable>>

\* Its writes are part of the transaction that is open on the connection: of
\* another one, if this statement comes late; or else, but for HANA, which
\* has left auto-commit, they are committed at once.  HANA's ensureDBC and
\* the statements it drops let fewer statements come late.
Run(t) ==
    /\ sent[t] # None
    /\ LET c == sent[t]
           late == dbc[t] # c
           inTransaction == service \in {"hana", "tenants"}
                            \/ \E u \in Transactions : dbc[u] = c /\ step[u] = "begun"
       IN  /\ drained # "cleared"
           /\ sent' = [sent EXCEPT ![t] = None]
           /\ seen' = [seen EXCEPT ![t] = [late |-> late \/ @.late, variables |-> variables[c]]]
           /\ IF inTransaction
              THEN open' = [open EXCEPT ![c] = @ \cup {t}] /\ UNCHANGED durable
              ELSE durable' = durable \cup {t} /\ UNCHANGED open
    /\ UNCHANGED <<service, poolVars, step, dbc, variables>>

RunFails(t) ==
    /\ sent[t] # None
    /\ sent' = [sent EXCEPT ![t] = None]
    /\ UNCHANGED <<service, poolVars, step, dbc, variables, seen, open, durable>>

----------------------------------------------------------------------------
(* HANA's onNOTFOUND, without tenants: a table is not found (259)          *)

\* `await this.release()`: the transaction is not ended, and its client's
\* commit() or rollback() will do nothing.
NotFound(t) ==
    /\ service = "hana"
    /\ sent[t] # None /\ dbc[t] = sent[t]
    /\ sent' = [sent EXCEPT ![t] = None]
    /\ Step(t, "cut off")
    /\ drained' = IF drained = "open" THEN "leaving" ELSE drained
    /\ Release(t)
    /\ UNCHANGED <<service, queue, seen, open, durable>>

\* this.disconnect(): drain() refuses all who wait.
Drain ==
    /\ drained = "leaving"
    /\ drained' = "drained"
    /\ queue' = <<>>
    /\ step' = [t \in Transactions |-> IF step[t] = "waiting" THEN "failed" ELSE step[t]]
    /\ UNCHANGED <<service, slot, dbc, variables, workVars>>

\* clear() waits for creations, and closes the connections, lent or not.
Clear ==
    /\ drained = "drained" /\ Creating = {}
    /\ drained' = "cleared"
    /\ open' = [c \in Connections |-> {}]
    /\ UNCHANGED <<service, queue, slot, step, dbc, variables, sent, seen, durable>>

Next ==
    \/ \E c \in Connections :
          \/ Create(c) \/ Connected(c) \/ ConnectFails(c)
          \/ Refreshed(c) \/ RefreshFails(c) \/ Tick(c) \/ Lend(c)
    \/ \E t \in Transactions :
          \/ Begin(t) \/ Set(t) \/ Begun(t) \/ BeginFails(t) \/ SetFoo(t)
          \/ Commit(t) \/ Rollback(t)
          \/ Prepare(t) \/ Run(t) \/ RunFails(t) \/ NotFound(t)
    \/ Drain \/ Clear

\* Drivers and service managers answer, time passes, the pool serves, and
\* clients end what they began.
Fairness ==
    /\ \A c \in Connections :
          /\ WF_vars(Create(c)) /\ WF_vars(Lend(c)) /\ WF_vars(Tick(c))
          /\ WF_vars(Connected(c) \/ ConnectFails(c))
          /\ WF_vars(Refreshed(c) \/ RefreshFails(c))
    /\ \A t \in Transactions :
          /\ WF_vars(Set(t) \/ BeginFails(t)) /\ WF_vars(Begun(t) \/ BeginFails(t))
          /\ WF_vars(Commit(t) \/ Rollback(t))

Spec == Init /\ [][Next]_vars
FairSpec == Spec /\ Fairness

----------------------------------------------------------------------------
\* A statement meets the user and the locale of its own transaction, whoever
\* had the connection before, and on SQLite no variable that another
\* transaction set for itself (set and release); unless it runs when its
\* transaction has released the connection.
OwnVariables ==
    \A t \in Transactions :
        LET v == seen[t].variables
        IN  ~seen[t].late =>
                /\ v["id"] = t /\ v["locale"] = t
                /\ service = "sqlite" => v["foo"] \in {t, None}

\* A connection is lent to one transaction that holds it, and to no other; a
\* place of the pool is lent to nobody only if it has no connection, after an
\* authentication error (createSingleTenant).
LentIsHeld ==
    /\ \A c \in Connections :
          slot[c].state = "lent" /\ ~slot[c].void /\ drained \in {"open", "leaving"}
              => \E t \in Transactions : dbc[t] = c
    /\ \A t \in Transactions : dbc[t] # None =>
          /\ slot[dbc[t]].state = "lent" /\ ~slot[dbc[t]].void
          /\ \A u \in Transactions \ {t} : dbc[u] # dbc[t]

\* What a transaction wrote becomes durable only by its own commit: not by that
\* of another one that is lent the connection, unless onNOTFOUND had released
\* it with the work still open, or the statement came late.
OwnWork ==
    \A t \in durable : step[t] \in {"committed", "cut off"} \/ seen[t].late

\* With the factories that report errors, begin() is not left waiting: retries
\* end, for a tenant by the deadline, though the attempts are counted anew with
\* new credentials.  (SQLite's factory reports none; HANA's takes a place of
\* the pool for every authentication error.)
BeginSettles ==
    service \in {"postgres", "tenants"} =>
        \A t \in Transactions : step[t] = "waiting" ~> step[t] # "waiting"
=============================================================================
