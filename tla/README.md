# A verification development of cds-dbs

TLA+ modules that model the database services of cap-js/cds-dbs, TLC
configurations that check them on small instances, and theorems that TLAPS
checks for every value of the constants. `PROJECT.json` lists the components,
the runs, the lines of source each definition stands for, the hazards and the
mutants; this file says what they mean.

## 1. Inventory

The repository holds four packages. `db-service` is the base: connection pool,
transactions, the translation of CQN queries to SQL, deep operations. `sqlite`,
`postgres` and `hana` derive a service each from it and add a driver. The CAP
runtime (`@sap/cds`) is outside the repository: it calls the services' `begin`,
`commit` and `rollback` and dispatches queries to their handlers.

| Part (db-service/lib unless named) | State it keeps | Operations | What is hard about it | What makes it correct |
|---|---|---|---|---|
| `common/generic-pool.js` | `_available`, `_loans`, `_all`, `_creates`, `_queue`, `_draining`, eviction timer | acquire, release, destroy, drain, clear, eviction run | every await of `#dispense`, `#destroy` and creation interleaves with everything else; timeouts; creations that fail | a connection is lent once, within `max`, in order; no request and no connection is lost |
| `common/DatabaseService.js` | `pools` per tenant; `pool` and `dbc` of a transaction | begin, commit, rollback, acquire, release, destroy, disconnect | a request ends while `begin` runs; BEGIN, COMMIT, ROLLBACK fail; connections close; pools disappear | clean connections are handed over, none is kept, the client is told the truth |
| `common/session-context.js` | variables of a session | getters | what the next user of a connection still sees | a transaction sees its own variables only |
| `SQLService.js` | none | handlers onSELECT, onINSERT, onUPSERT, onUPDATE, onDELETE (deep), onSTREAM, onEVENT | recursion over compositions with a depth that siblings share | a deep delete reaches every child down to the depth |
| `deep-queries.js` | marker on queries | onDeep, getDeepQueries, compareing | data read before it is written; order of deletes, updates, inserts | the result is the data sent; no transient key collision |
| `fill-in-keys.js`, `InsertResults.js` | none | fill in keys, materialise keys | arithmetic of generated keys | keys returned are the keys inserted |
| `infer/`, `cqn4sql.js`, `search.js` | trees built for one query | inference, join tree, expansion of structures | merging of paths, unique aliases | one join for one path, no alias twice |
| `cqn2sql.js`, `cqn2pql.js`, `cql-functions.js` | text built for one query | rendering | NULL semantics of operators | comparison means what CQN says |
| `sqlite/` | `$session` of a connection | set, release, iterators | iterators that outlive the transaction | |
| `postgres/` | `dbc.open`, parameter buffer, query cache | connect with retries, streams of parameters | streams of several statements share a counter and a table | every stream is sent once |
| `hana/lib/HANAService.js` | `statements` of a connection, server version | connect with retries against a deadline, onNOTFOUND | releases a connection within a transaction | |
| `hana/lib/drivers/` | buffers of the row reader | streaming of rows and LOBs | buffer reused while it is read | bytes come out once and in order |

Interaction: the runtime's transaction object calls `begin` with its first
query, which asks the pool of its tenant (`pools[tenant]`, made on demand) for a
connection; queries run on `this.dbc`; `commit` or `rollback` sends the statement
and releases. The pool calls the driver through the service's factory (create,
validate, destroy) and drivers call back (`hdb`'s 'close' event calls the
`dbc.destroy` that `begin` bound). `disconnect` drains and clears a pool.

The hazards of each part, with the properties that cover them, are in
`PROJECT.json`.

## 2. Plan

The order is that of importance for data; 1 to 6 are done.

1. `PoolContract` (abstract), `Pool` with `PoolProperties`, refinement of the
   contract; its safety proved.
2. `Transactions` over pools that keep `PoolContract`; its safety proved.
3. `Sessions`: connection factories, session variables, `onNOTFOUND`; its safety
   proved.
4. `DeepOperation`: deep writes against "the document is replaced"; its safety
   proved.
5. `ResultRows` and `HdbStream`: result streams against "the bytes, once and in
   order"; the raw stream proved to give the JSON of its rows.
6. `Infer`, `Cqn4sql`, `Sql`, `Writes` and `Service` against `PathSemantics`:
   queries answer what their paths mean.
7. Left: PostgreSQL's `ParameterStream` and SQLite's iterators; joins and queries
   in FROM; `InsertResults`.

| Modules | Model | Run | Distinct states |
|---|---|---|---|
| `PoolContract`, `Pool`, `PoolProperties`, `MCPool`, `PoolProofs` | `generic-pool.js` | `pool`, `pool_live`, `pool_timeout` | |
| `Transactions`, `MCTransactions`, `TransactionsProofs` | `DatabaseService.js` | `tx`, `tx_live`, `tx_race`, `tx_close` | |
| `Sessions`, `MCSessions`, `SessionsProofs` | factories and `set` of the services | `sessions` | 1.13 million |
| `DeepOperation`, `MCDeep`, `DeepOperationProofs` (with `SequenceLemmas`) | `deep-queries.js`, `fill-in-keys.js`, `SQLService.js` | `deep` | 194,000 |
| `ResultRows`, `HdbStream`, `MCStream`, `HdbStreamProofs`, `ResultRowsProofs`, `RawOutputProofs` (with `SequenceLemmas`) | `hana/lib/drivers/` | `stream` | 27,500 |
| `Cqn`, `Search`, `Sql`, `Infer`, `Cqn4sql`, `Writes`, `PathSemantics`, `Service`, `ServiceProperties`, `MCService` | `infer/`, `cqn4sql.js`, `cqn2sql.js`, `search.js`, `SQLService.js` | `service`, `service_unequal` | 11,400 |

## 3. The connection pool

### Modules

* `PoolContract`: what a pool promises, in four variables: who waits, who was
  lent what, the limit, and whether it is closed.
* `Pool`: `generic-pool.js`. The variables are the fields of the class, plus the
  continuations in flight: `creating` and `settled` (members of `_creates` before
  and after the driver's answer), `validating`, `destroys` (who awaits which
  destruction), `clearing`, and `frames`, the activations of `#dispense`. The
  JavaScript thread runs handlers to their next await, so an action is a stretch
  between awaits; but the loop of `#dispense` calls the inner `dispense`, which
  may call `#dispense`, so the loop is a stack of frames, and everything else is
  blocked (`Quiet`) until the stack is empty.
* `PoolProperties`: the properties, and the inductive invariant `IInv`.
* `MCPool`: option records and symmetry for TLC.
* `PoolProofs`: the theorems.

Method and action: `acquire` is `Acquire`, `AcquireWhileDraining`, and
`AcquireTimeout` for the timer of a request; `release` is `Release`; `destroy` is
`DestroyLent`, then `DestroySettled` (the await of `#destroy`) and
`DestroyResumed` (the `#dispense` after it); both are `ReturnWhileDraining` when
the pool drains. `#createResource` is `CreateSucceeded`/`CreateFailed` and
`CreateFinally`. `#dispense` is `Dispense` (up to the loop), `DispenseNext` (a
turn), `DispenseReturn`, and `ValidateSucceeded`/`ValidateFailed`. `drain` is
`Drain`, `clear` is `Clear` and `ClearDestroys`, the eviction timer is `Evict`.

Abstracted: time (an armed timer may fire whenever a timer can: microtasks go
first, `TimersTurn`), so that any prefix of the candidates may be found idle too
long; connections are names, used again when nothing refers to them; the states
of `PooledResource`, which no code reads. `fifo` is an option that the code
ignores. Callers keep to the discipline of `DatabaseService`: a connection is
given back once, by release or destroy.

### Runs and bounds

* `pool` (safety, 3 callers, 4 connections): pools of at most 1, 2 and 3 with and
  without validation, acquire timeouts and eviction. Three callers make one wait
  behind another that times out while a third holds the connection; one
  connection more than the pool's limit allows one to be still closing. Both are
  symmetric sets: nothing orders them. Deadlock is checked.
* `pool_live` (2 callers, 3 connections, no acquire timeouts): every `acquire`
  settles and `clear` terminates. Timeouts are left out as they would settle
  every request by themselves.
* `pool_timeout`: the finding below.

Fairness: the event loop runs every continuation (weak, per continuation); the
driver answers each create, validate and destroy, in whichever way; a borrower
gives its connection back; validation does not fail for ever (strong). Nothing is
assumed of callers' requests, timers, eviction, drain or clear.

What they show: in spite of every interleaving a connection is lent to one
(`Exclusive`), `release` never throws at its borrower (`NoForeignResource`), the
pool stays within `max` though a settled creation counts twice (`WithinLimit`),
destroyed connections stay out (`DestroyedIsGone`), requests are neither dropped
(`PendingIsQueued`) nor overtaken (`NoOvertaking`) nor forgotten when nothing is
in flight for them (`NoLostWakeup`), and `clear` leaves nothing
(`ClearedForGood`, stated for the pool's own sets at its second `allSettled`).
`Conserved` holds of pools without acquire timeouts only; see the finding.

### Proved

`PoolProofs` proves `TypeOK`, `WithinLimit`, and from the invariant `IInv` the
properties `Exclusive`, `NoForeignResource`, `Conserved`, `DestroyedIsGone`,
`PendingIsQueued` and `ClearedForGood`, for any finite set of connections, any
callers and any options. It also proves that `Pool` implements
`PoolContract` and `NoOvertaking`. Assumptions: `PoolAssumption` (the set of
connections is finite, `None` is not one of them, `min <= max`).

None of the properties is inductive alone. `IInv` adds: a connection is in at
most one of idle, lent and validating, and once among the idle (`PlaceInv`); who
was resolved is who holds (`HeldInv`); all of them are in `_all`, and what is
being destroyed is not (`MemberInv`); the queue holds every pending request, once
(`QueueInv`); a draining pool has no queue and no activation of `#dispense`
(`LifeInv`), which is why a late validation can add to `_available` but lend
nothing. The limit needs no more than the type invariant: each place that adds
to `creating` compares `Size` with the limit.

`NoLostWakeup`, and `NeverStuck` of pools without acquire timeouts (for the others
`pool_timeout` refutes it), follow from `WakeInv` on top of `IInv`. `Due` counts the
calls of `#dispense` that continuations in flight will make. Either these suffice
for all idle connections, or with the validations under way for all requests
(`IdleAreDue`); and connections suffice for the requests, unless the pool is full or
a place in it is about to be offered again. The activations on the stack are what
makes it delicate: each has fixed its number of turns when it began, and only one
that has yet to enter its loop counts as a call.

Only model-checked: liveness.

## 4. Transactions

`Transactions` models `DatabaseService` as the runtime drives it. `step[t]` is
how far `begin` is, `ending[t]` the statement that ends the transaction or what
its client was told; the two are coroutines that interleave. `dbc`, `pool`,
`pools` are the fields of the code. `session[x]` is the open database transaction
on connection x and `work[t]` what became of its writes, which the database
decides. The pools are the environment, as `PoolContract` describes them, and
`PoolsKeepContract` checks that both sides keep to it: `Contract(p)` instantiates
`PoolContract` for each pool.

`Begin`, `Granted`, `Refused`, `SetDone`, `BeginDone`, `BeginFailed` are `begin`
from await to await. `Commit` and `Rollback` return at once without a connection,
as the code does; else the statement waits for `begin` (the runtime's dispatch)
and `CommitDone`, `CommitFailed` (after which the runtime rolls back),
`RollbackDone`, `RollbackFailed` follow. `Close` is hdb's 'close' event,
`Disconnect` and `Clear` are `disconnect`, `Break` is a lost connection, after
which a COMMIT in flight may have been executed or not.

Assumptions about the outside: ROLLBACK fails only if the connection does; a
failed BEGIN leaves nothing open; the database rolls back what was open on a
connection that ends. The CAP runtime is modelled from how its transaction
objects call `begin`, `commit` and `rollback`.

Deployments (chosen in `Init`): whether the driver tells of closed connections
(hdb), whether the pool validates, and whether a client may end its transaction
before its queries are answered.

* `tx` (3 transactions, 1 connection per pool, 2 pools, so one disconnect and
  reconnect; `Begin` waits when no pool is left): three transactions hand a
  connection on twice while another waits. The properties: `LoansAreHeld`,
  `CleanHandover`, `EndedHoldsNothing`, `OutcomeIsTrue`, `PoolsKeepContract`.
  More connections per pool add transactions that run side by side and share
  nothing.
* `tx_live` (2 transactions): `EveryTransactionEnds`. Fairness: the pool serves
  who waits when it can again and again (strong; `NoOvertaking` and
  `EveryAcquireSettles` justify it), replaces connections it found broken, the
  database answers, and clients end what they began. Refusals by timeout are not
  assumed.
* `tx_race`, `tx_close`: findings.

Deadlock is not checked, since the system stops when each transaction is over.

What is proved is in section 9; that includes `PoolsKeepContract`.

## 5. Sessions and connection factories

`Sessions` takes up what `Transactions` leaves out of a connection: how it comes
into being, which session variables it has, and whose statements run on it. The
pool is reduced to a queue and places (`slot`), each with the state of the
factory's coroutine: `ConnectFails` has a disjunct for each service, as their
`create` differ. SQLite's hangs (`SqliteError`), Postgres's and single-tenant
HANA's retry (`RetriedError`), HANA's returns nothing on an authentication error
(`AuthenticationError`), and that with tenants asks for new credentials and begins
to count again, against one deadline (`TenantError`, `Refreshed`, `Tick`).

`Set` is `set` of the three services. A `SessionContext` has own properties and
getters on its prototype, and SQLite's `set` copies own properties only: `Names`
has one variable of each kind and one that only `tx.set` sets. `Release` resets
the session of SQLite. `Prepare`, `Run` and `RunFails` are a statement in two
steps, so that it may run after its transaction has released the connection, on
its own or in another one's transaction. `NotFound` is HANA's `onNOTFOUND`, with
the `Drain` and `Clear` that follow.

* `sessions`: three transactions that have one connection after the other, and two
  with a connection each; two attempts, a deadline of one tick, which is enough
  for a retry before and after it. Properties: a statement that is not late meets
  its own variables (`OwnVariables`); who holds what is lent (`LentIsHeld`);
  `begin` settles (`BeginSettles`) where the factory reports errors. That work becomes
  durable by its own commit (`OwnWork`), with the two exceptions that the code has, both
  named in the property, is proved and not checked by the run.

Fairness: drivers and service managers answer, in whichever way; time passes; the
pool creates and lends; clients end what they began. Statements are not assumed to
run. `BeginSettles` is stated for Postgres and HANA with tenants: on SQLite it does
not hold after an error, nor on HANA when authentication errors have taken all
places.

## 6. Deep operations

`DeepOperation` is `onDeep` behind `fill-in-keys.js`, with `deep_delete`. A
document is a function from ids to rows that name their parents. `ReadBefore` is
the expanded SELECT, down to the recursion depth; before it and after it another
transaction may insert (`OtherInserts`). The difference is computed from what was
read, and `StartDeletes`, `StartUpdates` and `StartInserts` are the three rounds.
Statements of one `Promise.all` run in any order, in two steps (`Prepare`, `Run`),
and any may fail (`RunFails`): then the rest go on while the request is rolled
back, and become `strays`.

The reference is `Meant(old)`, what a request means for a document, whatever
statements it takes. `Replaced` says that a request that succeeds did that and
nothing else. `NoConflict` quotes the order of the rounds: no INSERT meets a row in
its way. `NoOrphans`, `ModifiedTellsTrue` and `RollbackLeavesStrays` are about the
order of deletes, `@cds.on.update` and failures.

* `deep`: the root has two compositions, one of which is recursive and has one
  below it: documents with siblings with and without children, nested so deep that
  the depth of the expand, 1, ends above rows there are and that of deep_delete
  (`@depth`), 2, just reaches all of them.
  The requests insert, change, exchange, move and remove entries, and let values
  collide. Deadlock is not checked: a request is over.

Writers other than the one insertion, compositions to one, views, persistence.skip
and the columns `compareJson` compares are abstracted. UPSERT is never deep in
`onDeep`. Circular compositions other than of an entity with itself make
`deep_delete` throw; the model assumes there are none (`NoOtherCircle`), and that the
entries of a request have different keys.

Proved (section 9): `RollbackLeavesStrays`, `ModifiedTellsTrue`, and, for documents
that are nested no deeper than `deep_delete` follows them, `NoOrphans` and
`Replaced`. Deeper ones do leave orphans. `NoConflict` depends on the data: an
entry with the key of a row that the SELECT did not reach is in conflict with it. It
is proved for requests that mean rows that satisfy the constraints (`Consistent`), as
all those of `deep` do for which it says anything.

## 7. Result streams of HANA

`ResultRows` is how the levels of nested expands are put together again: the stack
of levels of `handleLevel` (text) and `parseRows` (objects). `HdbStream` is the
reader of `hdb.js`, which writes its output into the buffer that it reads from:
`reading` and `writing` are addresses in `mem`, what was pushed are views of it, and
a byte is a value that tells where it came from, so that an overwritten byte shows.
An action is the code up to the next await, or one operation of a row: a row head
(`RawRow`), the operations of a row, a `readLob` or its failure, the arrival of the next
buffer, the end of the result or an error of the connection. In object mode rows are
returned before their LOBs have been read.

Two things of the code shape the model. `nextBlob` goes on to the next LOB column
only if `readBlob` answered with a promise: after a LOB that is null, or came whole with
its row (`Stops`), the columns behind it are left (`NextBlob`). What is left is taken for
the head of the next row (`RawMisread`), also behind the last row; it is not the JSON
that a head holds, so that `read()` rejects. (The model takes it for granted that the
bytes of a LOB column are never those of a head.) And in object mode a LOB that is
null is returned as a stream that never ends (state `"never"`), since `?.catch` makes
`undefined` of the `null` that `readBlob` returns.

* `stream`: results of no to three root rows, with LOBs that are absent, null,
  within the prefetched part or one `readLob` longer, before and behind each other, so
  that rows are read to their end and left before it, and expands of two levels,
  filled and empty, in one buffer and in one for each row, raw, raw without brackets
  and in object mode. Any `readLob` may fail. `RawOutput` compares what the client of a
  stream that ended gets with the JSON text defined by recursion over the records, in
  which each LOB is whole: so no stream ends after a row was left early. `RowsRead`
  says when that happens: between two rows the reader is where a row ends exactly as
  long as no row had a LOB that is null, or came whole with its row, in front of another
  column. `ParsedRows` compares the objects of `parseRows` with those defined by
  recursion; `LobsArrive` is for object mode; `PushedStays` and `TypeOK` are about the
  memory.

All LOBs of a stream share the offset of `readLob` (hazard at `hdb.js:486`). `LobsArrive`
speaks of each LOB for which it is right (`AtItsOffset`): none of it is left to be
read, or the last LOB of each row since came with as much as any does. What it
excludes, a row with a short last LOB after a long one that is yet to be read, is in the
instance; what `stream` leaves out is a LOB that takes two `readLob`, as its stream grows
without an end. (The theorems of section 9 do have such LOBs.)

A LOB that is encoded in place is lost (`hdb.js:302`); `inPlace` records it and
`RawOutput` excludes it. Buffers end with a row: `ensure` and `write` may wait in the
middle of one, for which `rsNext` does not wait in turn. BINARY columns (which end a row
as a null LOB does), numbers longer than six digits in paths, CESU-8 and stored
procedures are not modelled. Deadlock is not checked, since a stream is over.

## 8. Queries

`Cqn` is the notation: the linked model, queries, and token streams, in which only
an `xpr` token stands for parentheses, as in the code. `Infer` links paths and
builds the join tree (`join-tree.js`), `Search` finds the elements a search looks
into, `Cqn4sql` translates: joins, EXISTS, expands to subqueries, structures,
calculated elements, `$self`, filters, wildcards and what path expressions in UPDATE
and DELETE become. `Sql` is the meaning of what `cqn2sql.js` renders, over tables
with NULL and three truth values; `Writes` that of the rendered writes, with managed
elements and UPSERT: the old row is looked up by `c.onInsert || c.sql` (`JoinedValue`), for
which the default of a key comes before the value that is given, while the row that is
written over is that with the key that is written (ON CONFLICT). `Service` composes them: `Translate` is `cqn2sql()`, after which
`Read` or `Change` runs the statement that `request` holds, with the count of those in
`Counted`; `Insert`, `InsertListed` and `Upsert` name their table and need no
translation. A caller awaits one request before the next; two at a time are the
matter of `Transactions` and `Sessions`.

Expressions, columns and queries are found in each other, in the code as here.
`Cqn4sql` has one recursion for the three (`Transform`), as have `Sql` (`Evaluate`:
conditions, values, answers) and `PathSemantics` (`Means`); the operators in front of
them are the functions of the code, and `Tokens`, `ColumnsFor` and `Statement` (in
`Sql` `Truth`, `Value` and `Answer`) stand for the calls from one to the other.

`PathSemantics` is the abstract specification: what a query along associations
means, by following the paths from row to row, with no join, alias or translation.
`SameAnswer` compares the answer of the service with it, in every state that writes
lead to. The rest: `CountTellsTrue` (`$count`, counted or derived from a page that
is not full; the clone that counts keeps `one`, so that of a SELECT.one it is 1 or 0,
which the property takes for what is meant), `StampsTellTrue` (`@cds.on.insert` and `@cds.on.update` through INSERT
and UPSERT: what an upsert is to keep, of rows whose keys have no default or are that, see
section 10), `TouchesMeant` (UPDATE and DELETE touch the rows that their paths mean,
and no other), `TypeOK` (one row for a key).

* `service`: a bookshop of three entities with associations to one, to many and to
  themselves, and prices with a default in their key, a structure, calculated elements, an enum, and NULL in foreign keys.
  Each query combines constructs whose translations meet, and up to two writes come
  before it, in every combination. Two are enough for an upsert of an inserted
  row and for an update that changes what a deletion selects.
  `first` and `none` are SELECT.one with an offset and without a row. `self` is not
  counted, as the query its count becomes does not resolve.
* `service_unequal`: finding 4.

Not in the instance: a column behind `*` that replaces a calculated element of the
same name; more than one source in FROM; a search in aggregates of a query that has
a HAVING, where `transformSearch` puts the WHERE in place of it (`cqn4sql.js:368`;
`Searching` does so too).

## 9. Proved

TLAPS checks `PoolProofs` (section 3), `TransactionsProofs`, `SessionsProofs`,
`HdbStreamProofs`, `ResultRowsProofs`, `RawOutputProofs`, `DeepOperationProofs` and
the `SequenceLemmas` the last four rest on. All are for every value of the constants,
under the named assumptions of the modules.

`TransactionsProofs`: `TypeOK`; `LoansAreHeld` and `CleanHandover`, from the
invariant `HandoverInv`, which adds to both that only `begin` holds a connection, from
the pool's grant on, and that an open database transaction was begun, on a connection
that works. `EndedHoldsNothing`
and `OutcomeIsTrue` do not hold of clients that end a transaction before its queries
are answered (finding 2), so the theorems assume `Awaiting`: no deployment has such
clients. `EndingInv` then says that nothing ends before `begin` is over;
`OutcomeInv` that work is open exactly while its connection works, and that what
decided it is what the client is told. `OutcomeIsTrue` is, as in the run, for
drivers that do not report closed connections (finding 3).

`TransactionsKeepContract`, in the same module, is `PoolsKeepContract` as a theorem:
seen from each pool, every step of `Transactions` is a step of
`PoolContract` or none. The argument rests on `OwnPools` (who has a pool has one that
its slots belong to; pools that were disconnected stay so) and `HandoverInv`, and
takes each action to the one of the contract that it is for its own pool, and to a
stutter for all others. It assumes that the names of pools and connections are
finite sets.

`HdbStreamProofs` is about results of any rows in any buffers, with LOBs of any
length and number (`StreamAssumption`: the results are sequences of sequences of rows
with paths of numbers, the sizes positive):

* `StreamPositions` is `TypeOK`: the reader never reads beyond the memory there is,
  nor writes beyond what it has read. The invariant is one of accounting (`Positions`
  in `StreamInv`): `reading` plus what the operations left will read is at most where the
  row ends. From it follows that each operation finds its bytes, and that what it writes
  fits in front of `reading`. That they are equal holds exactly while no column was left
  (`InStep`): a row is read to its end if it is `Whole`.
* `RowsAreRead` is `RowsRead`: it is `InStep` between two rows, where no operations are
  left.
* `PushedViewsStay` is `PushedStays`: each view ends at or before `writing` (`Views`),
  and what is written from then on lies behind it, after a misread and a failure too.
  This is what the reuse of the buffer puts at risk.
* `LobStreamsWhole` is `LobsArrive`, for all results: `LobInv` says of each LOB by itself
  what its stream has given in each of its states, and that the offset is as long as what
  comes with it while `AtItsOffset` holds.

`ResultRowsProofs` is about `handleLevel`, which keeps a stack of levels and gives the
text between two rows. Its assumption on the rows is `RowsSound`: they come in the
order of their paths, and each is of the root or of an expand of a row before it
(`InPathOrder`). The statements order by `"_path_"` (`HANAService.js:268`) and make the
path of an expand from that of its parent (`HANAService.js:502-520`); TLC evaluates
`InPathOrder` on all results of `stream` (`ResultsAssumption` of `MCStream`).
`HandleLevelContinues`: what a stream has given for n rows, with what closes it, is the
JSON of these rows, and stays so with each further row. `Expected` says of each row
which of the later rows are its elements, and puts their texts together; the stream
only has the levels. The argument is in these steps:

* Paths with a common beginning are next to each other in the order (`Between`,
  `Inside`), so the rows of an expand follow the row that has it without a gap, and a
  level that was left is not needed again.
* `Anc(n, k)` is the row that the k-th level of row n is of; row n + 1 is put below
  exactly one level of row n (`IsTop`), and the levels above are shared.
* The texts of rows, which are computed from the last one to the first, satisfy the
  equation `RowText` says (`TextsAre`, by induction on the rows); a row that row n + 1 is
  not below keeps its text (`AsideStays`).
* The text of a level ends with what closes the levels below it (`Ends`, `Down`), so
  that the JSON of n rows and that of n + 1 rows have the same beginning, and differ by
  the text between the rows, row n + 1 and what closes it (`CommonExists`,
  by induction on the levels, from the one the row is put below up to the root).
* `Describes` is what the levels of a stream say of row n: where it is, which of its
  expands had no rows, what closes each level. `NextLevels` is that `HandleLevel`
  keeps it, and gives that text.

`RowsParsed`, in the same module, is about `parseRows`: the objects it makes of the rows
are those the records stand for (`ParsedRows`). Next to `RowsSound` it assumes that an
expand to one has one row at most (`OneEach`): the statement asks for the row number 1
only (`HANAService.js:523-541`), and where there were more, `parseRows` would keep the
last one. `ResultsAssumption` has this as well. The argument:

* The fold over the rows is a sequence of states, one for each row (`ParsedSteps`). The
  set of records that the property sorts by path is the sequence of rows again
  (`AllOrdered`); so are the rows of any set of numbers, in the order of the numbers
  (`OrderedIs`).
* The stack of `parseRows` after row n is the root and the rows that row n is below, or
  is (`StackOf`). The level that the next row is put to is then that of the row whose
  expand it is of (`StackTop`): nothing that the row needs was taken off before.
* What was put to a property so far are the rows of that expand, in their order
  (`At`); a row is put to one property, and what it is put to has no row yet if it is an
  expand to one (`AtExpand`, `OneIs`). A row of the root is put to none (`AtRoot`).

`RawOutputProofs` has `RawStreamsWhole`: `RawOutput` in all states, for results that
satisfy `RowsSound`. What a client gets is views of memory that is written on, so the
invariant (`RawInv`, which TLC checked on `stream` before) is about what is to come:
memory not yet read is as HANA sent it (`Fresh`); the steps left of the row, done one
after the other on what was written so far (`Plays`, a run of `After`), lead to the JSON
of the rows without what closes it, or with it if the end was reached (`Leads`); when
the stream has ended, the output is that JSON. All this is said of streams whose rows so
far were read to their end; `EndsRead` adds that no other stream ends, since one that left
columns can only reject. A LOB longer than one `readLob` never
gets there (`Stuck`). `PlaysRow` says that the steps of a row give its text, LOBs
encoded in one piece or in two, the first of which need not end at a multiple of three
bytes (`EncodedBoth`). Then each action does the first of the steps that are left, and
`Positions` and `Views` of `HdbStreamProofs` say that it neither overwrites what was
pushed nor what is to be read.

`SequenceLemmas` is what these proofs need of concatenation, sums and recursive
functions over sequences. Theorems with an operator for a parameter cannot be used
with these provers, so induction is by the least counterexample (`Least`), on sets of
numbers.

`SessionsProofs`: `LentIsHeld` from `TypeInv`, `QueueInv` (who waits is in the queue
once, so that who is lent a connection waits for no other) and `HoldInv`;
`OwnVariables` from `VariablesInv` (on SQLite, a connection that nobody has told its
user has no variables at all, which `release` sees to); `OwnWork` from `WorkInv`
(work is open on the connection of who wrote it, unless late or cut off).

`DeepOperationProofs` is about documents of any model, size and nesting, any request
and any failures (`DeepAssumption`: compositions have no circle but of an entity with
itself; the rows of a database, as its foreign keys have it, are below others that are
there and never below themselves, and the root is below none; an entry is in a
composition that its parent gives, and an UPDATE is of one root, which no one else
inserts; `EntriesAssumption`: the entries of a request have different keys):

* `DeepTypes` is `TypeOK`: the statements computed are well-formed. For that
  `Cascade`, the calls of `deep_delete`, is defined by levels.
* `RollbackLeavesTheRest` is `RollbackLeavesStrays`. In `StraysInv`, the statements
  of one round are of one kind, and so are those under way when one of them fails;
  DELETEs only ever leave a part of the rows, so one that runs late finds no more
  rows than it would have found in `start`. Other statements change their own rows.
* `ChildrenGoFirst` is `NoOrphans` in the states that satisfy `WithinDepth`: below a
  row that a DELETE of the request finds there is none but for which the request has
  a DELETE, too. That is so in all states of `deep`; it is not when an entity is
  nested in itself deeper than `@depth`. `OrphansInv` has three parts. `DeleteInv`:
  the DELETE of a composition is still to run or finds nothing, and nothing that is
  still to run prolongs the path of one that was prepared; this is where `Waits`
  matters, and that a DELETE that fails takes those of its parents with it.
  `CreateInv`: the parent of an entry to be created is to be created, too, or is
  there and is found by no DELETE left. That rests on `MatchedIsSpared`: with an entry
  that the data keeps, all above it is kept (`MatchedAbove`, by induction from the
  root of the document, on what `Chain` finds), and what others inserted meanwhile is
  not above it. `RowsInv`: which rows have their parents when.
* `ModifiedIsTold` is `ModifiedTellsTrue`, and `DocumentReplaced` is `Replaced` in the
  states that satisfy `WithinDepth`. `ReadInv`: what was read is, from each row
  upwards, what the database holds, and holds the root if there is one. `ChangesInv`
  says of each row, round by round, what has become of it: it is gone, and a DELETE of
  the request found it in `start` (`Rest`); or it is what it was, until its UPDATE has
  run (`AsUpdated`); or it is the entry of the data (`AsInserted`). A key that was in
  `start` is inserted only if it was deleted before, since INSERT fails on a key that
  is there. For the second theorem, what the DELETEs find must be what `Meant` lets go
  (`GoneIs`): a row they find has a row above it that goes, by the path of the DELETE;
  a row below one that goes is found, by induction downwards, one level of
  `WithinDepth` at a time. For the first, `DirtyIs` shows that the recursive definition
  of `Dirty` says what it seems to, by induction from the entries that have none
  below them (`NoDescent`).
* `NothingInTheWay` is `NoConflict` in the states that satisfy `WithinDepth` and
  `Consistent`: in `Meant(start)` no two rows of an entity have the same parent and
  value, and no entry to be inserted has the key of a row that stays. `MeantRows` says
  of each row that is meant which statement gives it its values; a row that has been
  updated or inserted, or needs neither, has them already (`ChangesInv`), and so has
  the row that a statement is about to write: two of them are not in each other's way.
  What is left are rows whose own UPDATE is still to run. `FreshInv` adds that a key
  to be inserted is not there yet, and is in one INSERT only.

Only model-checked: the liveness properties (`EveryAcquireSettles`,
`ClearTerminates`, `EveryTransactionEnds`, `BeginSettles`); the properties of
`service`, whose modules are recursive over data.

## 10. Findings

1. `pool_timeout`: a request that times out stays in `_queue`. When a connection
   is offered to it, `#dispense` is called but the connection, no longer in
   `_available`, is not put back: it stays in `_all` and takes a place for ever.
   A pool of one never serves again.
2. `tx_race`: a transaction that is rolled back (or committed) while `begin` waits
   for the pool is lent a connection later, which nobody releases.
3. `tx_close`: when hdb reports a closed connection, `dbc` is cleared and `commit`
   returns without an error: the client is told that lost work was committed.
4. `service_unequal`: `author.ID != 1` loses the books without an author, since the
   foreign key is taken for the key it points to, which is never NULL.

Four more places where the code does not do what its comments say are in the modules as
the code has them. They have no run of their own; the properties say for which inputs
they hold in spite of them:

* `stream.js:116`: `nextBlob` goes on to the next column `if (blobLength?.then)`. Behind
  a LOB that is null or came whole with its row (or a BINARY), the LOB columns are
  neither written ("Read and write JSON blob data", `stream.js:98`) nor read past, and
  the raw stream rejects on what it takes for the next row. `RowsRead` says exactly when.
* `hdb.js:486`: the offset of `readLob` is not advanced. A LOB of more than one `readLob`
  is read from the same offset again and again, and its stream has no end; in object
  mode one may be read from the offset of another. `LobsArrive` speaks of the LOBs that
  are read at their own.
* `hdb.js:395`: `readBlob(...)?.catch(...)` is `undefined` for null, so a LOB that is null
  is a stream that never ends in object mode, not "null" (`stream.js:62`).
* `cqn2sql.js:1154`: UPSERT finds the old row by the default of a key where another value
  is given. It misses the row that it then writes over, and what should be kept ("keep
  old if no new data", `cqn2sql.js:1553`) is set anew. `StampsTellTrue` says of such rows
  only when they were last written.

## 11. Not modelled

* Query transformation: runtime views, joins and queries in FROM, table functions,
  localized names, hierarchies (`SELECT_recurse`).
* Rendering: DDL, hints, locks, the functions of `cql-functions.js` other than
  search, count and max, and what is particular to HANA and PostgreSQL
  (`cqn2pql.js`, `CQN2HANA` other than paths of expands): text whose meaning is that
  of the database.
* `InsertResults.js` (arithmetic with SQLite's last row id), plain SQL and `foreach`,
  LOB streams of SELECT, INSERT from streams.
* PostgreSQL: parameter streams; `database` and `tenant`, which create and drop
  databases and schemas; HANA's deployment of tenants.
* SQLite: result iterators, `sql.js`.
* `hana-client.js`, stored procedures, tracing (`dynatrace.js`), the npm module
  generic-pool, which is external, with `features.use_generic_pool`.
* Row numbers of paths are padded to six digits (`HANAService.js:513`): from the millionth
  row of an expand on, the order of the text is not that of the numbers.
* After `clear`, a validation that answers late may put its destroyed connection back
  into `_available` (`generic-pool.js:240`): it is in the model, but nobody can be lent
  it any more, and `DestroyedIsGone` is stated for the time before.
* `begin('pragma')` and a transaction object that is begun again.
