-------------------------------- MODULE Pool --------------------------------
(***************************************************************************)
(* The built-in connection pool, db-service/lib/common/generic-pool.js.    *)
(*                                                                         *)
(* An action is what the one JavaScript thread runs between two awaits:    *)
(* handlers interleave with the continuations that wait for the driver     *)
(* (create, validate, destroy) and with the timers (acquire timeout,       *)
(* eviction).  The loop of #dispense may call #dispense again: `frames` is *)
(* the stack of its activations, and nothing else happens until it is      *)
(* empty, so that a handler and its dispensing are one piece of code.      *)
(*                                                                         *)
(* Abstracted: time (an armed timer may fire any time), the contents of    *)
(* connections, and PooledResource.state, which nothing reads.             *)
(***************************************************************************)
EXTENDS Naturals, Sequences, FiniteSets, Functions

CONSTANTS Requests,     \* calls of acquire(); one is used again once it is over
          Resources,    \* connections; one is used again once nothing refers to it
          None,         \* no connection
          PoolOptions   \* the option records a pool may be constructed with

ASSUME PoolAssumption ==
    /\ None \notin Resources
    /\ IsFiniteSet(Resources)
    /\ PoolOptions \subseteq
          [min : Nat, max : Nat,
           numTests : Nat,            \* numTestsPerEvictionRun
           testOnBorrow : BOOLEAN,
           acquireTimeout : BOOLEAN,  \* acquireTimeoutMillis is a number >= 0
           eviction : BOOLEAN]        \* evictionRunIntervalMillis > 0
    /\ \A o \in PoolOptions : o.min <= o.max

VARIABLES
    options,     \* this.options
    draining,    \* this._draining
    available,   \* this._available, a Set read in insertion order
    loans,       \* the keys of this._loans
    all,         \* this._all
    creating,    \* members of this._creates that wait for factory.create()
    settled,     \* members of this._creates whose finally() has yet to run
    queue,       \* this._queue
    request,     \* Request.state of the latest request of each caller
    held,        \* the connection a resolved request gave its caller
    validating,  \* connections whose validation #dispense awaits
    destroys,    \* <<x, caller>>: `caller` awaits #destroy(x)
    eviction,    \* the eviction timer, or its handler that runs
    clearing,    \* the allSettled() clear() has come to
    frames       \* activations of #dispense, innermost last

callerVars   == <<request, held>>
resourceVars == <<available, loans, all, validating>>
factoryVars  == <<creating, settled, destroys>>
lifeVars     == <<draining, eviction, clearing>>
vars == <<options, callerVars, resourceVars, factoryVars, lifeVars, queue, frames>>

\* The callers of #destroy; "resumed" is destroy(), or #dispense after a
\* failed validation, past its await and about to call #dispense.
Destroyers == {"destroy", "invalid", "evict", "clear", "resumed"}

TypeOK ==
    /\ options \in PoolOptions
    /\ draining \in BOOLEAN
    /\ available \in Seq(Resources)
    /\ loans \subseteq Resources
    /\ all \subseteq Resources
    /\ creating \in Nat
    /\ settled \in Nat
    /\ queue \in Seq(Requests)
    /\ request \in [Requests -> {"none", "pending", "resolved", "rejected"}]
    /\ held \in [Requests -> Resources \cup {None}]
    /\ validating \subseteq Resources
    /\ destroys \subseteq Resources \X Destroyers
    /\ eviction \in {"off", "armed", "running"}
    /\ clearing \in {"no", "creates", "destroys"}
    /\ frames \in Seq([i : Nat, waiting : Nat])

Init ==
    /\ options \in PoolOptions
    /\ draining = FALSE
    /\ available = <<>> /\ loans = {} /\ all = {} /\ validating = {}
    /\ creating = options.min /\ settled = 0 /\ destroys = {}
    /\ queue = <<>>
    /\ request = [r \in Requests |-> "none"]
    /\ held = [r \in Requests |-> None]
    /\ eviction = IF options.eviction THEN "armed" ELSE "off"
    /\ clearing = "no"
    /\ frames = <<>>

Min2(a, b) == IF a <= b THEN a ELSE b

Idle == Range(available)

\* No handler is running: the next task of the event loop may start.
Quiet == frames = <<>>

\* A timer may fire: the finally() of a create and the resumption after
\* #destroy are microtasks, which are run before the next timer.
TimersTurn ==
    /\ Quiet
    /\ settled = 0
    /\ \A x \in Resources : <<x, "resumed">> \notin destroys

\* get size(); a create that has settled counts twice until its finally()
Size == Cardinality(all) + creating + settled

InUse(x) == \/ x \in all \cup loans \cup validating \cup Idle \cup Range(held)
            \/ \E caller \in Destroyers : <<x, caller>> \in destroys

-----------------------------------------------------------------------------
(* #dispense                                                               *)

\* Mutants of Needed: regardless of the room in the pool; without the test
\* that there is any.
NeededUncapped(waiting, capacity, size) ==
    IF waiting > capacity THEN waiting - capacity ELSE 0

NeededUnguarded(waiting, capacity, size) ==
    IF waiting > capacity THEN Min2(waiting - capacity, options.max - size) ELSE 0

\* How many connections to create for `waiting` requests.
Needed(waiting, capacity, size) ==
    IF waiting > capacity /\ size < options.max
    THEN Min2(waiting - capacity, options.max - size) ELSE 0

\* The call of #dispense that ends a handler, which determined queue',
\* available', all' and settled' before: creates what is missing and enters
\* the loop, on top of the activations `stack`.
Dispense(stack) ==
    LET waiting  == Len(queue')
        creates  == creating + settled'
        capacity == Len(available') + creates
    IN  IF waiting = 0
        THEN creating' = creating /\ frames' = stack
        ELSE /\ creating' = creating + Needed(waiting, capacity, Cardinality(all') + creates)
             /\ frames' = Append(stack, [i |-> 0, waiting |-> waiting])

\* Connection x is lent to request r; `rest` goes on waiting.
Lend(x, r, rest) ==
    /\ queue' = rest
    /\ loans' = loans \cup {x}
    /\ request' = [request EXCEPT ![r] = "resolved"]
    /\ held' = [held EXCEPT ![r] = x]

\* Mutants of Serve: a connection nobody waits for is dropped, and nobody is
\* asked whether they still wait; the youngest request is served.
ServeOrDrop(x, rest, stack) ==
    /\ available' = rest /\ frames' = stack /\ UNCHANGED <<creating, settled, all>>
    /\ \/ queue = <<>> /\ UNCHANGED <<queue, loans, callerVars>>
       \/ queue # <<>> /\ Lend(x, Head(queue), Tail(queue))

ServeYoungest(x, rest, stack) ==
    /\ available' = rest /\ frames' = stack /\ UNCHANGED <<creating, settled, all>>
    /\ queue # <<>>
    /\ Lend(x, queue[Len(queue)], SubSeq(queue, 1, Len(queue) - 1))

\* The inner function dispense(resource) for connection x, which has left
\* _available; `rest` is what is in there.
Serve(x, rest, stack) ==
    /\ UNCHANGED <<settled, all>>
    /\ \/ /\ queue = <<>>
          /\ available' = Append(rest, x)
          /\ frames' = stack /\ UNCHANGED <<queue, creating, loans, callerVars>>
       \/ /\ queue # <<>> /\ request[Head(queue)] = "pending"
          /\ Lend(x, Head(queue), Tail(queue))
          /\ available' = rest /\ frames' = stack /\ UNCHANGED creating
       \/ /\ queue # <<>> /\ request[Head(queue)] # "pending"
          /\ queue' = Tail(queue)
          /\ available' = rest /\ UNCHANGED <<loans, callerVars>>
          /\ Dispense(stack)

Top == frames[Len(frames)]

LoopGoesOn == Top.i < Min2(Len(available), Top.waiting)

\* A turn of the loop: the connection idle longest is taken, which leaves
\* `rest`, and is validated or goes to the request that waits longest.
DispenseLeaving(rest) ==
    /\ ~Quiet
    /\ LoopGoesOn
    /\ LET x     == Head(available)
           stack == [frames EXCEPT ![Len(frames)].i = @ + 1]
       IN  \/ /\ options.testOnBorrow
              /\ validating' = validating \cup {x}
              /\ available' = rest /\ frames' = stack
              /\ UNCHANGED <<queue, creating, settled, all, loans, callerVars>>
           \/ /\ ~options.testOnBorrow
              /\ Serve(x, rest, stack) /\ UNCHANGED validating
    /\ UNCHANGED <<options, destroys, lifeVars>>

\* Mutant of DispenseNext: the connection stays in _available.
DispenseNextKeeping == DispenseLeaving(available)

DispenseNext == DispenseLeaving(Tail(available))

DispenseReturn ==
    /\ ~Quiet
    /\ ~LoopGoesOn
    /\ frames' = SubSeq(frames, 1, Len(frames) - 1)
    /\ UNCHANGED <<options, callerVars, resourceVars, factoryVars, lifeVars, queue>>

-----------------------------------------------------------------------------
(* acquire, release, destroy                                               *)

\* acquire(); a caller asks again only when its last request is over and
\* shift() has taken it from the queue.
Acquire(r) ==
    /\ Quiet
    /\ request[r] \in {"none", "rejected"} /\ r \notin Range(queue)
    /\ ~draining
    /\ request' = [request EXCEPT ![r] = "pending"]
    /\ queue' = Append(queue, r)
    /\ UNCHANGED <<options, held, resourceVars, settled, destroys, lifeVars>>
    /\ Dispense(<<>>)

\* acquire() throws
AcquireWhileDraining(r) ==
    /\ Quiet
    /\ request[r] \in {"none", "rejected"}
    /\ draining
    /\ request' = [request EXCEPT ![r] = "rejected"]
    /\ UNCHANGED <<options, held, resourceVars, factoryVars, lifeVars, queue, frames>>

\* The timer of a Request: it is rejected but stays in _queue.
AcquireTimeout(r) ==
    /\ TimersTurn
    /\ options.acquireTimeout
    /\ request[r] = "pending"
    /\ request' = [request EXCEPT ![r] = "rejected"]
    /\ UNCHANGED <<options, held, resourceVars, factoryVars, lifeVars, queue, frames>>

\* The caller gives its connection up, by one call of release or destroy:
\* DatabaseService.release and .destroy forget it before the call.
GiveUp(r) ==
    /\ Quiet
    /\ request[r] = "resolved"
    /\ request' = [request EXCEPT ![r] = "none"]
    /\ held' = [held EXCEPT ![r] = None]

\* release(); for a connection not in _loans it throws: see NoForeignResource.
Release(r) ==
    /\ GiveUp(r)
    /\ ~draining
    /\ held[r] \in loans
    /\ loans' = loans \ {held[r]}
    /\ available' = Append(available, held[r])
    /\ UNCHANGED <<options, all, validating, settled, destroys, lifeVars, queue>>
    /\ Dispense(<<>>)

\* release() and destroy() of a draining pool return at once.
ReturnWhileDraining(r) ==
    /\ GiveUp(r)
    /\ draining
    /\ UNCHANGED <<options, resourceVars, factoryVars, lifeVars, queue, frames>>

\* #destroy of the connections X up to its await, but for _available, from
\* which only eviction and clear() have anything to delete.
Destroy(X, caller) ==
    /\ all' = all \ X
    /\ loans' = loans \ X
    /\ destroys' = destroys \cup (X \X {caller})

\* destroy() up to its await; it throws as release() does.
DestroyLent(r) ==
    /\ GiveUp(r)
    /\ ~draining
    /\ held[r] \in loans
    /\ Destroy({held[r]}, "destroy")
    /\ UNCHANGED <<options, available, validating, creating, settled, lifeVars, queue, frames>>

\* #destroy after its await: the driver is done, failed, or did not answer
\* within destroyTimeoutMillis.  finally refills the pool to its minimum.
\* The eviction timer is armed again when its run awaits nothing more.
DestroySettled(x, caller) ==
    /\ Quiet
    /\ <<x, caller>> \in destroys /\ caller # "resumed"
    /\ destroys' = (destroys \ {<<x, caller>>}) \cup
                       {<<x, "resumed">> : c \in {caller} \cap {"destroy", "invalid"}}
    /\ creating' = IF ~draining /\ Size < options.min THEN creating + 1 ELSE creating
    /\ eviction' = IF caller = "evict" /\ \A y \in Resources : <<y, "evict">> \notin destroys'
                   THEN "armed" ELSE eviction
    /\ UNCHANGED <<options, callerVars, resourceVars, settled, draining, clearing, queue, frames>>

AfterDestroy(x) ==
    /\ Quiet
    /\ <<x, "resumed">> \in destroys
    /\ destroys' = destroys \ {<<x, "resumed">>}
    /\ UNCHANGED <<options, callerVars, resourceVars, settled, lifeVars, queue>>

\* Mutant of DestroyResumed: the freed place is not offered to who waits.
DestroyResumedSilently(x) == AfterDestroy(x) /\ UNCHANGED <<creating, frames>>

\* destroy(), or #dispense after a failed validation, after await #destroy.
DestroyResumed(x) == AfterDestroy(x) /\ Dispense(<<>>)

-----------------------------------------------------------------------------
(* The answers of the factory                                              *)

CreateSucceeded(x) ==
    /\ Quiet
    /\ creating > 0
    /\ ~InUse(x)
    /\ creating' = creating - 1 /\ settled' = settled + 1
    /\ all' = all \cup {x}
    /\ available' = Append(available, x)
    /\ UNCHANGED <<options, callerVars, loans, validating, destroys, lifeVars, queue, frames>>

CreateFails(newRequest) ==
    /\ Quiet
    /\ creating > 0
    /\ creating' = creating - 1 /\ settled' = settled + 1
    /\ queue' = IF queue = <<>> THEN queue ELSE Tail(queue)
    /\ request' = newRequest
    /\ UNCHANGED <<options, held, resourceVars, destroys, lifeVars, frames>>

\* Mutant of CreateFailed: a request is dropped without an answer.
CreateFailedSilently == CreateFails(request)

\* The error goes to the request that waits longest, if it still waits.
CreateFailed ==
    CreateFails([r \in Requests |->
        IF queue # <<>> /\ r = Head(queue) /\ request[r] = "pending"
        THEN "rejected" ELSE request[r]])

CreateLeaves ==
    /\ Quiet
    /\ settled > 0
    /\ settled' = settled - 1
    /\ UNCHANGED <<options, callerVars, resourceVars, destroys, lifeVars, queue>>

\* Mutant of CreateFinally: no #dispense().
CreateFinallySilently == CreateLeaves /\ UNCHANGED <<creating, frames>>

\* createPromise.finally()
CreateFinally == CreateLeaves /\ Dispense(<<>>)

ValidateSucceeded(x) ==
    /\ Quiet
    /\ x \in validating
    /\ validating' = validating \ {x}
    /\ Serve(x, available, <<>>)
    /\ UNCHANGED <<options, destroys, lifeVars>>

\* factory.validate() said no or threw.
ValidateFailed(x) ==
    /\ Quiet
    /\ x \in validating
    /\ validating' = validating \ {x}
    /\ Destroy({x}, "invalid")
    /\ UNCHANGED <<options, callerVars, available, creating, settled, lifeVars, queue, frames>>

-----------------------------------------------------------------------------
(* Eviction, drain and clear                                               *)

\* The run destroys X and leaves `rest` in _available.
EvictLeaving(X, rest) ==
    /\ TimersTurn
    /\ eviction = "armed"
    /\ Destroy(X, "evict")
    /\ available' = rest
    /\ eviction' = "running"
    /\ UNCHANGED <<options, callerVars, validating, creating, settled, draining,
                   clearing, queue, frames>>

\* Mutants of Evict: it chooses from _all; what it destroys stays available.
EvictFromAll == \E x \in all : EvictLeaving({x}, available)

EvictKeeping ==
    \E n \in 1 .. Min2(options.numTests, Len(available)) :
        EvictLeaving({available[k] : k \in 1 .. n}, available)

\* Of the numTestsPerEvictionRun connections idle longest those idle too
\* long go: a prefix, as _available is in the order of lastIdleTime.
Evict ==
    \E n \in 1 .. Min2(options.numTests, Len(available)) :
        EvictLeaving({available[k] : k \in 1 .. n},
                     SubSeq(available, n + 1, Len(available)))

Drain ==
    /\ Quiet
    /\ ~draining
    /\ draining' = TRUE
    /\ request' = [r \in Requests |->
                      IF r \in Range(queue) /\ request[r] = "pending"
                      THEN "rejected" ELSE request[r]]
    /\ queue' = <<>>
    /\ eviction' = IF eviction = "armed" THEN "off" ELSE eviction
    /\ UNCHANGED <<options, held, resourceVars, factoryVars, clearing, frames>>

\* clear(), which DatabaseService.disconnect calls after drain().
Clear ==
    /\ Quiet
    /\ draining
    /\ clearing = "no"
    /\ clearing' = "creates"
    /\ UNCHANGED <<options, callerVars, resourceVars, factoryVars, draining, eviction,
                   queue, frames>>

\* _available holds members of _all only (Conserved): nothing is left there.
ClearDestroysAll ==
    /\ Quiet
    /\ clearing = "creates"
    /\ clearing' = "destroys"
    /\ Destroy(all, "clear")
    /\ available' = <<>>
    /\ UNCHANGED <<options, callerVars, validating, creating, settled, draining,
                   eviction, queue, frames>>

\* Mutants of ClearDestroys: without the first allSettled; waiting for the
\* lent connections, which a draining pool does not take back.
ClearDestroysAtOnce == ClearDestroysAll

ClearDestroysWhenReturned == creating + settled = 0 /\ loans = {} /\ ClearDestroysAll

\* After the first allSettled and the finally() of each create.
ClearDestroys == creating + settled = 0 /\ ClearDestroysAll

-----------------------------------------------------------------------------

CallerNext(r) ==
    \/ Acquire(r) \/ AcquireWhileDraining(r) \/ AcquireTimeout(r)
    \/ Release(r) \/ ReturnWhileDraining(r) \/ DestroyLent(r)

FactoryNext(x) ==
    \/ CreateSucceeded(x) \/ ValidateSucceeded(x) \/ ValidateFailed(x)
    \/ DestroyResumed(x)
    \/ \E caller \in Destroyers : DestroySettled(x, caller)

Next ==
    \/ \E r \in Requests : CallerNext(r)
    \/ \E x \in Resources : FactoryNext(x)
    \/ CreateFailed \/ CreateFinally
    \/ DispenseNext \/ DispenseReturn
    \/ Evict \/ Drain \/ Clear \/ ClearDestroys

Spec == Init /\ [][Next]_vars

\* What the pool may rely on: the event loop runs every continuation; the
\* driver answers create, validate and destroy at last; a borrower gives its
\* connection back; and validation does not fail for ever.
Fairness ==
    /\ WF_vars(DispenseNext) /\ WF_vars(DispenseReturn)
    /\ WF_vars(CreateFinally) /\ WF_vars(ClearDestroys)
    /\ WF_vars(CreateFailed \/ \E x \in Resources : CreateSucceeded(x))
    /\ \A x \in Resources :
          /\ WF_vars(ValidateSucceeded(x) \/ ValidateFailed(x))
          /\ WF_vars(\E caller \in Destroyers : DestroySettled(x, caller))
          /\ WF_vars(DestroyResumed(x))
    /\ SF_vars(\E x \in Resources : ValidateSucceeded(x))
    /\ \A r \in Requests : WF_vars(Release(r) \/ DestroyLent(r) \/ ReturnWhileDraining(r))

FairSpec == Spec /\ Fairness
=============================================================================
