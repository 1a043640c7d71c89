--------------------------- MODULE PoolProperties ---------------------------
(***************************************************************************)
(* What makes the pool of generic-pool.js correct.                         *)
(***************************************************************************)
EXTENDS Pool

Pending == {r \in Requests : request[r] = "pending"}

-----------------------------------------------------------------------------
(* Safety                                                                  *)

\* A borrowed connection has one borrower, and the pool neither keeps it as
\* idle nor validates it, whatever release, destroy, eviction, validation,
\* drain and clear do at the same time (_loans against _available).
Exclusive ==
    \A r \in Requests : held[r] # None =>
        /\ held[r] \notin Idle \cup validating
        /\ \A other \in Requests \ {r} : held[other] # held[r]

\* Until the pool drains, what a caller holds is in _loans, so that release
\* and destroy never throw 'Resource not currently part of this pool'.
NoForeignResource ==
    ~draining => \A r \in Requests : held[r] # None => held[r] \in loans

\* Connections in the pool and connections being established together never
\* exceed options.max, although #dispense is entered from many places and
\* `size` counts a settled create twice until its finally() has run.
WithinLimit == Cardinality(all) + creating <= options.max

\* Without acquire timeouts no connection gets lost: each member of _all is
\* idle, lent or being validated, and nothing else is idle before clear().
Conserved ==
    clearing # "destroys" =>
        /\ Idle \cup validating \subseteq all
        /\ ~options.acquireTimeout => all \subseteq Idle \cup validating \cup loans

\* A connection given to #destroy is out of circulation until clear().
DestroyedIsGone ==
    clearing # "destroys" =>
        \A d \in destroys : d[1] \notin all \cup Idle \cup validating \cup loans

\* A continuation is in flight that will call #dispense.
WillDispense ==
    \/ settled > 0
    \/ validating # {}
    \/ \E x \in Resources, c \in {"destroy", "invalid", "resumed"} : <<x, c>> \in destroys

\* When no continuation that would call #dispense is in flight, the pool
\* has done for the waiting requests all it could: nothing idle is kept
\* from them, and there is a creation for each of them unless it is full.
NoLostWakeup ==
    Quiet /\ Pending # {} /\ ~WillDispense =>
        /\ available = <<>>
        /\ Len(queue) <= creating \/ Size >= options.max

\* Every pending request is in the queue, and once: no shift(), retry or
\* failed create may drop a request without settling it.
PendingIsQueued ==
    /\ Pending \subseteq Range(queue)
    /\ IsInjective(queue)

\* Once clear() is at its second allSettled no connection is left in the
\* pool or arrives there, even one whose creation was under way at drain().
ClearedForGood ==
    clearing = "destroys" => all = {} /\ creating + settled = 0

\* A caller that waits has reason to: a connection is being established,
\* validated or replaced, or is lent and will be given back.
NeverStuck ==
    Quiet /\ Pending # {} => creating > 0 \/ WillDispense \/ loans # {}

-----------------------------------------------------------------------------
(* The inductive invariant behind the theorems of PoolProofs.              *)

\* A draining pool has nobody to serve, whichever continuation still runs.
LifeInv ==
    /\ draining => queue = <<>> /\ frames = <<>>
    /\ clearing # "no" => draining
    /\ ClearedForGood

\* A connection is in one place.
PlaceInv ==
    /\ IsInjective(available)
    /\ Idle \cap loans = {} /\ Idle \cap validating = {} /\ loans \cap validating = {}

HeldInv ==
    /\ \A r \in Requests : held[r] # None <=> request[r] = "resolved"
    /\ Exclusive
    /\ NoForeignResource

MemberInv ==
    clearing # "destroys" =>
        /\ Idle \cup validating \cup loans \subseteq all
        /\ ~options.acquireTimeout => all \subseteq Idle \cup validating \cup loans
        /\ \A d \in destroys : d[1] \notin all

QueueInv ==
    /\ PendingIsQueued
    /\ ~options.acquireTimeout => Range(queue) \subseteq Pending

IInv == LifeInv /\ PlaceInv /\ HeldInv /\ MemberInv /\ QueueInv

\* Connections that are destroyed for a caller that calls #dispense then.
Resuming ==
    {x \in Resources : \E c \in {"destroy", "invalid", "resumed"} : <<x, c>> \in destroys}

\* The calls of #dispense that continuations in flight will make.
Due == settled + Cardinality(Resuming)

\* But for n, each idle connection, or else each waiting request, will be seen
\* by a call of #dispense that is due or by a validation.
IdleAreDue(n) ==
    \/ Len(available) <= Due + n
    \/ Len(queue) <= Due + n + Cardinality(validating)

\* An activation of #dispense that has yet to enter its loop takes one.
\* Connections suffice for the requests, unless the pool is full or a place in
\* it is about to be offered again.
WakeInv ==
    /\ \A k \in DOMAIN frames : frames[k].waiting >= 1
    /\ IdleAreDue(IF ~Quiet /\ Top.i = 0 THEN 1 ELSE 0)
    /\ \/ Resuming # {}
       \/ Len(queue) <= Len(available) + creating + settled + Cardinality(validating)
       \/ Size >= options.max

-----------------------------------------------------------------------------
(* Actions                                                                 *)

\* No request is granted a connection while one that waits longer waits on
\* (shift() from the queue by validations that end in any order).
NoOvertaking ==
    [][\A i, j \in 1 .. Len(queue) :
          (/\ i < j
           /\ request[queue[i]] = "pending"
           /\ request[queue[j]] = "pending"
           /\ request'[queue[j]] = "resolved")
          => request'[queue[i]] = "resolved"]_vars

-----------------------------------------------------------------------------
(* Liveness                                                                *)

\* An acquire() that no timer cuts short is settled at last, whatever
\* becomes of the connections that validation, eviction and destroy take.
EveryAcquireSettles ==
    \A r \in Requests : request[r] = "pending" ~> request[r] # "pending"

\* clear() comes to its end, also when creations were under way.
ClearTerminates ==
    clearing = "creates" ~> /\ clearing = "destroys"
                            /\ \A x \in Resources : <<x, "clear">> \notin destroys

-----------------------------------------------------------------------------
(* What the pool implements                                                *)

Contract == INSTANCE PoolContract
            WITH waiting <- Pending, lent <- held,
                 limit <- options.max, closed <- draining

\* The pool, with all its continuations, lends connections exclusively,
\* within its limit, to requests still waiting, and not once it drains.
ImplementsContract == Contract!ContractSpec
=============================================================================
