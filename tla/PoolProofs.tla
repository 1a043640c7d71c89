----------------------------- MODULE PoolProofs -----------------------------
EXTENDS PoolProperties, FiniteSetTheorems, TLAPS

Activation == [i : Nat, waiting : Nat]

LEMMA OptionTypes ==
    ASSUME TypeOK
    PROVE  /\ options.min \in Nat /\ options.max \in Nat /\ options.numTests \in Nat
           /\ options.testOnBorrow \in BOOLEAN /\ options.acquireTimeout \in BOOLEAN
           /\ options.min <= options.max
BY PoolAssumption DEF TypeOK

LEMMA DispenseType ==
    ASSUME TypeOK, NEW stack \in Seq(Activation), Dispense(stack),
           queue' \in Seq(Requests), available' \in Seq(Resources),
           settled' \in Nat, all' \subseteq Resources
    PROVE  creating' \in Nat /\ creating' >= creating /\ frames' \in Seq(Activation)
<1>1. Cardinality(all') \in Nat
  BY FS_Subset, FS_CardinalityType, PoolAssumption
<1>2. creating \in Nat /\ options.max \in Nat
  BY OptionTypes DEF TypeOK
<1>3. Len(queue') \in Nat /\ Len(available') \in Nat
  OBVIOUS
<1>4. [i |-> 0, waiting |-> Len(queue')] \in Activation
  BY <1>3 DEF Activation
<1>5. CASE Len(queue') = 0
  BY <1>2, <1>5 DEF Dispense
<1>6. CASE Len(queue') # 0
  <2> DEFINE creates == creating + settled'
             needed  == Needed(Len(queue'), Len(available') + creates,
                               Cardinality(all') + creates)
  <2>1. needed \in Nat
    BY SMTT(60), <1>1, <1>2, <1>3 DEF Needed, Min2
  <2>2. creating' = creating + needed
        /\ frames' = Append(stack, [i |-> 0, waiting |-> Len(queue')])
    BY <1>6 DEF Dispense
  <2> QED BY SMTT(60), <2>1, <2>2, <1>2, <1>4
<1> QED BY <1>5, <1>6

LEMMA ServeType ==
    ASSUME TypeOK, NEW x \in Resources, NEW rest \in Seq(Resources),
           NEW stack \in Seq(Activation), Serve(x, rest, stack)
    PROVE  /\ queue' \in Seq(Requests)
           /\ available' \in Seq(Resources)
           /\ loans' \subseteq Resources /\ all' \subseteq Resources
           /\ creating' \in Nat /\ settled' \in Nat
           /\ request' \in [Requests -> {"none", "pending", "resolved", "rejected"}]
           /\ held' \in [Requests -> Resources \cup {None}]
           /\ frames' \in Seq(Activation)
<1>1. queue # <<>> => Head(queue) \in Requests /\ Tail(queue) \in Seq(Requests)
  BY DEF TypeOK
<1>2. Append(rest, x) \in Seq(Resources)
  OBVIOUS
<1>3. CASE queue = <<>>
  BY <1>2, <1>3 DEF Serve, TypeOK, callerVars, Lend
<1>4. CASE queue # <<>> /\ request[Head(queue)] = "pending"
  BY <1>1, <1>4 DEF Serve, TypeOK, Lend
<1>5. CASE queue # <<>> /\ request[Head(queue)] # "pending"
  <2>1. Dispense(stack) /\ queue' = Tail(queue) /\ available' = rest
        /\ UNCHANGED <<settled, all, loans, callerVars>>
    BY <1>5 DEF Serve
  <2>2. creating' \in Nat /\ frames' \in Seq(Activation)
    BY <2>1, <1>1, <1>5, DispenseType DEF TypeOK
  <2> QED BY <2>1, <2>2, <1>1, <1>5 DEF TypeOK, callerVars
<1> QED BY <1>3, <1>4, <1>5

\* What the loop of #dispense takes is a connection, and its frames are
\* activations.
LEMMA LoopType ==
    ASSUME TypeOK, ~Quiet
    PROVE  /\ Len(frames) \in Nat \ {0}
           /\ Top \in Activation
           /\ [frames EXCEPT ![Len(frames)].i = @ + 1] \in Seq(Activation)
           /\ SubSeq(frames, 1, Len(frames) - 1) \in Seq(Activation)
           /\ LoopGoesOn => /\ available # <<>>
                            /\ Head(available) \in Resources
                            /\ Tail(available) \in Seq(Resources)
<1>1. frames \in Seq(Activation) /\ Len(frames) \in Nat \ {0}
  BY DEF TypeOK, Quiet, Activation
<1>2. Top \in Activation
  BY <1>1 DEF Top
<1>3. [frames EXCEPT ![Len(frames)].i = @ + 1] \in Seq(Activation)
  <2> DEFINE next == [frames EXCEPT ![Len(frames)].i = @ + 1]
  <2>1. next = [k \in 1 .. Len(frames) |->
                  IF k = Len(frames) THEN [frames[k] EXCEPT !.i = @ + 1] ELSE frames[k]]
    BY SMTT(60), <1>1
  <2>2. \A k \in 1 .. Len(frames) : next[k] \in Activation
    <3> SUFFICES ASSUME NEW k \in 1 .. Len(frames) PROVE next[k] \in Activation
      OBVIOUS
    <3>1. frames[k] \in Activation
      BY <1>1
    <3>2. [frames[k] EXCEPT !.i = @ + 1] \in Activation
      BY <3>1 DEF Activation
    <3> QED BY <2>1, <3>1, <3>2
  <2> QED BY <2>1, <2>2, <1>1
<1>4. SubSeq(frames, 1, Len(frames) - 1) \in Seq(Activation)
  BY <1>1
<1>5. ASSUME LoopGoesOn PROVE available # <<>>
  BY <1>2, <1>5 DEF LoopGoesOn, Min2, Activation, TypeOK
<1> QED BY <1>1, <1>2, <1>3, <1>4, <1>5 DEF TypeOK

\* Each handler, continuation and timer of the pool keeps the types.
LEMMA TypeStep == TypeOK /\ [Next]_vars => TypeOK'
<1> SUFFICES ASSUME TypeOK, [Next]_vars PROVE TypeOK'
  OBVIOUS
<1> USE DEF callerVars, resourceVars, factoryVars, lifeVars
<1>e. <<>> \in Seq(Activation)
  OBVIOUS
<1>1. ASSUME NEW r \in Requests, Acquire(r) PROVE TypeOK'
  <2>1. queue' \in Seq(Requests) /\ Dispense(<<>>)
        /\ UNCHANGED <<options, held, resourceVars, settled, destroys, lifeVars>>
        /\ request' \in [Requests -> {"none", "pending", "resolved", "rejected"}]
    BY <1>1 DEF Acquire, TypeOK
  <2>2. creating' \in Nat /\ frames' \in Seq(Activation)
    BY <2>1, <1>e, DispenseType DEF TypeOK
  <2> QED BY <2>1, <2>2 DEF TypeOK, Activation
<1>2. ASSUME NEW r \in Requests,
             AcquireWhileDraining(r) \/ AcquireTimeout(r) \/ ReturnWhileDraining(r)
      PROVE  TypeOK'
  BY SMTT(60), <1>2 DEF TypeOK, AcquireWhileDraining, AcquireTimeout, ReturnWhileDraining, GiveUp
<1>3. ASSUME NEW r \in Requests, Release(r) PROVE TypeOK'
  <2>1. /\ queue' \in Seq(Requests) /\ Dispense(<<>>)
        /\ UNCHANGED <<options, all, validating, settled, destroys, lifeVars>>
        /\ request' \in [Requests -> {"none", "pending", "resolved", "rejected"}]
        /\ held' \in [Requests -> Resources \cup {None}]
        /\ loans' \subseteq Resources /\ available' \in Seq(Resources)
    BY <1>3 DEF Release, GiveUp, TypeOK
  <2>2. creating' \in Nat /\ frames' \in Seq(Activation)
    BY <2>1, <1>e, DispenseType DEF TypeOK
  <2> QED BY <2>1, <2>2 DEF TypeOK, Activation
<1>4. ASSUME NEW r \in Requests, DestroyLent(r) PROVE TypeOK'
  BY <1>4 DEF TypeOK, DestroyLent, GiveUp, Destroy, Destroyers
<1>5. ASSUME NEW x \in Resources, CreateSucceeded(x) PROVE TypeOK'
  BY <1>5 DEF TypeOK, CreateSucceeded
<1>6. ASSUME NEW x \in Resources, ValidateSucceeded(x) PROVE TypeOK'
  <2>1. Serve(x, available, <<>>) /\ UNCHANGED <<options, destroys, lifeVars>>
        /\ validating' \subseteq Resources
    BY <1>6 DEF ValidateSucceeded, TypeOK
  <2>2. available \in Seq(Resources)
    BY DEF TypeOK
  <2> QED BY <2>1, <2>2, <1>e, ServeType DEF TypeOK, Activation
<1>7. ASSUME NEW x \in Resources, ValidateFailed(x) PROVE TypeOK'
  BY <1>7 DEF TypeOK, ValidateFailed, Destroy, Destroyers
<1>8. ASSUME NEW x \in Resources, DestroyResumed(x) PROVE TypeOK'
  <2>1. Dispense(<<>>) /\ destroys' \subseteq Resources \X Destroyers
        /\ UNCHANGED <<options, callerVars, resourceVars, settled, lifeVars, queue>>
    BY <1>8 DEF DestroyResumed, AfterDestroy, TypeOK
  <2>2. creating' \in Nat /\ frames' \in Seq(Activation)
    BY <2>1, <1>e, DispenseType DEF TypeOK
  <2> QED BY <2>1, <2>2 DEF TypeOK, Activation
<1>9. ASSUME NEW x \in Resources, NEW caller \in Destroyers, DestroySettled(x, caller)
      PROVE  TypeOK'
  BY <1>9 DEF TypeOK, DestroySettled, Destroyers
<1>10. CASE CreateFailed
  BY <1>10 DEF TypeOK, CreateFailed, CreateFails
<1>11. CASE CreateFinally
  <2>1. Dispense(<<>>) /\ settled' \in Nat
        /\ UNCHANGED <<options, callerVars, resourceVars, destroys, lifeVars, queue>>
    BY <1>11 DEF CreateFinally, CreateLeaves, TypeOK
  <2>2. creating' \in Nat /\ frames' \in Seq(Activation)
    BY <2>1, <1>e, DispenseType DEF TypeOK
  <2> QED BY <2>1, <2>2 DEF TypeOK, Activation
<1>12. CASE DispenseNext
  <2> DEFINE x     == Head(available)
             rest  == Tail(available)
             stack == [frames EXCEPT ![Len(frames)].i = @ + 1]
  <2>1. x \in Resources /\ rest \in Seq(Resources) /\ stack \in Seq(Activation)
    BY <1>12, LoopType DEF DispenseNext, DispenseLeaving
  <2>2. CASE options.testOnBorrow
    BY <1>12, <2>1, <2>2 DEF DispenseNext, DispenseLeaving, TypeOK, Activation
  <2>3. CASE ~options.testOnBorrow
    <3>1. Serve(x, rest, stack) /\ UNCHANGED <<options, validating, destroys, lifeVars>>
      BY <1>12, <2>3 DEF DispenseNext, DispenseLeaving
    <3> HIDE DEF x, rest, stack
    <3> QED BY <3>1, <2>1, ServeType DEF TypeOK, Activation
  <2> QED BY <2>2, <2>3
<1>13. CASE DispenseReturn
  BY <1>13, LoopType DEF DispenseReturn, TypeOK, Activation
<1>14. CASE Evict
  <2>1. PICK n \in 1 .. Min2(options.numTests, Len(available)) :
           EvictLeaving({available[k] : k \in 1 .. n},
                        SubSeq(available, n + 1, Len(available)))
    BY <1>14 DEF Evict
  <2>2. n \in 1 .. Len(available)
    BY <2>1, OptionTypes DEF Min2, TypeOK
  <2>3. {available[k] : k \in 1 .. n} \subseteq Resources
        /\ SubSeq(available, n + 1, Len(available)) \in Seq(Resources)
    BY <2>2 DEF TypeOK
  <2> DEFINE X == {available[k] : k \in 1 .. n}
             rest == SubSeq(available, n + 1, Len(available))
  <2>4. X \X {"evict"} \subseteq Resources \X Destroyers
    BY <2>3 DEF Destroyers
  <2>5. EvictLeaving(X, rest) /\ X \subseteq Resources /\ rest \in Seq(Resources)
    BY <2>1, <2>3
  <2> HIDE DEF X, rest
  <2>6. /\ all' = all \ X /\ loans' = loans \ X /\ available' = rest
        /\ destroys' = destroys \cup (X \X {"evict"})
        /\ eviction' = "running"
        /\ UNCHANGED <<options, callerVars, validating, creating, settled, draining,
                       clearing, queue, frames>>
    BY <2>5 DEF EvictLeaving, Destroy
  <2>7. destroys' \subseteq Resources \X Destroyers
    BY <2>4, <2>6 DEF TypeOK
  <2> QED BY <2>5, <2>6, <2>7 DEF TypeOK
<1>15. CASE Drain
  <2>1. /\ draining' = TRUE /\ queue' = <<>>
        /\ eviction' = IF eviction = "armed" THEN "off" ELSE eviction
        /\ UNCHANGED <<options, held, resourceVars, factoryVars, clearing, frames>>
    BY <1>15 DEF Drain
  <2>2. request' \in [Requests -> {"none", "pending", "resolved", "rejected"}]
    BY <1>15 DEF Drain, TypeOK
  <2> QED BY <2>1, <2>2 DEF TypeOK
<1>16. CASE ClearDestroys
  BY <1>16 DEF TypeOK, ClearDestroys, ClearDestroysAll, Destroy, Destroyers
<1>17. CASE Clear \/ UNCHANGED vars
  BY <1>17 DEF TypeOK, Clear, vars
<1> QED
  BY <1>1, <1>2, <1>3, <1>4, <1>5, <1>6, <1>7, <1>8, <1>9, <1>10, <1>11, <1>12,
     <1>13, <1>14, <1>15, <1>16, <1>17 DEF Next, CallerNext, FactoryNext

LEMMA TypeInit == Init => TypeOK
<1> SUFFICES ASSUME Init PROVE TypeOK
  OBVIOUS
<1>1. options \in PoolOptions /\ options.min \in Nat
  BY PoolAssumption DEF Init
<1>2. available \in Seq(Resources) /\ queue \in Seq(Requests)
      /\ frames \in Seq([i : Nat, waiting : Nat])
  BY DEF Init
<1> QED BY <1>1, <1>2 DEF Init, TypeOK

\* The variables keep their types, in each step of each handler,
\* continuation and timer of the pool.
THEOREM TypeCorrect == Spec => []TypeOK
BY TypeInit, TypeStep, PTL DEF Spec

-----------------------------------------------------------------------------
(* What the operations on _available and _queue do to the set of members.  *)

LEMMA AppendMembers ==
    ASSUME NEW S, NEW s \in Seq(S), NEW e \in S
    PROVE  /\ Append(s, e) \in Seq(S)
           /\ Range(Append(s, e)) = Range(s) \cup {e}
           /\ IsInjective(s) /\ e \notin Range(s) => IsInjective(Append(s, e))
<1> DEFINE t == Append(s, e)
<1>1. t \in Seq(S) /\ Len(t) = Len(s) + 1 /\ t[Len(s) + 1] = e
      /\ (\A k \in 1 .. Len(s) : t[k] = s[k]) /\ Len(s) \in Nat
  OBVIOUS
<1>2. DOMAIN t = 1 .. Len(t) /\ DOMAIN s = 1 .. Len(s)
  BY <1>1
<1> HIDE DEF t
<1>3. Range(t) = Range(s) \cup {e}
  <2>1. ASSUME NEW y \in Range(t) PROVE y \in Range(s) \cup {e}
    <3>1. PICK k \in 1 .. Len(t) : t[k] = y
      BY <2>1, <1>2 DEF Range
    <3>2. k \in 1 .. Len(s) \/ k = Len(s) + 1
      BY <1>1
    <3> QED BY <3>1, <3>2, <1>1, <1>2 DEF Range
  <2>2. ASSUME NEW y \in Range(s) PROVE y \in Range(t)
    <3>1. PICK k \in 1 .. Len(s) : s[k] = y
      BY <2>2, <1>2 DEF Range
    <3>2. k \in 1 .. Len(t) /\ t[k] = y
      BY <3>1, <1>1
    <3> QED BY <3>2, <1>2 DEF Range
  <2>3. e \in Range(t)
    <3>1. Len(s) + 1 \in 1 .. Len(t)
      BY <1>1
    <3> QED BY <3>1, <1>1, <1>2 DEF Range
  <2> QED BY <2>1, <2>2, <2>3
<1>4. ASSUME IsInjective(s), e \notin Range(s), NEW i \in 1 .. Len(t), NEW j \in 1 .. Len(t),
             t[i] = t[j]
      PROVE  i = j
  <2>1. \A k \in 1 .. Len(s) : s[k] # e
    BY <1>4, <1>2 DEF Range
  <2>2. CASE i \in 1 .. Len(s) /\ j \in 1 .. Len(s)
    BY <2>2, <1>4, <1>1, <1>2 DEF IsInjective
  <2>3. CASE i \notin 1 .. Len(s) \/ j \notin 1 .. Len(s)
    BY <2>1, <2>3, <1>1, <1>4
  <2> QED BY <2>2, <2>3
<1> QED BY <1>1, <1>2, <1>3, <1>4 DEF IsInjective, t

\* What is left when the first n are taken away (shift, the eviction of a
\* prefix).
LEMMA SuffixMembers ==
    ASSUME NEW S, NEW s \in Seq(S), NEW n \in 0 .. Len(s)
    PROVE  /\ SubSeq(s, n + 1, Len(s)) \in Seq(S)
           /\ Range(s) = {s[k] : k \in 1 .. n} \cup Range(SubSeq(s, n + 1, Len(s)))
           /\ IsInjective(s) =>
                 /\ IsInjective(SubSeq(s, n + 1, Len(s)))
                 /\ {s[k] : k \in 1 .. n} \cap Range(SubSeq(s, n + 1, Len(s))) = {}
<1> DEFINE rest  == SubSeq(s, n + 1, Len(s))
           taken == {s[k] : k \in 1 .. n}
<1>1. /\ rest \in Seq(S) /\ Len(rest) = Len(s) - n /\ Len(s) \in Nat /\ n \in Nat
      /\ \A k \in 1 .. Len(s) - n : rest[k] = s[n + k]
  OBVIOUS
<1>2. DOMAIN rest = 1 .. Len(s) - n /\ DOMAIN s = 1 .. Len(s)
  BY <1>1
<1> HIDE DEF rest
<1>3. Range(s) = taken \cup Range(rest)
  <2>1. ASSUME NEW y \in Range(s) PROVE y \in taken \cup Range(rest)
    <3>1. PICK k \in 1 .. Len(s) : s[k] = y
      BY <2>1, <1>2 DEF Range
    <3>2. CASE k \in 1 .. n
      BY <3>1, <3>2
    <3>3. CASE k \notin 1 .. n
      <4>1. k - n \in 1 .. Len(s) - n /\ n + (k - n) = k
        BY <3>1, <3>3, <1>1
      <4>2. rest[k - n] = y
        BY <4>1, <3>1, <1>1
      <4> QED BY <4>1, <4>2, <1>2 DEF Range
    <3> QED BY <3>2, <3>3
  <2>2. ASSUME NEW k \in 1 .. n PROVE s[k] \in Range(s)
    <3>1. k \in 1 .. Len(s)
      BY <1>1
    <3> QED BY <3>1, <1>2 DEF Range
  <2>3. ASSUME NEW y \in Range(rest) PROVE y \in Range(s)
    <3>1. PICK k \in 1 .. Len(s) - n : rest[k] = y
      BY <2>3, <1>2 DEF Range
    <3>2. n + k \in 1 .. Len(s) /\ s[n + k] = y
      BY <3>1, <1>1
    <3> QED BY <3>2, <1>2 DEF Range
  <2> QED BY <2>1, <2>2, <2>3
<1>4. ASSUME IsInjective(s) PROVE IsInjective(rest) /\ taken \cap Range(rest) = {}
  <2>1. ASSUME NEW i \in 1 .. Len(s) - n, NEW j \in 1 .. Len(s) - n, rest[i] = rest[j]
        PROVE  i = j
    <3>1. n + i \in 1 .. Len(s) /\ n + j \in 1 .. Len(s) /\ s[n + i] = s[n + j]
      BY <2>1, <1>1
    <3>2. n + i = n + j
      BY <3>1, <1>4, <1>2 DEF IsInjective
    <3> QED BY <3>2, <1>1
  <2>2. ASSUME NEW i \in 1 .. n, NEW j \in 1 .. Len(s) - n, s[i] = rest[j] PROVE FALSE
    <3>1. i \in 1 .. Len(s) /\ n + j \in 1 .. Len(s) /\ s[i] = s[n + j]
      BY <2>2, <1>1
    <3>2. i = n + j
      BY <3>1, <1>4, <1>2 DEF IsInjective
    <3> QED BY <3>2, <2>2, <1>1
  <2> QED BY <2>1, <2>2, <1>2 DEF IsInjective, Range
<1> QED BY <1>1, <1>3, <1>4 DEF rest

LEMMA TailMembers ==
    ASSUME NEW S, NEW s \in Seq(S), s # <<>>
    PROVE  /\ Head(s) \in S /\ Tail(s) \in Seq(S)
           /\ Range(s) = {Head(s)} \cup Range(Tail(s))
           /\ IsInjective(s) => IsInjective(Tail(s)) /\ Head(s) \notin Range(Tail(s))
<1>1. Tail(s) = SubSeq(s, 2, Len(s)) /\ Head(s) = s[1] /\ 1 \in 0 .. Len(s) /\ Head(s) \in S
  OBVIOUS
<1>2. {s[k] : k \in 1 .. 1} = {Head(s)}
  BY <1>1
<1>3. /\ SubSeq(s, 1 + 1, Len(s)) \in Seq(S)
      /\ Range(s) = {s[k] : k \in 1 .. 1} \cup Range(SubSeq(s, 1 + 1, Len(s)))
      /\ IsInjective(s) =>
            /\ IsInjective(SubSeq(s, 1 + 1, Len(s)))
            /\ {s[k] : k \in 1 .. 1} \cap Range(SubSeq(s, 1 + 1, Len(s))) = {}
  BY <1>1, SuffixMembers
<1>4. Tail(s) = SubSeq(s, 1 + 1, Len(s))
  BY <1>1
<1> HIDE DEF IsInjective
<1> QED BY <1>1, <1>2, <1>3, <1>4

-----------------------------------------------------------------------------
(* The inductive invariant                                                 *)

\* #dispense() does nothing when nobody waits, as after drain().
LEMMA DispenseNobody ==
    ASSUME NEW stack, Dispense(stack), queue' = <<>>
    PROVE  creating' = creating /\ frames' = stack
BY DEF Dispense

\* dispense(resource), whichever of its callers took x out of circulation:
\* the loop from _available, or a validation from its own hands.
LEMMA ServeInv ==
    ASSUME TypeOK, IInv,
           NEW x \in Resources, NEW rest \in Seq(Resources), NEW stack,
           Serve(x, rest, stack), UNCHANGED <<options, destroys, lifeVars>>,
           IsInjective(rest),
           x \notin Range(rest) \cup validating',
           Range(rest) \cap validating' = {},
           Range(rest) \cup validating' \cup {x} = Idle \cup validating,
           draining => stack = <<>>
    PROVE  IInv'
<1> USE DEF lifeVars, callerVars
<1>1. /\ all' = all /\ settled' = settled
      /\ x \notin loans /\ (\A r \in Requests : held[r] # x)
      /\ x \in Resources /\ x # None
  BY PoolAssumption DEF Serve, IInv, PlaceInv, HeldInv, Exclusive
<1>2. Range(rest) \subseteq Idle \cup validating /\ validating' \subseteq Idle \cup validating
  OBVIOUS
<1>3. CASE queue = <<>>
  <2>1. /\ available' = Append(rest, x) /\ frames' = stack
        /\ UNCHANGED <<queue, creating, loans, request, held>>
    BY <1>3 DEF Serve, Lend
  <2>2. Idle' = Range(rest) \cup {x} /\ IsInjective(available')
    BY <2>1, AppendMembers DEF Idle
  <2>3. LifeInv'
    BY <2>1, <1>1 DEF IInv, LifeInv, ClearedForGood
  <2>4. PlaceInv'
    BY <2>1, <2>2, <1>1, <1>2 DEF IInv, PlaceInv
  <2>5. HeldInv'
    BY <2>1, <2>2, <1>1, <1>2 DEF IInv, HeldInv, Exclusive, NoForeignResource
  <2>6. MemberInv'
    BY <2>1, <2>2, <1>1, <1>2 DEF IInv, MemberInv
  <2>7. QueueInv'
    BY <2>1 DEF IInv, QueueInv, PendingIsQueued, Pending
  <2> QED BY <2>3, <2>4, <2>5, <2>6, <2>7 DEF IInv
<1>4. CASE queue # <<>>
  <2>0. ~draining /\ clearing = "no" /\ clearing # "destroys"
    BY <1>4 DEF IInv, LifeInv
  <2>1. queue' = Tail(queue) /\ available' = rest
    BY <1>4 DEF Serve, Lend
  <2> DEFINE r0 == Head(queue)
  <2>2. r0 \in Requests /\ Range(queue) = {r0} \cup Range(queue')
        /\ r0 \notin Range(queue') /\ IsInjective(queue')
    BY <1>4, <2>1, TailMembers DEF TypeOK, IInv, QueueInv, PendingIsQueued
  <2>3. Idle' = Range(rest)
    BY <2>1 DEF Idle
  <2>4. LifeInv'
    BY <2>0 DEF LifeInv, ClearedForGood
  <2> HIDE DEF r0
  <2>5. CASE request[r0] = "pending"
    <3>1. /\ loans' = loans \cup {x}
          /\ request' = [request EXCEPT ![r0] = "resolved"]
          /\ held' = [held EXCEPT ![r0] = x]
      BY <1>4, <2>5 DEF Serve, Lend, r0
    <3>2. /\ request'[r0] = "resolved" /\ held'[r0] = x /\ held[r0] = None
          /\ \A r \in Requests : r # r0 => request'[r] = request[r] /\ held'[r] = held[r]
      BY <3>1, <2>2, <2>5 DEF TypeOK, IInv, HeldInv
    <3>3. PlaceInv'
      BY <3>1, <2>1, <2>3, <1>1, <1>2 DEF IInv, PlaceInv
    <3>4. HeldInv'
      <4>1. \A r \in Requests : held'[r] # None <=> request'[r] = "resolved"
        BY <3>2, <1>1 DEF IInv, HeldInv
      <4>2. Exclusive'
        BY <3>2, <2>3, <1>1, <1>2 DEF IInv, HeldInv, Exclusive
      <4>3. NoForeignResource'
        BY <3>1, <3>2, <2>0 DEF IInv, HeldInv, NoForeignResource
      <4> QED BY <4>1, <4>2, <4>3 DEF HeldInv
    <3>5. MemberInv'
      BY <3>1, <2>0, <2>3, <1>1, <1>2 DEF IInv, MemberInv
    <3>6. Pending' = Pending \ {r0}
      BY <3>2 DEF Pending
    <3>7. QueueInv'
      BY <3>6, <2>2 DEF IInv, QueueInv, PendingIsQueued
    <3> QED BY <2>4, <3>3, <3>4, <3>5, <3>7 DEF IInv
  <2>6. CASE request[r0] # "pending"
    <3>1. UNCHANGED <<loans, request, held>>
      BY <1>4, <2>6 DEF Serve, r0
    <3>2. r0 \notin Pending /\ Pending' = Pending
      BY <2>6, <3>1 DEF Pending
    <3>3. options.acquireTimeout
      BY <3>2, <2>2, OptionTypes DEF IInv, QueueInv
    <3>4. PlaceInv'
      BY <3>1, <2>1, <2>3, <1>1, <1>2 DEF IInv, PlaceInv
    <3>5. HeldInv'
      BY <3>1, <2>3, <1>1, <1>2 DEF IInv, HeldInv, Exclusive, NoForeignResource
    <3>6. MemberInv'
      BY <3>1, <3>3, <2>0, <2>3, <1>1, <1>2 DEF IInv, MemberInv
    <3>7. QueueInv'
      BY <3>2, <3>3, <2>2 DEF IInv, QueueInv, PendingIsQueued
    <3> QED BY <2>4, <3>4, <3>5, <3>6, <3>7 DEF IInv
  <2> QED BY <2>5, <2>6
<1> QED BY <1>3, <1>4

\* Connections X go to #destroy from circulation: from `taken` of it.
LEMMA DestroyInv ==
    ASSUME TypeOK, IInv, NEW X \in SUBSET Resources, NEW caller \in Destroyers,
           Destroy(X, caller), UNCHANGED <<options, draining, clearing, queue>>,
           clearing # "destroys",
           IsInjective(available'),
           Idle' \cup validating' = (Idle \cup validating) \ X,
           Idle' \cap validating' = {},
           Idle' \subseteq Idle
    PROVE  PlaceInv' /\ MemberInv'
<1>1. all' = all \ X /\ loans' = loans \ X
      /\ destroys' = destroys \cup (X \X {caller})
  BY DEF Destroy
<1>2. \A d \in destroys' : d[1] \in X \/ d \in destroys
  BY <1>1
<1>3. PlaceInv'
  BY <1>1 DEF IInv, PlaceInv
<1>4. MemberInv'
  BY <1>1, <1>2 DEF IInv, MemberInv
<1> QED BY <1>3, <1>4

\* No handler, continuation or timer breaks the invariant.
LEMMA InvStep == TypeOK /\ IInv /\ [Next]_vars => IInv'
<1> SUFFICES ASSUME TypeOK, IInv, [Next]_vars PROVE IInv'
  OBVIOUS
<1> USE DEF callerVars, resourceVars, factoryVars, lifeVars
<1>1. ASSUME NEW r \in Requests, Acquire(r) PROVE IInv'
  <2>1. /\ ~draining /\ clearing = "no" /\ clearing # "destroys"
        /\ r \notin Range(queue) /\ request[r] # "resolved"
        /\ request' = [request EXCEPT ![r] = "pending"]
        /\ queue' = Append(queue, r)
        /\ UNCHANGED <<options, held, resourceVars, settled, destroys, lifeVars>>
    BY <1>1 DEF Acquire, IInv, LifeInv
  <2>2. Range(queue') = Range(queue) \cup {r} /\ IsInjective(queue')
    BY <2>1, AppendMembers DEF TypeOK, IInv, QueueInv, PendingIsQueued
  <2>3. /\ request'[r] = "pending"
        /\ \A q \in Requests : q # r => request'[q] = request[q]
    BY <2>1 DEF TypeOK
  <2>4. Pending' = Pending \cup {r}
    BY <2>3 DEF Pending
  <2>5. LifeInv' /\ PlaceInv' /\ MemberInv'
    BY <2>1 DEF IInv, LifeInv, ClearedForGood, PlaceInv, MemberInv, Idle
  <2>6. HeldInv'
    BY <2>1, <2>3 DEF IInv, HeldInv, Exclusive, NoForeignResource, Idle
  <2>7. QueueInv'
    BY <2>1, <2>2, <2>4 DEF IInv, QueueInv, PendingIsQueued
  <2> QED BY <2>5, <2>6, <2>7 DEF IInv
<1>2. ASSUME NEW r \in Requests, AcquireWhileDraining(r) \/ AcquireTimeout(r) PROVE IInv'
  <2>1. /\ draining \/ options.acquireTimeout
        /\ request[r] # "resolved"
        /\ request' = [request EXCEPT ![r] = "rejected"]
        /\ UNCHANGED <<options, held, resourceVars, factoryVars, lifeVars, queue, frames>>
    BY <1>2 DEF AcquireWhileDraining, AcquireTimeout
  <2>2. /\ request'[r] = "rejected"
        /\ \A q \in Requests : q # r => request'[q] = request[q]
    BY <2>1 DEF TypeOK
  <2>3. LifeInv' /\ PlaceInv' /\ MemberInv'
    BY <2>1 DEF IInv, LifeInv, ClearedForGood, PlaceInv, MemberInv, Idle
  <2>4. HeldInv'
    BY <2>1, <2>2 DEF IInv, HeldInv, Exclusive, NoForeignResource, Idle
  <2>5. Pending' = Pending \ {r}
    BY <2>2 DEF Pending
  <2>6. Range(<<>>) = {}
    BY DEF Range
  <2>7. QueueInv'
    BY <2>1, <2>5, <2>6 DEF IInv, QueueInv, PendingIsQueued, LifeInv
  <2> QED BY <2>3, <2>4, <2>7 DEF IInv
<1>3. ASSUME NEW r \in Requests, Release(r) \/ ReturnWhileDraining(r) \/ DestroyLent(r)
      PROVE  IInv'
  <2> DEFINE x == held[r]
  <2>1. /\ request[r] = "resolved" /\ x # None /\ x \in Resources
        /\ request' = [request EXCEPT ![r] = "none"]
        /\ held' = [held EXCEPT ![r] = None]
        /\ UNCHANGED <<options, validating, settled, lifeVars, queue>>
    BY <1>3 DEF Release, ReturnWhileDraining, DestroyLent, GiveUp, TypeOK, IInv, HeldInv
  <2>2. /\ request'[r] = "none" /\ held'[r] = None
        /\ \A q \in Requests : q # r => request'[q] = request[q] /\ held'[q] = held[q]
    BY <2>1 DEF TypeOK
  <2>3. x \notin Idle \cup validating /\ \A q \in Requests : q # r => held[q] # x
    BY <2>1 DEF IInv, HeldInv, Exclusive
  <2>4. Pending' = Pending
    BY <2>1, <2>2 DEF Pending
  <2>5. QueueInv'
    BY <2>1, <2>4 DEF IInv, QueueInv, PendingIsQueued
  <2> HIDE DEF x
  <2>6. CASE Release(r)
    <3>1. /\ ~draining /\ clearing # "destroys" /\ clearing = "no"
          /\ x \in loans /\ loans' = loans \ {x}
          /\ available' = Append(available, x)
          /\ UNCHANGED <<all, destroys>>
      BY <2>6 DEF Release, x, IInv, LifeInv
    <3>2. Idle' = Idle \cup {x} /\ IsInjective(available')
      BY <3>1, <2>1, <2>3, AppendMembers DEF TypeOK, Idle, IInv, PlaceInv
    <3>3. LifeInv'
      BY <3>1, <2>1 DEF LifeInv, ClearedForGood
    <3>4. PlaceInv'
      BY <3>1, <3>2, <2>1, <2>3 DEF IInv, PlaceInv
    <3>5. HeldInv'
      BY <3>1, <3>2, <2>1, <2>2, <2>3 DEF IInv, HeldInv, Exclusive, NoForeignResource
    <3>6. MemberInv'
      BY <3>1, <3>2, <2>1 DEF IInv, MemberInv
    <3> QED BY <3>3, <3>4, <3>5, <3>6, <2>5 DEF IInv
  <2>7. CASE ReturnWhileDraining(r)
    <3>1. draining /\ UNCHANGED <<available, loans, all, creating, destroys, frames>>
      BY <2>7 DEF ReturnWhileDraining
    <3>2. LifeInv' /\ PlaceInv' /\ MemberInv'
      BY <3>1, <2>1 DEF IInv, LifeInv, ClearedForGood, PlaceInv, MemberInv, Idle
    <3>3. HeldInv'
      BY <3>1, <2>1, <2>2 DEF IInv, HeldInv, Exclusive, NoForeignResource, Idle
    <3> QED BY <3>2, <3>3, <2>5 DEF IInv
  <2>8. CASE DestroyLent(r)
    <3>1. /\ ~draining /\ clearing # "destroys" /\ clearing = "no"
          /\ Destroy({x}, "destroy") /\ loans' = loans \ {x}
          /\ UNCHANGED <<available, creating, frames>>
      BY <2>8 DEF DestroyLent, x, IInv, LifeInv, Destroy
    <3>2. Idle' = Idle /\ IsInjective(available') /\ "destroy" \in Destroyers
      BY <3>1 DEF Idle, IInv, PlaceInv, Destroyers
    <3>3. PlaceInv' /\ MemberInv'
      <4>1. Idle' \cup validating' = (Idle \cup validating) \ {x} /\ {x} \in SUBSET Resources
        BY <3>2, <2>1, <2>3
      <4>2. Idle' \cap validating' = {}
        BY <3>2, <2>1 DEF IInv, PlaceInv
      <4> QED BY <3>1, <3>2, <2>1, <4>1, <4>2, DestroyInv
    <3>4. LifeInv'
      BY <3>1, <2>1 DEF LifeInv, ClearedForGood
    <3>5. HeldInv'
      BY <3>1, <3>2, <2>1, <2>2, <2>3 DEF IInv, HeldInv, Exclusive, NoForeignResource
    <3> QED BY <3>3, <3>4, <3>5, <2>5 DEF IInv
  <2> QED BY <1>3, <2>6, <2>7, <2>8
<1>4. ASSUME NEW x \in Resources, CreateSucceeded(x) PROVE IInv'
  <2>1. /\ clearing # "destroys" /\ creating > 0
        /\ all' = all \cup {x} /\ available' = Append(available, x)
        /\ UNCHANGED <<options, callerVars, loans, validating, destroys, lifeVars, queue, frames>>
    BY <1>4 DEF CreateSucceeded, IInv, LifeInv, ClearedForGood, TypeOK
  <2>2. /\ x \notin all \cup loans \cup validating \cup Idle
        /\ \A r \in Requests : held[r] # x
        /\ \A d \in destroys : d[1] # x
    <3>1. ~InUse(x)
      BY <1>4 DEF CreateSucceeded
    <3>2. ASSUME NEW r \in Requests PROVE held[r] # x
      BY <3>1 DEF InUse, Range, TypeOK
    <3>3. ASSUME NEW d \in destroys PROVE d[1] # x
      <4>1. d = <<d[1], d[2]>> /\ d[2] \in Destroyers
        BY DEF TypeOK
      <4> QED BY <4>1, <3>1 DEF InUse
    <3> QED BY <3>1, <3>2, <3>3 DEF InUse
  <2>3. Idle' = Idle \cup {x} /\ IsInjective(available')
    BY <2>1, <2>2, AppendMembers DEF TypeOK, Idle, IInv, PlaceInv
  <2>4. LifeInv'
    BY <2>1 DEF IInv, LifeInv, ClearedForGood
  <2>5. PlaceInv'
    BY <2>1, <2>2, <2>3 DEF IInv, PlaceInv
  <2>6. HeldInv'
    BY <2>1, <2>2, <2>3 DEF IInv, HeldInv, Exclusive, NoForeignResource
  <2>7. MemberInv'
    BY <2>1, <2>2, <2>3 DEF IInv, MemberInv
  <2>8. QueueInv'
    BY <2>1 DEF IInv, QueueInv, PendingIsQueued, Pending
  <2> QED BY <2>4, <2>5, <2>6, <2>7, <2>8 DEF IInv
<1>5. ASSUME NEW x \in Resources, ValidateSucceeded(x) PROVE IInv'
  <2>1. /\ Serve(x, available, <<>>) /\ UNCHANGED <<options, destroys, lifeVars>>
        /\ x \in validating /\ validating' = validating \ {x}
    BY <1>5 DEF ValidateSucceeded
  <2>2. /\ available \in Seq(Resources) /\ IsInjective(available)
        /\ x \notin Idle \cup validating' /\ Idle \cap validating' = {}
        /\ Idle \cup validating' \cup {x} = Idle \cup validating
    BY <2>1 DEF TypeOK, IInv, PlaceInv
  <2>3. available \in Seq(Resources) /\ Range(available) = Idle
    BY DEF TypeOK, Idle
  <2> QED BY <2>1, <2>2, <2>3, ServeInv
<1>6. ASSUME NEW x \in Resources, ValidateFailed(x) PROVE IInv'
  <2>1. /\ x \in validating /\ validating' = validating \ {x}
        /\ Destroy({x}, "invalid") /\ loans' = loans \ {x} /\ all' = all \ {x}
        /\ UNCHANGED <<options, callerVars, available, creating, settled, lifeVars, queue, frames>>
    BY <1>6 DEF ValidateFailed, Destroy
  <2>2. /\ Idle' = Idle /\ IsInjective(available') /\ "invalid" \in Destroyers
        /\ x \notin Idle \cup loans /\ \A r \in Requests : held[r] # x
    BY <2>1, PoolAssumption DEF Idle, IInv, PlaceInv, HeldInv, Exclusive, Destroyers
  <2>3. LifeInv'
    BY <2>1 DEF IInv, LifeInv, ClearedForGood
  <2>4. HeldInv'
    BY <2>1, <2>2 DEF IInv, HeldInv, Exclusive, NoForeignResource
  <2>5. PlaceInv'
    BY <2>1, <2>2 DEF IInv, PlaceInv
  <2>6. MemberInv'
    <3>1. CASE clearing # "destroys"
      <4>1. Idle' \cup validating' = (Idle \cup validating) \ {x} /\ {x} \in SUBSET Resources
            /\ Idle' \cap validating' = {} /\ Idle' \subseteq Idle
        BY <2>1, <2>2 DEF IInv, PlaceInv
      <4> QED BY <3>1, <4>1, <2>1, <2>2, DestroyInv
    <3>2. CASE clearing = "destroys"
      BY <3>2, <2>1 DEF MemberInv
    <3> QED BY <3>1, <3>2
  <2>7. QueueInv'
    BY <2>1 DEF IInv, QueueInv, PendingIsQueued, Pending
  <2> QED BY <2>3, <2>4, <2>5, <2>6, <2>7 DEF IInv
<1>7. ASSUME NEW x, NEW caller,
             DestroyResumed(x) \/ DestroySettled(x, caller) \/ CreateFinally
      PROVE  IInv'
  <2>1. /\ \A d \in destroys' : d \in destroys \/ (d[1] = x /\ <<x, caller>> \in destroys)
        /\ UNCHANGED <<options, callerVars, resourceVars, draining, clearing, queue>>
    BY <1>7 DEF DestroyResumed, AfterDestroy, DestroySettled, CreateFinally, CreateLeaves
  <2>2. LifeInv'
    <3>1. CASE DestroySettled(x, caller)
      BY <3>1, <2>1 DEF DestroySettled, IInv, LifeInv, ClearedForGood
    <3>2. CASE DestroyResumed(x)
      <4>1. settled' = settled /\ Dispense(<<>>)
        BY <3>2 DEF DestroyResumed, AfterDestroy
      <4>2. draining => creating' = creating /\ frames' = <<>>
        BY <4>1, <2>1, DispenseNobody DEF IInv, LifeInv
      <4> QED BY <4>1, <4>2, <2>1 DEF IInv, LifeInv, ClearedForGood
    <3>3. CASE CreateFinally
      <4>1. settled > 0 /\ settled' = settled - 1 /\ Dispense(<<>>)
        BY <3>3 DEF CreateFinally, CreateLeaves
      <4>2. draining => creating' = creating /\ frames' = <<>>
        BY <4>1, <2>1, DispenseNobody DEF IInv, LifeInv
      <4>3. clearing # "destroys"
        BY <4>1 DEF IInv, LifeInv, ClearedForGood, TypeOK
      <4> QED BY <4>2, <4>3, <2>1 DEF IInv, LifeInv, ClearedForGood
    <3> QED BY <1>7, <3>1, <3>2, <3>3
  <2>3. PlaceInv' /\ HeldInv' /\ QueueInv'
    BY <2>1 DEF IInv, PlaceInv, HeldInv, Exclusive, NoForeignResource, Idle, QueueInv,
                PendingIsQueued, Pending
  <2>4. MemberInv'
    BY <2>1 DEF IInv, MemberInv, Idle
  <2> QED BY <2>2, <2>3, <2>4 DEF IInv
<1>8. CASE CreateFailed
  <2>1. /\ creating > 0 /\ creating' = creating - 1 /\ settled' = settled + 1
        /\ queue' = IF queue = <<>> THEN queue ELSE Tail(queue)
        /\ request' = [r \in Requests |->
              IF queue # <<>> /\ r = Head(queue) /\ request[r] = "pending"
              THEN "rejected" ELSE request[r]]
        /\ UNCHANGED <<options, held, resourceVars, destroys, lifeVars, frames>>
    BY <1>8 DEF CreateFailed, CreateFails
  <2>2. LifeInv' /\ PlaceInv' /\ MemberInv'
    BY <2>1 DEF IInv, LifeInv, ClearedForGood, PlaceInv, MemberInv, Idle, TypeOK
  <2>3. HeldInv'
    <3>1. \A r \in Requests : request'[r] = "resolved" <=> request[r] = "resolved"
      BY <2>1
    <3> QED BY <3>1, <2>1 DEF IInv, HeldInv, Exclusive, NoForeignResource, Idle
  <2>4. QueueInv'
    <3>1. CASE queue = <<>>
      <4>1. Pending' = Pending
        BY <2>1, <3>1 DEF Pending
      <4> QED BY <4>1, <2>1, <3>1 DEF IInv, QueueInv, PendingIsQueued
    <3>2. CASE queue # <<>>
      <4>1. Range(queue) = {Head(queue)} \cup Range(queue')
            /\ Head(queue) \notin Range(queue') /\ IsInjective(queue')
        BY <2>1, <3>2, TailMembers DEF TypeOK, IInv, QueueInv, PendingIsQueued
      <4>2. Pending' = Pending \ {Head(queue)}
        BY <2>1, <3>2 DEF Pending
      <4> QED BY <4>1, <4>2, <2>1 DEF IInv, QueueInv, PendingIsQueued
    <3> QED BY <3>1, <3>2
  <2> QED BY <2>2, <2>3, <2>4 DEF IInv
<1>9. CASE DispenseNext
  <2> DEFINE x     == Head(available)
             rest  == Tail(available)
             stack == [frames EXCEPT ![Len(frames)].i = @ + 1]
  <2>1. /\ ~Quiet /\ ~draining
        /\ available # <<>> /\ x \in Resources /\ rest \in Seq(Resources)
        /\ UNCHANGED <<options, destroys, lifeVars>>
    BY <1>9, LoopType DEF DispenseNext, DispenseLeaving, IInv, LifeInv, Quiet
  <2>2. Idle = {x} \cup Range(rest) /\ IsInjective(rest) /\ x \notin Range(rest)
    BY <2>1, TailMembers DEF TypeOK, IInv, PlaceInv, Idle
  <2>3. CASE options.testOnBorrow
    <3>1. /\ validating' = validating \cup {x} /\ available' = rest
          /\ UNCHANGED <<queue, creating, settled, all, loans, callerVars>>
      BY <1>9, <2>3 DEF DispenseNext, DispenseLeaving
    <3> HIDE DEF x, rest, stack
    <3>2. Idle' = Range(rest)
      BY <3>1 DEF Idle
    <3>3. LifeInv'
      BY <2>1, <3>1 DEF IInv, LifeInv, ClearedForGood
    <3>4. PlaceInv'
      BY <3>1, <3>2, <2>2 DEF IInv, PlaceInv
    <3>5. HeldInv'
      BY <2>1, <2>2, <3>1, <3>2 DEF IInv, HeldInv, Exclusive, NoForeignResource
    <3>6. MemberInv'
      BY <2>1, <2>2, <3>1, <3>2 DEF IInv, MemberInv
    <3>7. QueueInv'
      BY <2>1, <3>1 DEF IInv, QueueInv, PendingIsQueued, Pending
    <3> QED BY <3>3, <3>4, <3>5, <3>6, <3>7 DEF IInv
  <2>4. CASE ~options.testOnBorrow
    <3>1. Serve(x, rest, stack) /\ validating' = validating
      BY <1>9, <2>4 DEF DispenseNext, DispenseLeaving
    <3>2. /\ x \notin Range(rest) \cup validating' /\ Range(rest) \cap validating' = {}
          /\ Range(rest) \cup validating' \cup {x} = Idle \cup validating
      BY <2>2, <3>1 DEF IInv, PlaceInv
    <3> HIDE DEF x, rest, stack
    <3> QED BY <2>1, <2>2, <3>1, <3>2, ServeInv
  <2> QED BY <2>3, <2>4
<1>10. CASE DispenseReturn
  <2>1. frames # <<>> /\ UNCHANGED <<options, callerVars, resourceVars, factoryVars, lifeVars, queue>>
    BY <1>10 DEF DispenseReturn, Quiet
  <2> QED BY <2>1 DEF IInv, LifeInv, ClearedForGood, PlaceInv, HeldInv, Exclusive,
               NoForeignResource, MemberInv, Idle, QueueInv, PendingIsQueued, Pending
<1>11. CASE Evict
  <2>1. PICK n \in 1 .. Min2(options.numTests, Len(available)) :
           EvictLeaving({available[k] : k \in 1 .. n},
                        SubSeq(available, n + 1, Len(available)))
    BY <1>11 DEF Evict
  <2>2. n \in 0 .. Len(available) /\ available \in Seq(Resources)
    BY <2>1, OptionTypes DEF Min2, TypeOK
  <2> DEFINE X    == {available[k] : k \in 1 .. n}
             rest == SubSeq(available, n + 1, Len(available))
  <2>3. Idle = X \cup Range(rest) /\ IsInjective(rest) /\ X \cap Range(rest) = {}
        /\ rest \in Seq(Resources)
    BY <2>2, SuffixMembers DEF IInv, PlaceInv, Idle
  <2>4. EvictLeaving(X, rest)
    BY <2>1
  <2> HIDE DEF X, rest
  <2>5. /\ Destroy(X, "evict") /\ all' = all \ X /\ loans' = loans \ X /\ available' = rest
        /\ destroys' = destroys \cup (X \X {"evict"})
        /\ UNCHANGED <<options, callerVars, validating, creating, settled, draining,
                       clearing, queue, frames>>
    BY <2>4 DEF EvictLeaving, Destroy
  <2>6. /\ Idle' = Range(rest) /\ Idle' = Idle \ X /\ X \subseteq Idle
        /\ X \cap (loans \cup validating) = {} /\ X \in SUBSET Resources
        /\ "evict" \in Destroyers
    <3>1. Idle \subseteq Resources
      BY DEF Idle, Range, TypeOK
    <3> QED BY <3>1, <2>3, <2>5 DEF Idle, IInv, PlaceInv, Destroyers
  <2>7. LifeInv'
    BY <2>5 DEF IInv, LifeInv, ClearedForGood
  <2>8. HeldInv'
    <3>1. \A r \in Requests : held[r] # None => held[r] \notin X
      BY <2>6 DEF IInv, HeldInv, Exclusive
    <3> QED BY <3>1, <2>5, <2>6 DEF IInv, HeldInv, Exclusive, NoForeignResource
  <2>9. PlaceInv'
    BY <2>3, <2>5, <2>6 DEF IInv, PlaceInv
  <2>10. MemberInv'
    <3>1. CASE clearing # "destroys"
      <4>1. Idle' \cup validating' = (Idle \cup validating) \ X
            /\ Idle' \cap validating' = {} /\ Idle' \subseteq Idle
        BY <2>5, <2>6 DEF IInv, PlaceInv
      <4> QED BY <3>1, <4>1, <2>3, <2>5, <2>6, DestroyInv
    <3>2. CASE clearing = "destroys"
      BY <3>2, <2>5 DEF MemberInv
    <3> QED BY <3>1, <3>2
  <2>11. QueueInv'
    BY <2>5 DEF IInv, QueueInv, PendingIsQueued, Pending
  <2> QED BY <2>7, <2>8, <2>9, <2>10, <2>11 DEF IInv
<1>12. CASE Drain
  <2>1. /\ frames = <<>> /\ draining' = TRUE /\ queue' = <<>>
        /\ request' = [r \in Requests |->
              IF r \in Range(queue) /\ request[r] = "pending" THEN "rejected" ELSE request[r]]
        /\ ~draining
        /\ UNCHANGED <<options, held, resourceVars, factoryVars, clearing, frames>>
    BY <1>12 DEF Drain, Quiet
  <2>2. LifeInv' /\ PlaceInv' /\ MemberInv'
    BY <2>1 DEF IInv, LifeInv, ClearedForGood, PlaceInv, MemberInv, Idle
  <2>3. HeldInv'
    <3>1. \A r \in Requests : request'[r] = "resolved" <=> request[r] = "resolved"
      BY <2>1
    <3> QED BY <3>1, <2>1 DEF IInv, HeldInv, Exclusive, NoForeignResource, Idle
  <2>4. Pending' = {}
    BY <2>1 DEF Pending, IInv, QueueInv, PendingIsQueued
  <2>5. Range(<<>>) = {} /\ IsInjective(<<>>)
    BY DEF Range, IsInjective
  <2>6. QueueInv'
    BY <2>1, <2>4, <2>5 DEF QueueInv, PendingIsQueued
  <2> QED BY <2>2, <2>3, <2>6 DEF IInv
<1>13. CASE ClearDestroys
  <2>1. /\ clearing = "creates" /\ clearing' = "destroys" /\ creating + settled = 0
        /\ all' = {} /\ loans' = loans \ all /\ available' = <<>>
        /\ UNCHANGED <<options, callerVars, validating, creating, settled, draining,
                       eviction, queue, frames>>
    BY <1>13 DEF ClearDestroys, ClearDestroysAll, Destroy
  <2>2. Idle' = {} /\ IsInjective(available')
    BY <2>1 DEF Idle, Range, IsInjective
  <2>3. draining
    BY <2>1 DEF IInv, LifeInv
  <2>4. LifeInv' /\ PlaceInv' /\ MemberInv'
    BY <2>1, <2>2, <2>3 DEF IInv, LifeInv, ClearedForGood, PlaceInv, MemberInv
  <2>5. HeldInv'
    BY <2>1, <2>2, <2>3 DEF IInv, HeldInv, Exclusive, NoForeignResource
  <2>6. QueueInv'
    BY <2>1 DEF IInv, QueueInv, PendingIsQueued, Pending
  <2> QED BY <2>4, <2>5, <2>6 DEF IInv
<1>14. CASE Clear \/ UNCHANGED vars
  <2>1. /\ UNCHANGED <<options, callerVars, resourceVars, factoryVars, draining, queue, frames>>
        /\ clearing' = clearing \/ (draining /\ clearing = "no" /\ clearing' = "creates")
    BY <1>14 DEF Clear, vars
  <2> QED BY <2>1 DEF IInv, LifeInv, ClearedForGood, PlaceInv, HeldInv, Exclusive,
               NoForeignResource, MemberInv, Idle, QueueInv, PendingIsQueued, Pending
<1> QED
  BY <1>1, <1>2, <1>3, <1>4, <1>5, <1>6, <1>7, <1>8, <1>9, <1>10, <1>11, <1>12,
     <1>13, <1>14 DEF Next, CallerNext, FactoryNext

\* IInv is inductive: the base of the safety theorems below.
THEOREM PoolInvariant == Spec => [](TypeOK /\ IInv)
<1>1. Init => TypeOK /\ IInv
  <2> SUFFICES ASSUME Init PROVE IInv
    BY TypeInit
  <2>1. Idle = {} /\ IsInjective(available) /\ IsInjective(queue) /\ Range(queue) = {}
    BY DEF Init, Idle, Range, IsInjective
  <2>2. \A r \in Requests : request[r] = "none" /\ held[r] = None
    BY DEF Init
  <2>3. Pending = {}
    BY <2>2 DEF Pending
  <2>4. LifeInv /\ PlaceInv /\ MemberInv
    BY <2>1 DEF Init, LifeInv, ClearedForGood, PlaceInv, MemberInv
  <2>5. HeldInv
    BY <2>2 DEF HeldInv, Exclusive, NoForeignResource
  <2>6. QueueInv
    BY <2>1, <2>3 DEF QueueInv, PendingIsQueued
  <2> QED BY <2>4, <2>5, <2>6 DEF IInv
<1>2. TypeOK /\ IInv /\ [Next]_vars => (TypeOK /\ IInv)'
  BY TypeStep, InvStep
<1> QED BY <1>1, <1>2, PTL DEF Spec

\* A borrowed connection belongs to one borrower and to nobody else: for
\* any number of callers and connections and any options.
THEOREM ExclusiveLoans == Spec => []Exclusive
<1>1. IInv => Exclusive
  BY DEF IInv, HeldInv
<1> QED BY <1>1, PoolInvariant, PTL

\* release() and destroy() never throw at a borrower.
THEOREM NoThrowAtBorrower == Spec => []NoForeignResource
<1>1. IInv => NoForeignResource
  BY DEF IInv, HeldInv
<1> QED BY <1>1, PoolInvariant, PTL

\* Without acquire timeouts no connection of the pool gets lost.
THEOREM NothingLost == Spec => []Conserved
<1>1. IInv => Conserved
  BY DEF IInv, MemberInv, Conserved
<1> QED BY <1>1, PoolInvariant, PTL

\* What #destroy got does not come back while the pool is in use.
THEOREM DestroyedForGood == Spec => []DestroyedIsGone
<1>1. IInv => DestroyedIsGone
  BY DEF IInv, MemberInv, DestroyedIsGone
<1> QED BY <1>1, PoolInvariant, PTL

\* A request leaves the queue settled only.
THEOREM NoRequestLost == Spec => []PendingIsQueued
<1>1. IInv => PendingIsQueued
  BY DEF IInv, QueueInv
<1> QED BY <1>1, PoolInvariant, PTL

\* clear() leaves no connection behind.
THEOREM ClearLeavesNothing == Spec => []ClearedForGood
<1>1. IInv => ClearedForGood
  BY DEF IInv, LifeInv
<1> QED BY <1>1, PoolInvariant, PTL

-----------------------------------------------------------------------------
(* The limit                                                               *)

LEMMA CardinalityOfAll ==
    ASSUME NEW A \in SUBSET Resources
    PROVE  /\ Cardinality(A) \in Nat
           /\ \A B \in SUBSET A : Cardinality(B) \in Nat /\ Cardinality(B) <= Cardinality(A)
           /\ \A x \in Resources : Cardinality(A \cup {x}) <= Cardinality(A) + 1
<1>1. IsFiniteSet(A)
  BY FS_Subset, PoolAssumption
<1>2. Cardinality(A) \in Nat
  BY <1>1, FS_CardinalityType
<1>3. ASSUME NEW B \in SUBSET A PROVE Cardinality(B) \in Nat /\ Cardinality(B) <= Cardinality(A)
  BY <1>1, <1>3, FS_Subset, FS_CardinalityType
<1>4. ASSUME NEW x \in Resources PROVE Cardinality(A \cup {x}) <= Cardinality(A) + 1
  <2>1. IsFiniteSet(A \cup {x})
        /\ (Cardinality(A \cup {x}) = Cardinality(A) \/ Cardinality(A \cup {x}) = Cardinality(A) + 1)
    BY <1>1, FS_AddElement
  <2> QED BY <2>1, <1>2
<1> QED BY <1>2, <1>3, <1>4

\* #dispense() fills the pool up to its limit at most.
LEMMA DispenseLimit ==
    ASSUME TypeOK, NEW stack, Dispense(stack),
           settled' \in Nat, queue' \in Seq(Requests), available' \in Seq(Resources),
           options' = options, all' = all, WithinLimit
    PROVE  WithinLimit'
<1> DEFINE creates == creating + settled'
           n == Needed(Len(queue'), Len(available') + creates, Cardinality(all') + creates)
<1>1. Cardinality(all) \in Nat /\ creating \in Nat /\ options.max \in Nat
      /\ Len(queue') \in Nat /\ Len(available') \in Nat
  BY CardinalityOfAll, OptionTypes DEF TypeOK
<1>2. creating' = creating \/ creating' = creating + n
  BY DEF Dispense
<1>3. n = 0 \/ Cardinality(all') + creates + n <= options.max
  BY SMTT(60), <1>1 DEF Needed, Min2
<1>4. n \in Nat
  BY SMTT(60), <1>1 DEF Needed, Min2
<1> HIDE DEF n
<1> QED BY SMTT(60), <1>1, <1>2, <1>3, <1>4 DEF WithinLimit

LEMMA LimitStep == TypeOK /\ TypeOK' /\ WithinLimit /\ [Next]_vars => WithinLimit'
<1> SUFFICES ASSUME TypeOK, TypeOK', WithinLimit, [Next]_vars PROVE WithinLimit'
  OBVIOUS
<1> USE DEF callerVars, resourceVars, factoryVars, lifeVars
<1>1. /\ Cardinality(all) \in Nat /\ creating \in Nat /\ settled \in Nat
      /\ options.max \in Nat /\ options.min \in Nat /\ options.min <= options.max
  BY CardinalityOfAll, OptionTypes DEF TypeOK
<1>2. ASSUME all' \subseteq all, creating' = creating, options' = options PROVE WithinLimit'
  <2>1. Cardinality(all') \in Nat /\ Cardinality(all') <= Cardinality(all)
    BY <1>2, CardinalityOfAll DEF TypeOK
  <2> QED BY <1>1, <1>2, <2>1 DEF WithinLimit
<1>3. ASSUME NEW stack, Dispense(stack), UNCHANGED <<options, all>> PROVE WithinLimit'
  BY <1>3, DispenseLimit DEF TypeOK
<1>4. ASSUME NEW x, NEW rest, NEW stack, Serve(x, rest, stack), options' = options
      PROVE  WithinLimit'
  <2>1. all' = all /\ (creating' = creating \/ Dispense(stack))
    BY <1>4 DEF Serve
  <2> QED BY <2>1, <1>2, <1>3, <1>4
<1>5. ASSUME NEW r \in Requests, CallerNext(r) PROVE WithinLimit'
  <2>1. CASE Acquire(r) \/ Release(r)
    BY <2>1, <1>3 DEF Acquire, Release
  <2>2. CASE \/ AcquireWhileDraining(r) \/ AcquireTimeout(r)
             \/ ReturnWhileDraining(r) \/ DestroyLent(r)
    BY <2>2, <1>2 DEF AcquireWhileDraining, AcquireTimeout, ReturnWhileDraining,
                      DestroyLent, Destroy
  <2> QED BY <1>5, <2>1, <2>2 DEF CallerNext
<1>6. ASSUME NEW x \in Resources, FactoryNext(x) PROVE WithinLimit'
  <2>1. CASE CreateSucceeded(x)
    <3>1. all' = all \cup {x} /\ creating > 0 /\ creating' = creating - 1 /\ options' = options
      BY <2>1 DEF CreateSucceeded
    <3>2. Cardinality(all') \in Nat /\ Cardinality(all') <= Cardinality(all) + 1
      BY <3>1, CardinalityOfAll DEF TypeOK
    <3> QED BY <3>1, <3>2, <1>1 DEF WithinLimit
  <2>2. CASE ValidateSucceeded(x)
    BY <2>2, <1>4 DEF ValidateSucceeded
  <2>3. CASE ValidateFailed(x)
    BY <2>3, <1>2 DEF ValidateFailed, Destroy
  <2>4. CASE DestroyResumed(x)
    BY <2>4, <1>3 DEF DestroyResumed, AfterDestroy
  <2>5. ASSUME NEW caller \in Destroyers, DestroySettled(x, caller) PROVE WithinLimit'
    <3>1. /\ UNCHANGED <<options, all>>
          /\ creating' = creating \/ (Size < options.min /\ creating' = creating + 1)
      BY <2>5 DEF DestroySettled
    <3> QED BY <3>1, <1>1 DEF Size, WithinLimit
  <2> QED BY <1>6, <2>1, <2>2, <2>3, <2>4, <2>5 DEF FactoryNext
<1>7. CASE CreateFailed
  BY <1>7, <1>1 DEF CreateFailed, CreateFails, WithinLimit
<1>8. CASE CreateFinally
  BY <1>8, <1>3 DEF CreateFinally, CreateLeaves
<1>9. CASE DispenseNext
  BY <1>9, <1>2, <1>4 DEF DispenseNext, DispenseLeaving
<1>10. CASE DispenseReturn \/ Drain \/ Clear \/ UNCHANGED vars
  BY <1>10, <1>2 DEF DispenseReturn, Drain, Clear, vars
<1>11. CASE Evict \/ ClearDestroys
  BY <1>11, <1>2 DEF Evict, EvictLeaving, ClearDestroys, ClearDestroysAll, Destroy
<1> QED BY <1>5, <1>6, <1>7, <1>8, <1>9, <1>10, <1>11 DEF Next

\* However often #dispense is entered while creations are under way, the
\* connections in the pool and those coming are at most options.max.
THEOREM LimitKept == Spec => []WithinLimit
<1>1. Init => WithinLimit
  <2> SUFFICES ASSUME Init PROVE WithinLimit
    OBVIOUS
  <2>1. Cardinality(all) = 0
    BY FS_EmptySet DEF Init
  <2> QED BY <2>1, TypeInit, OptionTypes DEF Init, WithinLimit
<1>2. TypeOK /\ TypeOK' /\ WithinLimit /\ [Next]_vars => WithinLimit'
  BY LimitStep
<1> QED BY <1>1, <1>2, TypeCorrect, PTL DEF Spec

-----------------------------------------------------------------------------
(* No wakeup is lost                                                       *)

\* The counts the invariant compares are natural numbers.
Counted ==
    /\ Len(queue) \in Nat /\ Len(available) \in Nat
    /\ creating \in Nat /\ settled \in Nat /\ options.max \in Nat
    /\ Cardinality(all) \in Nat
    /\ IsFiniteSet(validating) /\ Cardinality(validating) \in Nat
    /\ IsFiniteSet(Resuming) /\ Cardinality(Resuming) \in Nat
    /\ Cardinality(Resuming) = 0 <=> Resuming = {}

LEMMA Counts == TypeOK => Counted
<1> SUFFICES ASSUME TypeOK PROVE Counted
  OBVIOUS
<1>1. /\ Len(queue) \in Nat /\ Len(available) \in Nat
      /\ creating \in Nat /\ settled \in Nat /\ options.max \in Nat
  BY OptionTypes DEF TypeOK
<1>2. IsFiniteSet(all) /\ IsFiniteSet(validating) /\ IsFiniteSet(Resuming)
  BY FS_Subset, PoolAssumption DEF TypeOK, Resuming
<1>3. /\ Cardinality(all) \in Nat /\ Cardinality(validating) \in Nat
      /\ Cardinality(Resuming) \in Nat
      /\ Cardinality(Resuming) = 0 <=> Resuming = {}
  BY <1>2, FS_CardinalityType, FS_EmptySet
<1> QED BY <1>1, <1>2, <1>3 DEF Counted

LEMMA CountsThen == TypeOK' => Counted'
BY Counts, PTL

\* A set of connections with one more, or one fewer.
LEMMA CountOne ==
    ASSUME NEW S, IsFiniteSet(S), NEW x
    PROVE  /\ Cardinality(S) \in Nat
           /\ x \notin S => Cardinality(S \cup {x}) = Cardinality(S) + 1
           /\ x \in S => Cardinality(S \ {x}) = Cardinality(S) - 1
BY FS_AddElement, FS_RemoveElement, FS_CardinalityType

\* A call of #dispense creates what is missing, and its loop will serve one
\* request or validate one connection at least.
LEMMA DispenseWakes ==
    ASSUME TypeOK, TypeOK', NEW stack \in Seq(Activation), Dispense(stack), UNCHANGED options,
           \A k \in DOMAIN stack : stack[k].waiting >= 1, IdleAreDue(1)'
    PROVE  WakeInv'
<1>1. Counted /\ Counted'
  BY Counts, CountsThen
<1>2. CASE Len(queue') = 0
  <2>1. frames' = stack
    BY <1>2 DEF Dispense
  <2>2. IdleAreDue(0)' /\ IdleAreDue(1)'
    BY SMTT(60), <1>1, <1>2 DEF Counted, IdleAreDue, Due
  <2> QED BY SMTT(60), <1>1, <1>2, <2>1, <2>2 DEF WakeInv, Counted
<1>3. CASE Len(queue') # 0
  <2> DEFINE creates == creating + settled'
             n == Needed(Len(queue'), Len(available') + creates, Cardinality(all') + creates)
             frame == [i |-> 0, waiting |-> Len(queue')]
  <2>1. creating' = creating + n /\ frames' = Append(stack, frame)
    BY <1>3 DEF Dispense
  <2>2. Len(queue') <= Len(available') + creating' + settled' \/ Size' >= options'.max
    <3>1. /\ Len(queue') \in Nat /\ Len(available') \in Nat /\ Cardinality(all') \in Nat
          /\ creating \in Nat /\ settled' \in Nat /\ options.max \in Nat
          /\ Size' = Cardinality(all') + creating' + settled' /\ options'.max = options.max
      BY <1>1 DEF Counted, Size
    <3>2. \A w, a, z, c, s \in Nat :
             LET m == Needed(w, a + (c + s), z + (c + s))
             IN  w <= a + (c + m) + s \/ z + (c + m) + s >= options.max
      BY SMTT(60), <3>1 DEF Needed, Min2
    <3>3. \/ Len(queue') <= Len(available') + (creating + n) + settled'
          \/ Cardinality(all') + (creating + n) + settled' >= options.max
      BY <3>1, <3>2
    <3> HIDE DEF n
    <3> QED BY <2>1, <3>1, <3>3
  <2>3. /\ Len(frames') = Len(stack) + 1 /\ frames'[Len(frames')] = frame
        /\ DOMAIN frames' = 1 .. Len(stack) + 1
        /\ \A k \in DOMAIN stack : frames'[k] = stack[k]
    BY <2>1
  <2>4. \A k \in DOMAIN frames' : frames'[k].waiting >= 1
    BY SMTT(60), <1>1, <1>3, <2>3 DEF Counted
  <2>5. ~Quiet' /\ Top'.i = 0
    BY <2>1, <2>3 DEF Quiet, Top
  <2> QED BY SMTT(60), <1>1, <2>2, <2>4, <2>5 DEF WakeInv, Counted
<1> QED BY <1>2, <1>3

\* A turn that serves who waits longest, or drops a request that no longer
\* waits, uses one idle connection or one validation.
LEMMA ServeWakes ==
    ASSUME TypeOK, TypeOK', NEW x \in Resources, NEW rest \in Seq(Resources),
           NEW stack \in Seq(Activation), Serve(x, rest, stack),
           \A k \in DOMAIN stack : stack[k].waiting >= 1, UNCHANGED <<options, destroys>>,
           Len(rest) <= Due \/ Len(queue) <= Due + Cardinality(validating') + 1,
           \/ Resuming # {}
           \/ Len(queue) <= Len(rest) + creating + settled + Cardinality(validating') + 1
           \/ Size >= options.max
    PROVE  WakeInv'
<1>1. Counted /\ Counted' /\ Len(rest) \in Nat
  BY Counts, CountsThen
<1>2. Resuming' = Resuming /\ Due' = settled' + Cardinality(Resuming) /\ UNCHANGED <<settled, all>>
  BY DEF Resuming, Due, Serve
<1>3. CASE queue = <<>>
  <2>1. frames' = stack /\ queue' = <<>>
    BY <1>3 DEF Serve, Lend
  <2>2. IdleAreDue(0)' /\ IdleAreDue(1)' /\ Len(queue') = 0
    BY SMTT(60), <1>1, <1>2, <2>1 DEF Counted, IdleAreDue
  <2> QED BY SMTT(60), <1>1, <2>1, <2>2 DEF WakeInv, Counted
<1>4. CASE queue # <<>>
  <2>1. queue' = Tail(queue) /\ available' = rest
    BY <1>4 DEF Serve, Lend
  <2>2. Len(queue') = Len(queue) - 1
    BY <1>4, <2>1 DEF TypeOK
  <2>3. IdleAreDue(0)' /\ IdleAreDue(1)'
    BY SMTT(60), <1>1, <1>2, <2>1, <2>2 DEF Counted, IdleAreDue, Due
  <2>4. CASE request[Head(queue)] = "pending"
    <3>1. frames' = stack /\ creating' = creating
      BY <1>4, <2>4 DEF Serve
    <3>2. \/ Resuming # {}
          \/ Len(queue') <= Len(available') + creating' + settled' + Cardinality(validating')
          \/ Size' >= options'.max
      BY SMTT(60), <1>1, <1>2, <2>1, <2>2, <3>1 DEF Counted, Size
    <3> QED BY <1>2, <2>3, <3>1, <3>2 DEF WakeInv
  <2>5. CASE request[Head(queue)] # "pending"
    <3>1. Dispense(stack)
      BY <1>4, <2>5 DEF Serve
    <3> QED BY <2>3, <3>1, DispenseWakes
  <2> QED BY <2>4, <2>5
<1> QED BY <1>3, <1>4

\* While nobody waits, nothing is due to anybody.
LEMMA NobodyWaits ==
    ASSUME TypeOK', queue' = <<>>, \A k \in DOMAIN frames' : frames'[k].waiting >= 1
    PROVE  WakeInv'
<1>1. Counted' /\ Len(queue') = 0
  BY CountsThen
<1>2. IdleAreDue(0)' /\ IdleAreDue(1)'
  BY <1>1 DEF Counted, IdleAreDue, Due
<1> QED BY <1>1, <1>2 DEF WakeInv, Counted

\* A connection of the pool that #destroy takes out of it is due to be replaced.
LEMMA DestroyWakes ==
    ASSUME TypeOK, TypeOK', WakeInv, Quiet, NEW x \in Resources \ Resuming,
           Resuming' = Resuming \cup {x},
           \/ validating' = validating
           \/ x \in validating /\ validating' = validating \ {x},
           UNCHANGED <<options, available, creating, settled, queue, frames>>
    PROVE  WakeInv'
<1>1. Counted /\ Counted'
  BY Counts, CountsThen
<1>2. Cardinality(Resuming') = Cardinality(Resuming) + 1
  BY <1>1, CountOne DEF Counted
<1>3. \/ Cardinality(validating') = Cardinality(validating)
      \/ Cardinality(validating') = Cardinality(validating) - 1
  BY <1>1, CountOne DEF Counted
<1>4. IdleAreDue(0)
  BY DEF WakeInv, Quiet
<1>5. IdleAreDue(0)'
  BY SMTT(60), <1>1, <1>2, <1>3, <1>4 DEF Counted, IdleAreDue, Due
<1> QED BY <1>5 DEF WakeInv, Quiet

LEMMA WakeStep == TypeOK /\ TypeOK' /\ IInv /\ WakeInv /\ [Next]_vars => WakeInv'
<1> SUFFICES ASSUME TypeOK, TypeOK', IInv, WakeInv, [Next]_vars PROVE WakeInv'
  OBVIOUS
<1> USE DEF callerVars, resourceVars, factoryVars, lifeVars
<1>0. /\ Counted /\ Counted' /\ <<>> \in Seq(Activation)
      /\ \A k \in DOMAIN <<>> : <<>>[k].waiting >= 1
      /\ Quiet => IdleAreDue(0)
  BY Counts, CountsThen DEF WakeInv
\* Steps that change nothing WakeInv is about but the state of requests, and
\* give up no more than a connection for one of which there is an idle one.
<1>1. ASSUME UNCHANGED <<options, available, all, creating, settled, queue, validating, destroys, frames>>
      PROVE  WakeInv'
  BY <1>1 DEF WakeInv, Quiet, Top, IdleAreDue, Due, Resuming, Size
<1>2. ASSUME NEW r \in Requests, Acquire(r) PROVE WakeInv'
  <2>1. /\ Quiet /\ Dispense(<<>>) /\ queue' = Append(queue, r)
        /\ UNCHANGED <<options, available, settled, validating, destroys>>
    BY <1>2 DEF Acquire
  <2>2. Len(queue') = Len(queue) + 1
    BY <2>1 DEF TypeOK
  <2>3. Due' = Due
    BY <2>1 DEF Due, Resuming
  <2>4. IdleAreDue(1)'
    BY SMTT(60), <1>0, <2>1, <2>2, <2>3 DEF IdleAreDue, Counted, Due
  <2> QED BY <1>0, <2>1, <2>4, DispenseWakes
<1>3. ASSUME NEW r \in Requests, Release(r) PROVE WakeInv'
  <2>1. /\ Quiet /\ Dispense(<<>>) /\ available' = Append(available, held[r])
        /\ UNCHANGED <<options, queue, settled, validating, destroys>>
    BY <1>3 DEF Release, GiveUp
  <2>2. Len(available') = Len(available) + 1
    BY <2>1 DEF TypeOK
  <2>3. Due' = Due
    BY <2>1 DEF Due, Resuming
  <2>4. IdleAreDue(1)'
    BY SMTT(60), <1>0, <2>1, <2>2, <2>3 DEF IdleAreDue, Counted, Due
  <2> QED BY <1>0, <2>1, <2>4, DispenseWakes
<1>4. ASSUME NEW r \in Requests,
             AcquireWhileDraining(r) \/ AcquireTimeout(r) \/ ReturnWhileDraining(r)
      PROVE  WakeInv'
  BY <1>4, <1>1 DEF AcquireWhileDraining, AcquireTimeout, ReturnWhileDraining
\* What #destroy is called for is of the pool, and nothing else destroys it.
<1>5. ASSUME clearing # "destroys", NEW x \in all PROVE x \in Resources \ Resuming
  BY <1>5 DEF IInv, MemberInv, Resuming, TypeOK
<1>6. ASSUME NEW r \in Requests, DestroyLent(r) PROVE WakeInv'
  <2> DEFINE x == held[r]
  <2>1. /\ Quiet /\ ~draining /\ x \in loans /\ destroys' = destroys \cup ({x} \X {"destroy"})
        /\ UNCHANGED <<options, available, validating, creating, settled, queue, frames>>
    BY <1>6 DEF DestroyLent, GiveUp, Destroy
  <2>2. clearing # "destroys" /\ x \in all
    BY <2>1 DEF IInv, LifeInv, MemberInv
  <2>3. x \in Resources \ Resuming
    BY <2>2, <1>5
  <2> HIDE DEF x
  <2>4. Resuming' = Resuming \cup {x}
    BY <2>1, <2>3 DEF Resuming
  <2> QED BY <2>1, <2>3, <2>4, DestroyWakes
<1>7. ASSUME NEW x \in Resources, ValidateFailed(x) PROVE WakeInv'
  <2>1. /\ Quiet /\ x \in validating /\ validating' = validating \ {x}
        /\ destroys' = destroys \cup ({x} \X {"invalid"})
        /\ UNCHANGED <<options, available, creating, settled, queue, frames, clearing>>
    BY <1>7 DEF ValidateFailed, Destroy
  <2>2. CASE draining
    BY <2>1, <2>2, NobodyWaits DEF IInv, LifeInv
  <2>3. CASE ~draining
    <3>1. x \in Resources \ Resuming
      BY <2>1, <2>3, <1>5 DEF IInv, LifeInv, MemberInv
    <3>2. Resuming' = Resuming \cup {x}
      BY <2>1, <3>1 DEF Resuming
    <3> QED BY <2>1, <3>1, <3>2, DestroyWakes
  <2> QED BY <2>2, <2>3
<1>8. ASSUME NEW x \in Resources, CreateSucceeded(x) PROVE WakeInv'
  <2>1. /\ Quiet /\ x \notin all /\ creating > 0 /\ creating' = creating - 1
        /\ settled' = settled + 1 /\ all' = all \cup {x} /\ available' = Append(available, x)
        /\ UNCHANGED <<options, queue, validating, destroys, frames>>
    BY <1>8 DEF CreateSucceeded, InUse
  <2>2. Len(available') = Len(available) + 1
    BY <2>1 DEF TypeOK
  <2>3. Resuming' = Resuming
    BY <2>1 DEF Resuming
  <2>4. Size' >= Size
    <3>1. IsFiniteSet(all)
      BY FS_Subset, PoolAssumption DEF TypeOK
    <3>2. Cardinality(all') = Cardinality(all) + 1
      BY <2>1, <3>1, CountOne
    <3> QED BY SMTT(60), <1>0, <2>1, <3>2 DEF Counted, Size
  <2>5. IdleAreDue(0)'
    BY SMTT(60), <1>0, <2>1, <2>2, <2>3 DEF IdleAreDue, Counted, Due
  <2>6. Size \in Nat /\ Size' \in Nat
    BY SMTT(60), <1>0 DEF Counted, Size
  <2>7. \/ Resuming' # {}
        \/ Len(queue') <= Len(available') + creating' + settled' + Cardinality(validating')
        \/ Size' >= options'.max
    BY SMTT(60), <1>0, <2>1, <2>2, <2>3, <2>4, <2>6 DEF WakeInv, Counted
  <2> QED BY <1>0, <2>1, <2>5, <2>7 DEF WakeInv, Quiet
<1>9. CASE CreateFailed
  <2>1. /\ Quiet /\ creating > 0 /\ creating' = creating - 1 /\ settled' = settled + 1
        /\ queue' = IF queue = <<>> THEN queue ELSE Tail(queue)
        /\ UNCHANGED <<options, available, all, validating, destroys, frames>>
    BY <1>9 DEF CreateFailed, CreateFails
  <2>2. Len(queue') <= Len(queue)
    BY <2>1 DEF TypeOK
  <2>3. Resuming' = Resuming
    BY <2>1 DEF Resuming
  <2>4. IdleAreDue(0)'
    BY SMTT(60), <1>0, <2>1, <2>2, <2>3 DEF IdleAreDue, Counted, Due
  <2>5. \/ Resuming' # {}
        \/ Len(queue') <= Len(available') + creating' + settled' + Cardinality(validating')
        \/ Size' >= options'.max
    BY SMTT(60), <1>0, <2>1, <2>2, <2>3 DEF WakeInv, Counted, Size
  <2> QED BY <1>0, <2>1, <2>4, <2>5 DEF WakeInv, Quiet
<1>10. CASE CreateFinally
  <2>1. /\ Quiet /\ settled > 0 /\ settled' = settled - 1 /\ Dispense(<<>>)
        /\ UNCHANGED <<options, available, queue, validating, destroys>>
    BY <1>10 DEF CreateFinally, CreateLeaves
  <2>2. Resuming' = Resuming
    BY <2>1 DEF Resuming
  <2>3. IdleAreDue(1)'
    BY SMTT(60), <1>0, <2>1, <2>2 DEF IdleAreDue, Counted, Due
  <2> QED BY <1>0, <2>1, <2>3, DispenseWakes
<1>11. ASSUME NEW x \in Resources, DestroyResumed(x) PROVE WakeInv'
  <2>1. /\ Quiet /\ <<x, "resumed">> \in destroys /\ destroys' = destroys \ {<<x, "resumed">>}
        /\ Dispense(<<>>) /\ UNCHANGED <<options, available, queue, validating, settled>>
    BY <1>11 DEF DestroyResumed, AfterDestroy
  <2>2. Resuming' = Resuming \/ Resuming' = Resuming \ {x}
    BY <2>1 DEF Resuming
  <2>3. x \in Resuming
    BY <2>1 DEF Resuming
  <2>4. Due' >= Due - 1
    BY SMTT(60), <1>0, <2>1, <2>2, <2>3, CountOne DEF Counted, Due
  <2>5. Due \in Nat /\ Due' \in Nat
    BY SMTT(60), <1>0 DEF Counted, Due
  <2>6. IdleAreDue(1)'
    BY SMTT(60), <1>0, <2>1, <2>4, <2>5 DEF IdleAreDue, Counted
  <2> QED BY <1>0, <2>1, <2>6, DispenseWakes
<1>12. ASSUME NEW x \in Resources, NEW caller \in Destroyers, DestroySettled(x, caller)
       PROVE  WakeInv'
  <2>1. /\ Quiet /\ <<x, caller>> \in destroys /\ caller # "resumed"
        /\ destroys' = (destroys \ {<<x, caller>>}) \cup
                          {<<x, "resumed">> : c \in {caller} \cap {"destroy", "invalid"}}
        /\ creating' = creating \/ creating' = creating + 1
        /\ UNCHANGED <<options, available, all, validating, settled, queue, frames>>
    BY <1>12 DEF DestroySettled
  <2>2. Resuming' = Resuming
    <3>1. ASSUME NEW y \in Resources PROVE y \in Resuming' <=> y \in Resuming
      <4>1. CASE y # x
        BY <2>1, <4>1 DEF Resuming
      <4>2. CASE y = x /\ caller \in {"destroy", "invalid"}
        <5>1. <<x, "resumed">> \in destroys'
          BY <2>1, <4>2
        <5> QED BY <2>1, <4>2, <5>1 DEF Resuming
      <4>3. CASE y = x /\ caller \notin {"destroy", "invalid"}
        <5>1. destroys' = destroys \ {<<x, caller>>}
          BY <2>1, <4>3
        <5> QED BY <2>1, <4>3, <5>1 DEF Resuming
      <4> QED BY <4>1, <4>2, <4>3
    <3> QED BY <3>1 DEF Resuming
  <2>3. IdleAreDue(0)'
    BY <1>0, <2>1, <2>2 DEF IdleAreDue, Due
  <2>4. \/ Resuming' # {}
        \/ Len(queue') <= Len(available') + creating' + settled' + Cardinality(validating')
        \/ Size' >= options'.max
    <3>1. creating' \in Nat /\ creating' >= creating
      BY <1>0, <2>1 DEF Counted
    <3>2. Size' >= Size
      BY SMTT(60), <1>0, <2>1, <3>1 DEF Counted, Size
    <3>3. Size \in Nat /\ Size' \in Nat
      BY SMTT(60), <1>0 DEF Counted, Size
    <3> QED BY SMTT(60), <1>0, <2>1, <2>2, <3>1, <3>2, <3>3 DEF WakeInv, Counted
  <2> QED BY <1>0, <2>1, <2>3, <2>4 DEF WakeInv, Quiet
<1>13. ASSUME NEW x \in Resources, ValidateSucceeded(x) PROVE WakeInv'
  <2>1. /\ Quiet /\ x \in validating /\ validating' = validating \ {x}
        /\ Serve(x, available, <<>>) /\ UNCHANGED <<options, destroys>>
    BY <1>13 DEF ValidateSucceeded
  <2>2. Cardinality(validating') = Cardinality(validating) - 1
    BY <1>0, <2>1, CountOne DEF Counted
  <2>3. Len(available) <= Due \/ Len(queue) <= Due + Cardinality(validating') + 1
    BY SMTT(60), <1>0, <2>1, <2>2 DEF IdleAreDue, Counted, Due
  <2>4. \/ Resuming # {}
        \/ Len(queue) <= Len(available) + creating + settled + Cardinality(validating') + 1
        \/ Size >= options.max
    BY SMTT(60), <1>0, <2>2 DEF WakeInv, Counted
  <2>5. available \in Seq(Resources)
    BY DEF TypeOK
  <2> QED BY <1>0, <2>1, <2>3, <2>4, <2>5, ServeWakes
<1>14. CASE DispenseNext
  <2> DEFINE x     == Head(available)
             rest  == Tail(available)
             stack == [frames EXCEPT ![Len(frames)].i = @ + 1]
  <2>1. /\ ~Quiet /\ LoopGoesOn
        /\ x \in Resources /\ rest \in Seq(Resources) /\ stack \in Seq(Activation)
        /\ available # <<>> /\ UNCHANGED <<options, destroys>>
    BY <1>14, LoopType DEF DispenseNext, DispenseLeaving
  <2>2. Len(rest) = Len(available) - 1 /\ Len(available) \in Nat
    BY <2>1 DEF TypeOK
  <2>3. IdleAreDue(1)
    BY SMTT(60), <1>0 DEF WakeInv, IdleAreDue, Counted, Due
  <2>4. /\ \A k \in DOMAIN stack : stack[k].waiting >= 1
        /\ Len(stack) = Len(frames) /\ stack # <<>>
        /\ stack[Len(stack)].i # 0
    <3>1. frames \in Seq(Activation) /\ frames # <<>>
      BY <2>1 DEF TypeOK, Quiet, Activation
    <3>2. Len(frames) \in DOMAIN frames /\ DOMAIN stack = DOMAIN frames
          /\ Len(stack) = Len(frames) /\ DOMAIN frames = 1 .. Len(frames)
      BY <3>1
    <3>3. ASSUME NEW k \in DOMAIN frames
          PROVE  stack[k].waiting = frames[k].waiting
                 /\ stack[Len(frames)].i = frames[Len(frames)].i + 1
      <4>1. frames[k] \in Activation /\ frames[Len(frames)] \in Activation
        BY <3>1, <3>2
      <4> QED BY <3>2, <4>1 DEF Activation
    <3>4. frames[Len(frames)].i \in Nat
      <4>1. frames[Len(frames)] \in Activation
        BY <3>1, <3>2
      <4> QED BY <4>1 DEF Activation
    <3> HIDE DEF stack
    <3>0. \A k \in DOMAIN frames : frames[k].waiting >= 1
      BY DEF WakeInv
    <3>5. \A k \in DOMAIN stack : stack[k].waiting >= 1
      BY <3>2, <3>3, <3>0
    <3>6. stack[Len(stack)].i # 0
      BY <3>2, <3>3, <3>4
    <3>7. stack # <<>>
      BY <3>1, <3>2
    <3> QED BY <3>2, <3>5, <3>6, <3>7
  <2>5. CASE options.testOnBorrow
    <3>1. /\ validating' = validating \cup {x} /\ available' = rest /\ frames' = stack
          /\ UNCHANGED <<queue, creating, settled, all>>
      BY <1>14, <2>5 DEF DispenseNext, DispenseLeaving
    <3>2. x \notin validating
      <4>1. x \in Idle
        BY SMTT(60), <2>1 DEF Idle, Range, TypeOK
      <4> QED BY <4>1 DEF IInv, PlaceInv
    <3> HIDE DEF x, rest, stack
    <3>3. Cardinality(validating') = Cardinality(validating) + 1
      BY <1>0, <3>1, <3>2, CountOne DEF Counted
    <3>4. Resuming' = Resuming
      BY <2>1 DEF Resuming
    <3>5. IdleAreDue(0)'
      BY SMTT(60), <1>0, <2>2, <2>3, <3>1, <3>3, <3>4 DEF IdleAreDue, Counted, Due
    <3>6. \/ Resuming' # {}
          \/ Len(queue') <= Len(available') + creating' + settled' + Cardinality(validating')
          \/ Size' >= options'.max
      BY SMTT(60), <1>0, <2>1, <2>2, <3>1, <3>3, <3>4 DEF WakeInv, Counted, Size
    <3>7. ~(~Quiet' /\ Top'.i = 0)
      BY <2>4, <3>1 DEF Top
    <3> QED BY <2>4, <3>1, <3>5, <3>6, <3>7 DEF WakeInv
  <2>6. CASE ~options.testOnBorrow
    <3>1. Serve(x, rest, stack) /\ UNCHANGED <<options, validating, destroys>>
      BY <1>14, <2>6 DEF DispenseNext, DispenseLeaving
    <3> HIDE DEF x, rest, stack
    <3>2. Len(rest) <= Due \/ Len(queue) <= Due + Cardinality(validating') + 1
      BY SMTT(60), <1>0, <2>2, <2>3, <3>1 DEF IdleAreDue, Counted, Due
    <3>3. \/ Resuming # {}
          \/ Len(queue) <= Len(rest) + creating + settled + Cardinality(validating') + 1
          \/ Size >= options.max
      BY SMTT(60), <1>0, <2>2, <3>1 DEF WakeInv, Counted
    <3> QED BY <2>1, <2>4, <3>1, <3>2, <3>3, ServeWakes
  <2> QED BY <2>5, <2>6
<1>15. CASE DispenseReturn
  <2>1. /\ ~Quiet /\ ~LoopGoesOn /\ frames' = SubSeq(frames, 1, Len(frames) - 1)
        /\ UNCHANGED <<options, available, all, creating, settled, queue, validating, destroys>>
    BY <1>15 DEF DispenseReturn
  <2>2. frames \in Seq(Activation) /\ Len(frames) \in Nat \ {0} /\ Top \in Activation
    BY <2>1, LoopType DEF TypeOK, Activation
  <2>3. \A k \in DOMAIN frames' : frames'[k].waiting >= 1
    BY <2>1, <2>2 DEF WakeInv
  <2>4. Top.waiting >= 1
    BY <2>2 DEF WakeInv, Top
  <2>5. Resuming' = Resuming /\ Due' = Due /\ Due \in Nat
    BY <1>0, <2>1 DEF Resuming, Due, Counted
  <2>6. IdleAreDue(0)
    <3>1. CASE Top.i = 0
      <4>1. ~(0 < Min2(Len(available), Top.waiting))
        BY <2>1, <3>1 DEF LoopGoesOn
      <4>2. Len(available) = 0
        BY SMTT(60), <1>0, <2>2, <2>4, <4>1 DEF Min2, Counted, Activation
      <4> QED BY <2>5, <4>2 DEF IdleAreDue
    <3>2. CASE Top.i # 0
      BY <3>2 DEF WakeInv
    <3> QED BY <3>1, <3>2
  <2>7. IdleAreDue(0)' /\ IdleAreDue(1)'
    BY <1>0, <2>1, <2>5, <2>6 DEF IdleAreDue, Counted
  <2> QED BY <1>0, <2>1, <2>3, <2>5, <2>7 DEF WakeInv, Size
\* An idle connection can be evicted: then nobody waits, or what is being
\* validated is enough for those who do.
<1>16. CASE Evict
  <2>1. PICK n \in 1 .. Min2(options.numTests, Len(available)) :
           EvictLeaving({available[k] : k \in 1 .. n},
                        SubSeq(available, n + 1, Len(available)))
    BY <1>16 DEF Evict
  <2>2. n \in 1 .. Len(available)
    BY SMTT(60), <2>1, OptionTypes DEF Min2, TypeOK
  <2> DEFINE rest == SubSeq(available, n + 1, Len(available))
             X == {available[k] : k \in 1 .. n}
  <2>3. Len(rest) = Len(available) - n /\ Len(rest) \in Nat
    BY <2>2 DEF TypeOK
  <2> HIDE DEF rest, X
  <2>4. /\ Quiet /\ settled = 0 /\ available' = rest
        /\ destroys' = destroys \cup (X \X {"evict"})
        /\ UNCHANGED <<options, validating, creating, settled, queue, frames>>
    BY <2>1 DEF EvictLeaving, Destroy, TimersTurn, rest, X
  <2>5. Resuming' = Resuming
    BY <2>4 DEF Resuming
  <2>6. IdleAreDue(0)'
    BY <1>0, <2>2, <2>3, <2>4, <2>5 DEF IdleAreDue, Counted, Due
  <2>7. Resuming = {} => Len(queue) <= Cardinality(validating)
    BY <1>0, <2>2, <2>4 DEF IdleAreDue, Counted, Due
  <2>8. \/ Resuming' # {}
        \/ Len(queue') <= Len(available') + creating' + settled' + Cardinality(validating')
        \/ Size' >= options'.max
    BY <1>0, <2>3, <2>4, <2>5, <2>7 DEF Counted
  <2> QED BY <1>0, <2>4, <2>6, <2>8 DEF WakeInv, Quiet
<1>17. CASE Drain
  BY <1>0, <1>17, NobodyWaits DEF Drain, WakeInv
<1>18. CASE ClearDestroys
  <2>1. clearing = "creates" /\ UNCHANGED <<queue, frames>>
    BY <1>18 DEF ClearDestroys, ClearDestroysAll
  <2> QED BY <2>1, NobodyWaits DEF WakeInv, IInv, LifeInv
<1>19. CASE Clear \/ UNCHANGED vars
  BY <1>1, <1>19 DEF Clear, vars
<1> QED
  BY <1>2, <1>3, <1>4, <1>6, <1>7, <1>8, <1>9, <1>10, <1>11, <1>12, <1>13, <1>14,
     <1>15, <1>16, <1>17, <1>18, <1>19 DEF Next, CallerNext, FactoryNext

\* No wakeup is lost: when nothing that runs will look at the queue again, there
\* is no idle connection for a request that waits, and none to be created.
THEOREM NoWakeupLost == Spec => []NoLostWakeup
<1>1. Init => WakeInv
  <2> SUFFICES ASSUME Init PROVE WakeInv
    OBVIOUS
  <2>1. Counted /\ Len(queue) = 0 /\ Len(available) = 0 /\ frames = <<>>
    BY TypeInit, Counts DEF Init
  <2> QED BY <2>1 DEF WakeInv, IdleAreDue, Due, Counted, Quiet
<1>2. (TypeOK /\ IInv) /\ (TypeOK /\ IInv)' /\ WakeInv /\ [Next]_vars => WakeInv'
  BY WakeStep
<1>3. TypeOK /\ IInv /\ WakeInv => NoLostWakeup
  <2> SUFFICES ASSUME TypeOK, IInv, WakeInv, Quiet, Pending # {}, ~WillDispense
               PROVE  available = <<>> /\ (Len(queue) <= creating \/ Size >= options.max)
    BY DEF NoLostWakeup
  <2>1. Counted
    BY Counts
  <2>2. settled = 0 /\ validating = {} /\ Resuming = {}
    BY <2>1 DEF WillDispense, Resuming, Counted
  <2>3. Cardinality(validating) = 0 /\ Due = 0
    BY <2>1, <2>2, FS_EmptySet DEF Due
  <2>4. Len(queue) # 0
    BY DEF IInv, QueueInv, PendingIsQueued, Range, TypeOK
  <2>5. Len(available) = 0
    BY <2>1, <2>3, <2>4 DEF WakeInv, IdleAreDue, Counted
  <2>6. Len(queue) <= creating \/ Size >= options.max
    BY <2>1, <2>2, <2>3, <2>5 DEF WakeInv, Counted
  <2> QED BY <2>5, <2>6 DEF TypeOK
<1> QED BY <1>1, <1>2, <1>3, PoolInvariant, PTL DEF Spec

\* Without acquire timeouts a pool that may hold a connection never comes to a
\* stop: who waits, waits for a connection that somebody has, or that is being
\* established, validated or replaced.  (With them it may: a connection taken
\* for a request that has timed out is lost.)
THEOREM NoStandstill ==
    Spec => [](~options.acquireTimeout /\ options.max > 0 => NeverStuck)
<1>1. TypeOK /\ IInv /\ NoLostWakeup => (~options.acquireTimeout /\ options.max > 0 => NeverStuck)
  <2> SUFFICES ASSUME TypeOK, IInv, NoLostWakeup, ~options.acquireTimeout, options.max > 0,
                      Quiet, Pending # {}, ~WillDispense, loans = {}
               PROVE  creating > 0
    BY DEF NeverStuck
  <2>1. Counted
    BY Counts
  <2>2. Len(queue) # 0
    BY DEF IInv, QueueInv, PendingIsQueued, Range, TypeOK
  <2>3. available = <<>> /\ (Len(queue) <= creating \/ Size >= options.max)
    BY DEF NoLostWakeup
  <2>4. Idle = {} /\ validating = {} /\ settled = 0
    BY <2>1, <2>3 DEF WillDispense, Idle, Range, Counted, TypeOK
  <2>5. CASE clearing = "destroys"
    BY <2>2, <2>5 DEF IInv, LifeInv
  <2>6. CASE clearing # "destroys"
    <3>1. all = {}
      BY <2>4, <2>6 DEF IInv, MemberInv
    <3>2. Size = creating
      BY <2>1, <2>4, <3>1, FS_EmptySet DEF Size, Counted
    <3> QED BY <2>1, <2>2, <2>3, <3>2 DEF Counted
  <2> QED BY <2>5, <2>6
<1> QED BY <1>1, NoWakeupLost, PoolInvariant, PTL

----------------------------------------------------------------------------
(***************************************************************************)
(* The pool of generic-pool.js implements PoolContract and serves in the   *)
(* order of the queue.                                                     *)
(***************************************************************************)

\* What a step of dispense(resource) is to the borrowers.
LEMMA ServeGrants ==
    ASSUME TypeOK, IInv, WithinLimit, NEW x \in Idle \cup validating,
           NEW rest, NEW stack, Serve(x, rest, stack),
           UNCHANGED <<options, draining, clearing>>
    PROVE  [Contract!ContractNext]_(Contract!contractVars)
<1>1. CASE queue # <<>> /\ request[Head(queue)] = "pending"
  <2> DEFINE r == Head(queue)
  <2>1. /\ r \in Requests /\ r \in Pending
        /\ request' = [request EXCEPT ![r] = "resolved"]
        /\ held' = [held EXCEPT ![r] = x]
    BY <1>1 DEF Serve, Lend, TypeOK, Pending
  <2>2. Pending' = Pending \ {r}
    BY <2>1 DEF Pending, TypeOK
  <2>3. ~draining /\ clearing # "destroys"
    BY <1>1 DEF IInv, LifeInv
  <2>4. x \in Resources /\ x \in all /\ x \notin loans
    <3>1. x \in all /\ x \notin loans
      BY <2>3 DEF IInv, MemberInv, PlaceInv
    <3> QED BY <3>1 DEF TypeOK
  <2>5. Contract!LentOut \subseteq loans
    BY <2>3 DEF IInv, HeldInv, NoForeignResource, Contract!LentOut
  <2>6. Cardinality(Contract!LentOut) < options.max
    <3>1. Contract!LentOut \cup {x} \subseteq all /\ x \notin Contract!LentOut
      BY <2>3, <2>4, <2>5 DEF IInv, MemberInv
    <3>2. IsFiniteSet(all) /\ all \in SUBSET Resources
      BY FS_Subset, PoolAssumption DEF TypeOK
    <3>3. IsFiniteSet(Contract!LentOut)
      BY <3>1, <3>2, FS_Subset
    <3>4. Cardinality(Contract!LentOut \cup {x}) = Cardinality(Contract!LentOut) + 1
          /\ Cardinality(Contract!LentOut) \in Nat
      BY <3>1, <3>3, FS_AddElement, FS_CardinalityType
    <3>5. Cardinality(Contract!LentOut \cup {x}) <= Cardinality(all)
          /\ Cardinality(all) \in Nat
      BY <3>1, <3>2, FS_Subset, FS_CardinalityType
    <3>6. creating \in Nat /\ options.max \in Nat
      BY OptionTypes DEF TypeOK
    <3> QED BY <3>4, <3>5, <3>6 DEF WithinLimit
  <2>7. Contract!Grant(r, x)
    <3>1. x \notin Contract!LentOut
      BY <2>4, <2>5
    <3>2. ~draining /\ options.max' = options.max /\ draining' = draining
      BY <2>3
    <3> HIDE DEF r
    <3>3. Contract!Grant(r, x) <=>
             /\ ~draining /\ r \in Pending /\ x \notin Contract!LentOut
             /\ Cardinality(Contract!LentOut) < options.max
             /\ Pending' = Pending \ {r}
             /\ held' = [held EXCEPT ![r] = x]
             /\ UNCHANGED <<options.max, draining>>
      BY DEF Contract!Grant, Contract!Cardinality, Cardinality
    <3> QED BY <2>1, <2>2, <2>6, <3>1, <3>2, <3>3
  <2> HIDE DEF r
  <2>8. Contract!ContractNext
    BY <2>1, <2>4, <2>7 DEF Contract!ContractNext
  <2> QED BY <2>8
<1>2. CASE ~(queue # <<>> /\ request[Head(queue)] = "pending")
  <2>1. UNCHANGED <<request, held>>
    BY <1>2 DEF Serve, callerVars
  <2> QED BY <2>1 DEF Contract!contractVars, Pending
<1> QED BY <1>1, <1>2

\* A step of the pool is one step of the contract, or none.
LEMMA ContractStep ==
    TypeOK /\ IInv /\ WithinLimit /\ [Next]_vars
        => [Contract!ContractNext]_(Contract!contractVars)
<1> SUFFICES ASSUME TypeOK, IInv, WithinLimit, [Next]_vars
             PROVE  [Contract!ContractNext]_(Contract!contractVars)
  OBVIOUS
<1> USE DEF callerVars, resourceVars, factoryVars, lifeVars
<1>1. ASSUME UNCHANGED <<options, draining, request, held>>
      PROVE  UNCHANGED Contract!contractVars
  BY <1>1 DEF Contract!contractVars, Pending
<1>2. ASSUME NEW r \in Requests, CallerNext(r)
      PROVE  [Contract!ContractNext]_(Contract!contractVars)
  <2>1. CASE Acquire(r)
    <3>1. /\ ~draining /\ request[r] \in {"none", "rejected"}
          /\ request' = [request EXCEPT ![r] = "pending"]
          /\ UNCHANGED <<options, held, draining>>
      BY <2>1 DEF Acquire
    <3>2. Pending' = Pending \cup {r} /\ r \notin Pending
      BY <3>1 DEF Pending, TypeOK
    <3>3. held[r] = None
      BY <3>1 DEF IInv, HeldInv
    <3>4. Contract!Ask(r)
      BY <3>1, <3>2, <3>3 DEF Contract!Ask
    <3> QED BY <3>4 DEF Contract!ContractNext
  <2>2. CASE AcquireWhileDraining(r)
    <3>1. /\ request[r] \in {"none", "rejected"}
          /\ request' = [request EXCEPT ![r] = "rejected"]
          /\ UNCHANGED <<options, held, draining>>
      BY <2>2 DEF AcquireWhileDraining
    <3>2. Pending' = Pending
      BY <3>1 DEF Pending, TypeOK
    <3> QED BY <3>1, <3>2 DEF Contract!contractVars
  <2>3. CASE AcquireTimeout(r)
    <3>1. /\ request[r] = "pending"
          /\ request' = [request EXCEPT ![r] = "rejected"]
          /\ UNCHANGED <<options, held, draining>>
      BY <2>3 DEF AcquireTimeout
    <3>2. Pending' = Pending \ {r} /\ r \in Pending
      BY <3>1 DEF Pending, TypeOK
    <3>3. Contract!Refuse(r)
      BY <3>1, <3>2 DEF Contract!Refuse
    <3> QED BY <3>3 DEF Contract!ContractNext
  <2>4. CASE Release(r) \/ ReturnWhileDraining(r) \/ DestroyLent(r)
    <3>1. /\ request[r] = "resolved"
          /\ request' = [request EXCEPT ![r] = "none"]
          /\ held' = [held EXCEPT ![r] = None]
          /\ UNCHANGED <<options, draining>>
      BY <2>4 DEF Release, ReturnWhileDraining, DestroyLent, GiveUp
    <3>2. Pending' = Pending
      BY <3>1 DEF Pending, TypeOK
    <3>3. held[r] # None
      BY <3>1 DEF IInv, HeldInv
    <3>4. Contract!Return(r)
      BY <3>1, <3>2, <3>3 DEF Contract!Return
    <3> QED BY <3>4 DEF Contract!ContractNext
  <2> QED BY <1>2, <2>1, <2>2, <2>3, <2>4 DEF CallerNext
<1>3. ASSUME NEW x \in Resources, FactoryNext(x)
      PROVE  [Contract!ContractNext]_(Contract!contractVars)
  <2>1. CASE ValidateSucceeded(x)
    <3>1. x \in Idle \cup validating /\ Serve(x, available, <<>>)
          /\ UNCHANGED <<options, draining, clearing>>
      BY <2>1 DEF ValidateSucceeded
    <3> QED BY <3>1, ServeGrants
  <2>2. CASE ~ValidateSucceeded(x)
    BY <1>3, <2>2, <1>1 DEF FactoryNext, CreateSucceeded, ValidateFailed, DestroyResumed,
                       AfterDestroy, DestroySettled
  <2> QED BY <2>1, <2>2
<1>4. CASE CreateFailed
  <2>1. /\ request' = [r \in Requests |->
              IF queue # <<>> /\ r = Head(queue) /\ request[r] = "pending"
              THEN "rejected" ELSE request[r]]
        /\ UNCHANGED <<options, held, draining>>
    BY <1>4 DEF CreateFailed, CreateFails
  <2>2. CASE queue # <<>> /\ Head(queue) \in Pending
    <3>1. Pending' = Pending \ {Head(queue)} /\ Head(queue) \in Requests
      BY <2>1, <2>2 DEF Pending
    <3>2. Contract!Refuse(Head(queue))
      BY <2>1, <2>2, <3>1 DEF Contract!Refuse
    <3> QED BY <3>1, <3>2 DEF Contract!ContractNext
  <2>3. CASE ~(queue # <<>> /\ Head(queue) \in Pending)
    <3>1. Pending' = Pending
      BY <2>1, <2>3 DEF Pending
    <3> QED BY <2>1, <3>1 DEF Contract!contractVars
  <2> QED BY <2>2, <2>3
<1>5. CASE DispenseNext
  <2>1. UNCHANGED <<options, draining, clearing>>
    BY <1>5 DEF DispenseNext, DispenseLeaving
  <2>2. CASE options.testOnBorrow
    BY <1>5, <2>2, <1>1 DEF DispenseNext, DispenseLeaving
  <2>3. CASE ~options.testOnBorrow
    <3>1. Head(available) \in Idle
      BY <1>5, LoopType, TailMembers DEF DispenseNext, DispenseLeaving, Idle, TypeOK
    <3>2. \E stack : Serve(Head(available), Tail(available), stack)
      BY <1>5, <2>3 DEF DispenseNext, DispenseLeaving
    <3> QED BY <2>1, <3>1, <3>2, ServeGrants
  <2> QED BY <2>2, <2>3
<1>6. CASE Drain
  <2>1. /\ ~draining /\ draining' = TRUE
        /\ request' = [r \in Requests |->
              IF r \in Range(queue) /\ request[r] = "pending" THEN "rejected" ELSE request[r]]
        /\ UNCHANGED <<options, held>>
    BY <1>6 DEF Drain
  <2>2. Pending' = {}
    BY <2>1 DEF Pending, IInv, QueueInv, PendingIsQueued
  <2>3. Contract!Close
    BY <2>1, <2>2 DEF Contract!Close
  <2> QED BY <2>3 DEF Contract!ContractNext
<1>7. CASE CreateFinally \/ DispenseReturn \/ Evict \/ Clear \/ ClearDestroys \/ UNCHANGED vars
  BY <1>7, <1>1 DEF CreateFinally, CreateLeaves, DispenseReturn, Evict, EvictLeaving, Clear,
                    ClearDestroys, ClearDestroysAll, vars
<1> QED BY <1>2, <1>3, <1>4, <1>5, <1>6, <1>7 DEF Next

\* generic-pool.js keeps what DatabaseService relies on.
THEOREM PoolRefinesContract == Spec => ImplementsContract
<1>1. Init => Contract!ContractInit
  <2> SUFFICES ASSUME Init PROVE Contract!ContractInit
    OBVIOUS
  <2>1. Pending = {}
    BY DEF Init, Pending
  <2>2. options.max \in Nat
    BY TypeInit, OptionTypes
  <2> QED BY <2>1, <2>2 DEF Init, Contract!ContractInit
<1>2. TypeOK /\ IInv /\ WithinLimit /\ [Next]_vars
          => [Contract!ContractNext]_(Contract!contractVars)
  BY ContractStep
<1> QED BY <1>1, <1>2, PoolInvariant, LimitKept, PTL
        DEF Spec, ImplementsContract, Contract!ContractSpec

\* Only the head of the queue is ever granted a connection: whoever is
\* granted one has nobody waiting in front.
LEMMA HeadFirst ==
    ASSUME TypeOK, IInv, [Next]_vars,
           NEW i \in 1 .. Len(queue), NEW j \in 1 .. Len(queue), i < j,
           request[queue[i]] = "pending", request[queue[j]] = "pending"
    PROVE  request'[queue[j]] # "resolved"
<1> USE DEF callerVars
<1>1. /\ queue # <<>> /\ queue[j] \in Requests /\ Head(queue) = queue[1]
      /\ queue[j] # queue[1]
  BY DEF TypeOK, IInv, QueueInv, PendingIsQueued, IsInjective
<1> DEFINE r == queue[j]
<1>2. ASSUME request' = request PROVE request'[r] # "resolved"
  BY <1>2
<1>3. ASSUME NEW x, NEW rest, NEW stack, Serve(x, rest, stack) PROVE request'[r] # "resolved"
  <2>1. request' = request \/ request' = [request EXCEPT ![queue[1]] = "resolved"]
    BY <1>3, <1>1 DEF Serve, Lend
  <2> QED BY <2>1, <1>1 DEF TypeOK
<1>4. ASSUME NEW q \in Requests, CallerNext(q) PROVE request'[r] # "resolved"
  <2>1. \E v \in {"none", "pending", "rejected"} : request' = [request EXCEPT ![q] = v]
    BY <1>4 DEF CallerNext, Acquire, AcquireWhileDraining, AcquireTimeout, Release,
                ReturnWhileDraining, DestroyLent, GiveUp
  <2> QED BY <2>1, <1>1 DEF TypeOK
<1>5. ASSUME NEW x \in Resources, FactoryNext(x) PROVE request'[r] # "resolved"
  BY <1>5, <1>2, <1>3 DEF FactoryNext, CreateSucceeded, ValidateSucceeded, ValidateFailed,
                          DestroyResumed, AfterDestroy, DestroySettled
<1>6. CASE CreateFailed \/ Drain
  BY <1>6, <1>1 DEF CreateFailed, CreateFails, Drain
<1>7. CASE DispenseNext
  BY <1>7, <1>2, <1>3 DEF DispenseNext, DispenseLeaving
<1>8. CASE CreateFinally \/ DispenseReturn \/ Evict \/ Clear \/ ClearDestroys \/ UNCHANGED vars
  BY <1>8, <1>2 DEF CreateFinally, CreateLeaves, DispenseReturn, Evict, EvictLeaving, Clear,
                    ClearDestroys, ClearDestroysAll, vars
<1> QED BY <1>4, <1>5, <1>6, <1>7, <1>8 DEF Next

\* Requests are granted connections in the order in which they came,
\* however many validations are under way and in whatever order they end.
THEOREM FirstComeFirstServed == Spec => NoOvertaking
<1>1. TypeOK /\ IInv /\ [Next]_vars =>
        [\A i, j \in 1 .. Len(queue) :
            (/\ i < j
             /\ request[queue[i]] = "pending"
             /\ request[queue[j]] = "pending"
             /\ request'[queue[j]] = "resolved")
            => request'[queue[i]] = "resolved"]_vars
  BY HeadFirst
<1> QED BY <1>1, PoolInvariant, PTL DEF Spec, NoOvertaking
=============================================================================
