-------------------------- MODULE TransactionsProofs --------------------------
(***************************************************************************)
(* Proofs about Transactions, for any number of transactions, tenants and  *)
(* connections, and any deployment.                                        *)
(***************************************************************************)
EXTENDS Transactions, FiniteSetTheorems, TLAPS

USE DEF Step, End

\* What release() leaves: a connection less for t and for its pool.
LEMMA ReleaseType ==
    ASSUME TypeOK, NEW t \in Transactions, Release(t)
    PROVE  /\ dbc' = [dbc EXCEPT ![t] = None]
           /\ loans' \subseteq loans
           /\ dbc' \in [Transactions -> Connections \cup {None}]
<1>1. CASE dbc[t] = None
  BY <1>1 DEF Release, TypeOK
<1>2. CASE dbc[t] # None
  BY <1>2 DEF Release, Released, TypeOK
<1> QED BY <1>1, <1>2

LEMMA LoseType ==
    ASSUME TypeOK, NEW X \in SUBSET Connections, Lose(X)
    PROVE  /\ broken' \subseteq Connections
           /\ session' \in [Connections -> Transactions \cup {None}]
           /\ work' \in [Transactions -> {"none", "open", "durable", "lost"}]
<1>1. PICK survivors \in SUBSET {t \in Transactions : ending[t] = "COMMIT"} :
         work' = [t \in Transactions |->
             IF work[t] # "open" \/ dbc[t] \notin X THEN work[t]
             ELSE IF t \in survivors THEN "durable" ELSE "lost"]
  BY DEF Lose
<1>2. work' \in [Transactions -> {"none", "open", "durable", "lost"}]
  BY <1>1 DEF TypeOK
<1>3. broken' \subseteq Connections /\ session' \in [Connections -> Transactions \cup {None}]
  BY DEF Lose, TypeOK
<1> QED BY <1>2, <1>3

LEMMA RenewType ==
    ASSUME TypeOK, NEW x \in Connections, Renew(x)
    PROVE  /\ broken' \subseteq Connections
           /\ session' \in [Connections -> Transactions \cup {None}]
           /\ work' = work
BY DEF Renew, TypeOK

\* The variables of transactions and pools keep their types.
THEOREM TypeCorrect == Spec => []TypeOK
<1>1. Init => TypeOK
  BY DEF Init, TypeOK
<1>2. TypeOK /\ [Next]_vars => TypeOK'
  <2> SUFFICES ASSUME TypeOK, [Next]_vars PROVE TypeOK'
    OBVIOUS
  <2>1. ASSUME NEW t \in Transactions, NEW n \in Tenants, Begin(t, n) PROVE TypeOK'
    <3>1. PICK p \in PoolFor(n) : /\ pools' = [pools EXCEPT ![n] = p]
                                  /\ pool' = [pool EXCEPT ![t] = p]
      BY <2>1 DEF Begin
    <3>2. p \in Pools /\ p # None
      BY ZenonT(60), <3>1, TransactionsAssumption DEF PoolFor, TypeOK
    <3> QED BY <2>1, <3>1, <3>2 DEF Begin, TypeOK, dbVars
  <2>2. ASSUME NEW t \in Transactions, NEW x \in Connections, Granted(t, x) PROVE TypeOK'
    BY ZenonT(60), <2>2 DEF Granted, TypeOK, dbVars
  <2>3. ASSUME NEW t \in Transactions, Refused(t) \/ SetDone(t) PROVE TypeOK'
    BY ZenonT(60), <2>3 DEF Refused, SetDone, TypeOK, poolVars, dbVars
  <2>4. ASSUME NEW t \in Transactions, BeginDone(t) PROVE TypeOK'
    <3>1. session' \in [Connections -> Transactions \cup {None}]
      BY <2>4 DEF BeginDone, TypeOK
    <3> QED BY <2>4, <3>1 DEF BeginDone, TypeOK, poolVars
  <2>5. ASSUME NEW t \in Transactions, BeginFailed(t) PROVE TypeOK'
    BY <2>5, ReleaseType DEF BeginFailed, TypeOK, dbVars
  <2>6. ASSUME NEW t \in Transactions, Execute(t) PROVE TypeOK'
    BY <2>6 DEF Execute, TypeOK, poolVars, txVars
  <2>7. ASSUME NEW t \in Transactions, Commit(t) \/ Rollback(t) \/ CommitFailed(t) PROVE TypeOK'
    BY <2>7 DEF Commit, Rollback, CommitFailed, TypeOK, poolVars, dbVars
  <2>8. ASSUME NEW t \in Transactions, CommitDone(t) PROVE TypeOK'
    <3>1. session' \in [Connections -> Transactions \cup {None}]
          /\ work' \in [Transactions -> {"none", "open", "durable", "lost"}]
      BY <2>8 DEF CommitDone, TypeOK
    <3> QED BY <2>8, <3>1, ReleaseType DEF CommitDone, TypeOK
  <2>9. ASSUME NEW t \in Transactions, RollbackDone(t) PROVE TypeOK'
    <3>1. session' \in [Connections -> Transactions \cup {None}]
          /\ work' \in [Transactions -> {"none", "open", "durable", "lost"}]
      BY <2>9 DEF RollbackDone, TypeOK
    <3> QED BY <2>9, <3>1, ReleaseType DEF RollbackDone, TypeOK
  <2>10. ASSUME NEW t \in Transactions, RollbackFailed(t) PROVE TypeOK'
    BY <2>10, ReleaseType DEF RollbackFailed, TypeOK, dbVars
  <2>11. ASSUME NEW t \in Transactions, Close(t) PROVE TypeOK'
    <3>1. dbc[t] \in Connections
      BY <2>11 DEF Close, TypeOK
    <3>2. /\ broken' \subseteq Connections
          /\ session' \in [Connections -> Transactions \cup {None}]
          /\ work' = work
      BY <2>11, <3>1, RenewType DEF Close, TypeOK, dbVars
    <3> QED BY <2>11, <3>2 DEF Close, Released, TypeOK
  <2>12. ASSUME NEW x \in Connections, Break(x) PROVE TypeOK'
    <3>1. {x} \in SUBSET Connections /\ Lose({x})
      BY <2>12 DEF Break
    <3> QED BY <2>12, <3>1, LoseType DEF Break, TypeOK, poolVars, txVars
  <2>13. ASSUME NEW x \in Connections, Replaced(x) PROVE TypeOK'
    BY ZenonT(60), <2>13, RenewType DEF Replaced, TypeOK, poolVars, txVars
  <2>14. ASSUME NEW n \in Tenants, Disconnect(n) PROVE TypeOK'
    BY <2>14 DEF Disconnect, TypeOK, dbVars
  <2>15. ASSUME NEW p \in Pools, Clear(p) PROVE TypeOK'
    <3>1. {x \in Connections : x[1] = p} \in SUBSET Connections
      OBVIOUS
    <3> QED BY <2>15, <3>1, LoseType DEF Clear, TypeOK, txVars
  <2>16. CASE UNCHANGED vars
    BY <2>16 DEF vars, TypeOK, poolVars, dbVars, txVars
  <2> QED BY <2>1, <2>2, <2>3, <2>4, <2>5, <2>6, <2>7, <2>8, <2>9, <2>10, <2>11, <2>12,
             <2>13, <2>14, <2>15, <2>16 DEF Next, TransactionNext
<1> QED BY <1>1, <1>2, PTL DEF Spec

-----------------------------------------------------------------------------
(* Loans and sessions                                                      *)

\* Only begin() holds a connection, from the pool's grant on.
HoldsWhileBegun ==
    \A t \in Transactions : dbc[t] # None => step[t] \in {"set", "BEGIN", "begun"}

\* An open database transaction was begun, on a connection that works.
SessionIsBegun ==
    \A x \in Connections : session[x] # None => step[session[x]] = "begun" /\ x \notin broken

HandoverInv == LoansAreHeld /\ CleanHandover /\ HoldsWhileBegun /\ SessionIsBegun

\* What release() does to loans: the connection of t is free, or its pool is
\* draining; nobody else's is touched.
LEMMA ReleaseKeepsLoans ==
    ASSUME TypeOK, HandoverInv, NEW t \in Transactions, Release(t),
           UNCHANGED <<draining, pool>>, broken' \subseteq broken,
           session' \in [Connections -> Transactions \cup {None}],
           \A x \in Connections : session'[x] = IF x = dbc[t] THEN None ELSE session[x],
           \A u \in Transactions \ {t} : step'[u] = step[u]
    PROVE  HandoverInv'
<1>0. None \notin Connections
  BY TransactionsAssumption DEF Connections
<1>1. dbc' = [dbc EXCEPT ![t] = None] /\ dbc \in [Transactions -> Connections \cup {None}]
  BY ReleaseType DEF TypeOK
<1>2. \A u \in Transactions : dbc'[u] # None => u # t /\ dbc'[u] = dbc[u]
  BY <1>1
<1>3. loans' = IF dbc[t] = None \/ dbc[t][1] \in draining THEN loans ELSE loans \ {dbc[t]}
  BY DEF Release, Released
<1>4. LoansAreHeld'
  <2>1. ASSUME NEW x \in loans', x[1] \notin draining' PROVE \E u \in Transactions : dbc'[u] = x
    <3>1. x \in loans /\ x # dbc[t]
      <4>1. x \in loans /\ x # None /\ x[1] \notin draining
        BY ZenonT(60), <2>1, <1>0, <1>3 DEF TypeOK
      <4> QED BY <4>1, <1>3
    <3>2. PICK u \in Transactions : dbc[u] = x
      BY <2>1, <3>1 DEF HandoverInv, LoansAreHeld
    <3> QED BY <3>1, <3>2, <1>1
  <2>2. ASSUME NEW u \in Transactions, dbc'[u] # None
        PROVE  /\ dbc'[u] \in loans' /\ dbc'[u][1] = pool'[u]
               /\ \A v \in Transactions \ {u} : dbc'[v] # dbc'[u]
    BY <2>2, <1>1, <1>2, <1>3 DEF HandoverInv, LoansAreHeld
  <2> QED BY <2>1, <2>2 DEF LoansAreHeld
<1>5. CleanHandover'
  <2> SUFFICES ASSUME NEW x \in Connections, session'[x] # None PROVE dbc'[session'[x]] = x
    BY DEF CleanHandover
  <2>1. session'[x] = session[x] /\ session[x] \in Transactions /\ x # dbc[t]
    BY ZenonT(60) DEF TypeOK
  <2>2. dbc[session[x]] = x
    BY <2>1 DEF HandoverInv, CleanHandover
  <2> QED BY <2>1, <2>2, <1>1
<1>6. HoldsWhileBegun'
  BY <1>1, <1>2 DEF HandoverInv, HoldsWhileBegun, TypeOK
<1>7. SessionIsBegun'
  <2> SUFFICES ASSUME NEW x \in Connections, session'[x] # None
               PROVE  step'[session'[x]] = "begun" /\ x \notin broken'
    BY DEF SessionIsBegun
  <2>1. session'[x] = session[x] /\ session[x] \in Transactions /\ x # dbc[t]
    BY DEF TypeOK
  <2>2. dbc[session[x]] = x
    BY <2>1 DEF HandoverInv, CleanHandover
  <2> QED BY <2>1, <2>2 DEF HandoverInv, SessionIsBegun
<1> QED BY <1>4, <1>5, <1>6, <1>7 DEF HandoverInv

\* Nobody's connection and nobody's loan changes.
LEMMA SessionKeepsLoans ==
    ASSUME TypeOK, HandoverInv, UNCHANGED <<loans, pool, dbc>>, draining \subseteq draining',
           \A x \in Connections : session'[x] # None =>
               session'[x] = session[x] /\ (x \in broken' => x \in broken),
           \A t \in Transactions : \/ step'[t] = step[t]
                                   \/ step[t] = "set" /\ step'[t] = "BEGIN"
                                   \/ step[t] = "acquiring"
    PROVE  HandoverInv'
<1>1. LoansAreHeld'
  BY DEF HandoverInv, LoansAreHeld
<1>2. CleanHandover' /\ HoldsWhileBegun'
  BY DEF HandoverInv, CleanHandover, HoldsWhileBegun
<1>3. SessionIsBegun'
  <2> SUFFICES ASSUME NEW x \in Connections, session'[x] # None
               PROVE  step'[session'[x]] = "begun" /\ x \notin broken'
    BY DEF SessionIsBegun
  <2>1. session'[x] = session[x] /\ session[x] \in Transactions
    BY ZenonT(60) DEF TypeOK
  <2> QED BY <2>1 DEF HandoverInv, SessionIsBegun
<1> QED BY <1>1, <1>2, <1>3 DEF HandoverInv

\* The connection of a transaction that is not begun, or that is broken, has
\* no database transaction.
LEMMA NoSession ==
    ASSUME TypeOK, HandoverInv, NEW t \in Transactions,
           dbc[t] # None => step[t] # "begun" \/ dbc[t] \in broken
    PROVE  \A x \in Connections : session[x] = IF x = dbc[t] THEN None ELSE session[x]
<1> SUFFICES ASSUME dbc[t] \in Connections, session[dbc[t]] # None PROVE FALSE
  OBVIOUS
<1>0. None \notin Connections
  BY TransactionsAssumption DEF Connections
<1>1. dbc[t] # None
  BY <1>0
<1>2. session \in [Connections -> Transactions \cup {None}]
  BY DEF TypeOK
<1>3. session[dbc[t]] = t
  BY <1>1, <1>2 DEF HandoverInv, CleanHandover, LoansAreHeld
<1> QED BY <1>1, <1>3 DEF HandoverInv, SessionIsBegun

LEMMA HandoverStep == TypeOK /\ HandoverInv /\ [Next]_vars => HandoverInv'
<1> SUFFICES ASSUME TypeOK, HandoverInv, [Next]_vars PROVE HandoverInv'
  OBVIOUS
<1>0. dbc \in [Transactions -> Connections \cup {None}] /\ None \notin Connections
      /\ session \in [Connections -> Transactions \cup {None}]
  BY TransactionsAssumption DEF TypeOK, Connections
<1>1. ASSUME NEW t \in Transactions, NEW n \in Tenants, Begin(t, n) PROVE HandoverInv'
  <2>1. dbc[t] = None /\ UNCHANGED <<loans, dbc, draining, session, broken>>
    BY <1>1 DEF Begin, dbVars, HandoverInv, HoldsWhileBegun
  <2>2. \A u \in Transactions \ {t} : pool'[u] = pool[u] /\ step'[u] = step[u]
    BY <1>1 DEF Begin, TypeOK
  <2>3. LoansAreHeld' /\ CleanHandover' /\ HoldsWhileBegun'
    BY <2>1, <2>2 DEF HandoverInv, LoansAreHeld, CleanHandover, HoldsWhileBegun
  <2>4. SessionIsBegun'
    BY <1>0, <2>1, <2>2 DEF HandoverInv, SessionIsBegun, CleanHandover
  <2> QED BY <2>3, <2>4 DEF HandoverInv
<1>2. ASSUME NEW t \in Transactions, NEW x \in Connections, Granted(t, x) PROVE HandoverInv'
  <2>1. dbc[t] = None /\ dbc' = [dbc EXCEPT ![t] = x] /\ loans' = loans \cup {x}
        /\ UNCHANGED <<draining, session, broken, pool>> /\ x \notin loans /\ x[1] = pool[t]
        /\ step' = [step EXCEPT ![t] = "set"]
    BY <1>2 DEF Granted, dbVars, HandoverInv, HoldsWhileBegun
  <2>2. \A u \in Transactions : dbc[u] # x
    BY <2>1, <1>0 DEF HandoverInv, LoansAreHeld
  <2>3. LoansAreHeld'
    <3>1. ASSUME NEW y \in loans', y[1] \notin draining' PROVE \E u \in Transactions : dbc'[u] = y
      <4>1. CASE y = x
        BY <4>1, <2>1, <1>0
      <4>2. CASE y # x
        <5>1. PICK u \in Transactions : dbc[u] = y
          BY <3>1, <4>2, <2>1 DEF HandoverInv, LoansAreHeld
        <5>2. y # None
          BY ZenonT(60), <3>1, <4>2, <2>1, <1>0 DEF TypeOK
        <5> QED BY <5>1, <5>2, <2>1, <1>0
      <4> QED BY <4>1, <4>2
    <3>2. ASSUME NEW u \in Transactions, dbc'[u] # None
          PROVE  /\ dbc'[u] \in loans' /\ dbc'[u][1] = pool'[u]
                 /\ \A v \in Transactions \ {u} : dbc'[v] # dbc'[u]
      BY <3>2, <2>1, <2>2, <1>0 DEF HandoverInv, LoansAreHeld
    <3> QED BY <3>1, <3>2 DEF LoansAreHeld
  <2>4. CleanHandover' /\ SessionIsBegun'
    <3> SUFFICES ASSUME NEW y \in Connections, session[y] # None
                 PROVE  dbc'[session[y]] = y /\ step'[session[y]] = "begun" /\ y \notin broken
      BY <2>1 DEF CleanHandover, SessionIsBegun
    <3>1. session[y] \in Transactions /\ dbc[session[y]] = y
      BY <1>0 DEF HandoverInv, CleanHandover
    <3>2. step[session[y]] = "begun" /\ y \notin broken
      BY DEF HandoverInv, SessionIsBegun
    <3> QED BY ZenonT(60), <3>1, <3>2, <2>1, <1>0 DEF TypeOK
  <2>5. HoldsWhileBegun'
    BY <2>1, <1>0 DEF TypeOK, HandoverInv, HoldsWhileBegun
  <2> QED BY <2>3, <2>4, <2>5 DEF HandoverInv
<1>3. ASSUME NEW t \in Transactions, Refused(t) \/ SetDone(t) PROVE HandoverInv'
  <2>1. UNCHANGED <<loans, pool, dbc, draining, session, broken>>
    BY <1>3 DEF Refused, SetDone, poolVars, dbVars
  <2>2. \A u \in Transactions : \/ step'[u] = step[u]
                                \/ step[u] = "set" /\ step'[u] = "BEGIN"
                                \/ step[u] = "acquiring"
    BY <1>3 DEF Refused, SetDone, TypeOK
  <2> QED BY <2>1, <2>2, SessionKeepsLoans
<1>4. ASSUME NEW t \in Transactions, BeginDone(t) PROVE HandoverInv'
  <2>1. UNCHANGED <<loans, pool, dbc, draining, broken>> /\ step' = [step EXCEPT ![t] = "begun"]
    BY <1>4 DEF BeginDone, poolVars
  <2>2. LoansAreHeld' /\ HoldsWhileBegun'
    BY ZenonT(60), <2>1 DEF HandoverInv, LoansAreHeld, HoldsWhileBegun, TypeOK
  <2>3. \A x \in Connections : session'[x] # None =>
            \/ session'[x] = session[x]
            \/ session'[x] = t /\ dbc[t] = x /\ x \notin broken
    BY <1>4, <1>0 DEF BeginDone
  <2>4. CleanHandover'
    BY <2>1, <2>3 DEF HandoverInv, CleanHandover
  <2>5. \A u \in Transactions : step[u] = "begun" \/ u = t => step'[u] = "begun"
    BY <2>1 DEF TypeOK
  <2>6. SessionIsBegun'
    <3> SUFFICES ASSUME NEW x \in Connections, session'[x] # None
                 PROVE  step'[session'[x]] = "begun" /\ x \notin broken
      BY <2>1 DEF SessionIsBegun
    <3> QED BY <1>0, <2>3, <2>5 DEF HandoverInv, SessionIsBegun
  <2> QED BY <2>2, <2>4, <2>6 DEF HandoverInv
<1>5. ASSUME NEW t \in Transactions, BeginFailed(t) PROVE HandoverInv'
  <2>1. UNCHANGED <<draining, pool, broken, session>> /\ step[t] # "begun" /\ Release(t)
        /\ \A u \in Transactions \ {t} : step'[u] = step[u]
    BY <1>5 DEF BeginFailed, dbVars, TypeOK
  <2> QED BY <2>1, <1>0, NoSession, ReleaseKeepsLoans
<1>6. ASSUME NEW t \in Transactions, Execute(t) PROVE HandoverInv'
  <2>1. UNCHANGED <<loans, pool, dbc, draining, broken, step>>
    BY <1>6 DEF Execute, poolVars, txVars
  <2>2. \A x \in Connections : session'[x] # None =>
            \/ session'[x] = session[x]
            \/ session'[x] = t /\ dbc[t] = x /\ x \notin broken /\ step[t] = "begun"
    BY <1>6, <1>0 DEF Execute
  <2>3. LoansAreHeld' /\ HoldsWhileBegun'
    BY <2>1 DEF HandoverInv, LoansAreHeld, HoldsWhileBegun
  <2>4. CleanHandover' /\ SessionIsBegun'
    BY <2>1, <2>2 DEF HandoverInv, CleanHandover, SessionIsBegun
  <2> QED BY <2>3, <2>4 DEF HandoverInv
<1>7. ASSUME NEW t \in Transactions, Commit(t) \/ Rollback(t) \/ CommitFailed(t) PROVE HandoverInv'
  <2>1. UNCHANGED <<loans, pool, dbc, draining, session, broken, step>>
    BY <1>7 DEF Commit, Rollback, CommitFailed, poolVars, dbVars
  <2> QED BY <2>1, SessionKeepsLoans
<1>8. ASSUME NEW t \in Transactions, CommitDone(t) \/ RollbackDone(t) PROVE HandoverInv'
  <2>1. UNCHANGED <<draining, pool, broken, step>> /\ Release(t)
        /\ session' = [session EXCEPT ![dbc[t]] = None]
    BY <1>8 DEF CommitDone, RollbackDone
  <2>2. \A x \in Connections : session'[x] = IF x = dbc[t] THEN None ELSE session[x]
    BY <2>1, <1>0
  <2> QED BY <2>1, <2>2, <1>0, ReleaseKeepsLoans
<1>9. ASSUME NEW t \in Transactions, RollbackFailed(t) PROVE HandoverInv'
  <2>1. UNCHANGED <<draining, pool, broken, session, step>> /\ Release(t)
        /\ (dbc[t] # None => dbc[t] \in broken)
    BY <1>9 DEF RollbackFailed, dbVars
  <2> QED BY <2>1, <1>0, NoSession, ReleaseKeepsLoans
<1>10. ASSUME NEW t \in Transactions, Close(t) PROVE HandoverInv'
  <2>1. Release(t) /\ UNCHANGED <<draining, pool, step>> /\ dbc[t] \in broken /\ dbc[t] \in Connections
    BY <1>10, <1>0 DEF Close, Release
  <2>2. \A x \in Connections : session[x] = IF x = dbc[t] THEN None ELSE session[x]
    BY <2>1, NoSession
  <2>3. broken' \subseteq broken /\ \A x \in Connections : session'[x] = session[x]
    BY <1>10, <2>1, <2>2, <1>0 DEF Close, Renew, dbVars
  <2>4. session' \in [Connections -> Transactions \cup {None}]
    BY <1>10, <2>1, <1>0 DEF Close, Renew, dbVars
  <2> QED BY <2>1, <2>2, <2>3, <2>4, ReleaseKeepsLoans
<1>11. ASSUME NEW x \in Connections, Break(x) PROVE HandoverInv'
  <2>1. UNCHANGED <<loans, pool, dbc, draining, step>> /\ Lose({x})
    BY <1>11 DEF Break, poolVars, txVars
  <2>2. \A y \in Connections : session'[y] # None =>
            session'[y] = session[y] /\ (y \in broken' => y \in broken)
    BY <2>1 DEF Lose
  <2> QED BY <2>1, <2>2, SessionKeepsLoans
<1>12. ASSUME NEW x \in Connections, Replaced(x) PROVE HandoverInv'
  <2>1. UNCHANGED <<loans, pool, dbc, draining, step>> /\ Renew(x)
    BY <1>12 DEF Replaced, poolVars, txVars
  <2>2. \A y \in Connections : session'[y] # None =>
            session'[y] = session[y] /\ (y \in broken' => y \in broken)
    BY <2>1, <1>0 DEF Renew
  <2> QED BY <2>1, <2>2, SessionKeepsLoans
<1>13. ASSUME NEW n \in Tenants, Disconnect(n) PROVE HandoverInv'
  <2>1. UNCHANGED <<loans, pool, dbc, session, broken>> /\ draining \subseteq draining'
        /\ \A u \in Transactions : step'[u] = step[u] \/ step[u] = "acquiring"
    BY <1>13 DEF Disconnect, dbVars
  <2> QED BY <2>1, SessionKeepsLoans
<1>14. ASSUME NEW p \in Pools, Clear(p) PROVE HandoverInv'
  <2>1. UNCHANGED <<loans, pool, dbc, draining, step>> /\ Lose({x \in Connections : x[1] = p})
    BY <1>14 DEF Clear, txVars
  <2>2. \A y \in Connections : session'[y] # None =>
            session'[y] = session[y] /\ (y \in broken' => y \in broken)
    BY <2>1 DEF Lose
  <2> QED BY <2>1, <2>2, SessionKeepsLoans
<1>15. CASE UNCHANGED vars
  BY <1>15, SessionKeepsLoans DEF vars, poolVars, dbVars, txVars
<1> QED BY <1>1, <1>2, <1>3, <1>4, <1>5, <1>6, <1>7, <1>8, <1>9, <1>10, <1>11, <1>12,
           <1>13, <1>14, <1>15 DEF Next, TransactionNext

\* The inductive invariant of the transactions: who holds a connection, and
\* whose database transaction is open on it.
THEOREM HandoverInvariant == Spec => [](TypeOK /\ HandoverInv)
<1>1. Init => HandoverInv
  BY DEF Init, HandoverInv, LoansAreHeld, CleanHandover, HoldsWhileBegun, SessionIsBegun
<1> QED BY <1>1, TypeCorrect, HandoverStep, PTL DEF Spec

\* A pool's loans and what the transactions hold are the same (begin, release,
\* destroy): whatever the client, the driver and disconnect() do.
THEOREM LoansHeld == Spec => []LoansAreHeld
BY HandoverInvariant, PTL DEF HandoverInv

\* No connection changes hands with an open database transaction.
THEOREM HandoverIsClean == Spec => []CleanHandover
BY HandoverInvariant, PTL DEF HandoverInv

-----------------------------------------------------------------------------
(* What clients are told                                                   *)

\* Clients await their queries before they end a transaction.
Awaiting == \A d \in Deployments : d.awaits

\* A transaction that is being ended was begun, one that failed or ended
\* holds nothing.
EndingInv ==
    \A t \in Transactions :
        /\ ending[t] # "no" => step[t] \in {"begun", "failed"}
        /\ Told(t) \/ step[t] = "failed" => dbc[t] = None

LEMMA EndingStep ==
    ASSUME Awaiting, TypeOK, HandoverInv, EndingInv, [Next]_vars
    PROVE  EndingInv'
<1>0. deployment.awaits
  BY DEF Awaiting, TypeOK
<1>1. ASSUME NEW t \in Transactions, \E n \in Tenants : Begin(t, n) PROVE EndingInv'
  BY ZenonT(60), <1>1 DEF Begin, dbVars, EndingInv, TypeOK, Told
<1>2. ASSUME NEW t \in Transactions, \E x \in Connections : Granted(t, x) PROVE EndingInv'
  BY ZenonT(60), <1>2 DEF Granted, dbVars, EndingInv, TypeOK, Told
<1>3. ASSUME NEW t \in Transactions, Refused(t) \/ SetDone(t) \/ BeginDone(t) PROVE EndingInv'
  <2>1. UNCHANGED <<dbc, ending>>
    BY <1>3 DEF Refused, SetDone, BeginDone, dbVars, poolVars
  <2>2. \/ step' = [step EXCEPT ![t] = "failed"] /\ dbc[t] = None
        \/ step' = [step EXCEPT ![t] = "BEGIN"] /\ step[t] = "set"
        \/ step' = [step EXCEPT ![t] = "begun"] /\ step[t] = "BEGIN"
    BY <1>3 DEF Refused, SetDone, BeginDone, HandoverInv, HoldsWhileBegun
  <2> QED BY ZenonT(60), <2>1, <2>2 DEF EndingInv, TypeOK, Told
<1>4. ASSUME NEW t \in Transactions, BeginFailed(t) PROVE EndingInv'
  <2>1. dbc' = [dbc EXCEPT ![t] = None] /\ step' = [step EXCEPT ![t] = "failed"] /\ ending' = ending
    BY <1>4, ReleaseType DEF BeginFailed
  <2> QED BY ZenonT(60), <2>1 DEF EndingInv, TypeOK, Told
<1>5. CASE \/ \E t \in Transactions : Execute(t)
           \/ \E x \in Connections : Break(x) \/ Replaced(x)
  BY <1>5 DEF Execute, Break, Replaced, txVars, EndingInv, Told
<1>6. ASSUME NEW t \in Transactions, Commit(t) \/ Rollback(t) PROVE EndingInv'
  <2>1. UNCHANGED <<dbc, step>> /\ step[t] \in {"begun", "failed"}
        /\ ending' = [ending EXCEPT ![t] = ending'[t]]
        /\ (ending'[t] \in {"committed", "rolled back", "failed"} => dbc[t] = None)
    BY ZenonT(60), <1>6, <1>0 DEF Commit, Rollback, MayEnd, TypeOK
  <2> QED BY ZenonT(60), <2>1 DEF EndingInv, TypeOK, Told
<1>7. ASSUME NEW t \in Transactions, CommitFailed(t) PROVE EndingInv'
  BY ZenonT(60), <1>7 DEF CommitFailed, Ends, EndingInv, TypeOK, Told
<1>8. ASSUME NEW t \in Transactions, CommitDone(t) \/ RollbackDone(t) \/ RollbackFailed(t) PROVE EndingInv'
  <2>1. dbc' = [dbc EXCEPT ![t] = None] /\ step' = step /\ step[t] \in {"begun", "failed"}
        /\ ending' = [ending EXCEPT ![t] = ending'[t]]
    BY <1>8, ReleaseType DEF CommitDone, RollbackDone, RollbackFailed, Ends, TypeOK
  <2> QED BY ZenonT(60), <2>1 DEF EndingInv, TypeOK, Told
<1>9. ASSUME NEW t \in Transactions, Close(t) PROVE EndingInv'
  BY <1>9 DEF Close, EndingInv, TypeOK, Told
<1>10. ASSUME NEW n \in Tenants, Disconnect(n) PROVE EndingInv'
  <2>1. UNCHANGED <<dbc, ending>>
        /\ \A t \in Transactions : \/ step'[t] = step[t]
                                   \/ step[t] = "acquiring" /\ step'[t] = "failed"
    BY <1>10 DEF Disconnect
  <2> QED BY <2>1 DEF EndingInv, HandoverInv, HoldsWhileBegun, Told
<1>11. ASSUME NEW p \in Pools, Clear(p) PROVE EndingInv'
  BY <1>11 DEF Clear, txVars, EndingInv, Told
<1>12. CASE UNCHANGED vars
  BY <1>12 DEF vars, txVars, EndingInv, Told
<1> QED BY <1>1, <1>2, <1>3, <1>4, <1>5, <1>6, <1>7, <1>8, <1>9, <1>10, <1>11, <1>12
        DEF Next, TransactionNext

\* If clients await their queries, a transaction that ended, or whose begin()
\* failed, keeps no connection: the race that the hasty ones run into
\* (MCTransactionsRace) is the only way to lose one.
THEOREM AwaitedEndsHoldNothing == ASSUME Awaiting PROVE Spec => []EndedHoldsNothing
<1>1. Init => EndingInv
  BY DEF Init, EndingInv, Told
<1>2. TypeOK /\ HandoverInv /\ EndingInv /\ [Next]_vars => EndingInv'
  BY EndingStep
<1>3. EndingInv => EndedHoldsNothing
  BY DEF EndingInv, EndedHoldsNothing
<1> QED BY <1>1, <1>2, <1>3, HandoverInvariant, PTL DEF Spec

\* With a driver that does not tell of closed connections: a transaction
\* keeps its connection until it ends, what it wrote is open as long as that
\* works, and then became what the client was told.
OutcomeInv ==
    ~deployment.closes =>
        \A t \in Transactions :
            /\ step[t] # "begun" => work[t] = "none"
            /\ step[t] \in {"set", "BEGIN", "begun"} /\ ending[t] = "no" => dbc[t] # None
            /\ ending[t] \in {"COMMIT", "ROLLBACK"} => dbc[t] # None
            /\ dbc[t] # None /\ dbc[t] \notin broken => work[t] \in {"none", "open"}
            /\ ending[t] = "committed" => work[t] \in {"none", "durable"}
            /\ ending[t] = "rolled back" => work[t] # "durable"

\* A lost connection leaves the work of those who hold others, and decides
\* that of its own.
LEMMA LoseOutcome ==
    ASSUME TypeOK, EndingInv, OutcomeInv, NEW X \in SUBSET Connections, Lose(X),
           UNCHANGED <<deployment, dbc, step, ending>>
    PROVE  OutcomeInv'
<1> SUFFICES ASSUME ~deployment.closes, NEW t \in Transactions
             PROVE  /\ step[t] # "begun" => work'[t] = "none"
                    /\ dbc[t] # None /\ dbc[t] \notin broken' => work'[t] \in {"none", "open"}
                    /\ ending[t] = "committed" => work'[t] \in {"none", "durable"}
                    /\ ending[t] = "rolled back" => work'[t] # "durable"
  BY DEF OutcomeInv
<1>1. PICK survivors \in SUBSET {u \in Transactions : ending[u] = "COMMIT"} :
         work' = [u \in Transactions |->
             IF work[u] # "open" \/ dbc[u] \notin X THEN work[u]
             ELSE IF u \in survivors THEN "durable" ELSE "lost"]
  BY DEF Lose
<1>2. broken' = broken \cup X
  BY DEF Lose
<1>3. CASE dbc[t] \notin X \/ work[t] # "open"
  BY <1>1, <1>2, <1>3 DEF OutcomeInv
<1>4. CASE dbc[t] \in X /\ work[t] = "open"
  <2>1. dbc[t] # None
    BY <1>4, TransactionsAssumption DEF Connections
  <2>2. step[t] = "begun" /\ ending[t] \notin {"committed", "rolled back"}
    BY <1>4, <2>1 DEF EndingInv, OutcomeInv, Told
  <2> QED BY <1>2, <1>4, <2>2
<1> QED BY <1>3, <1>4

LEMMA OutcomeStep ==
    ASSUME Awaiting, TypeOK, HandoverInv, EndingInv, OutcomeInv, [Next]_vars
    PROVE  OutcomeInv'
<1>0. deployment.awaits /\ deployment' = deployment
      /\ dbc \in [Transactions -> Connections \cup {None}] /\ None \notin Connections
  BY ZenonT(60), TransactionsAssumption DEF Awaiting, TypeOK, Connections, Next, TransactionNext, vars,
     Begin, Granted, Refused, SetDone, BeginDone, BeginFailed, Execute, Commit, CommitDone,
     CommitFailed, Rollback, RollbackDone, RollbackFailed, Close, Break, Replaced, Disconnect, Clear
<1> SUFFICES ASSUME ~deployment.closes PROVE OutcomeInv'
  BY <1>0 DEF OutcomeInv
<1>1. ASSUME NEW t \in Transactions, \E n \in Tenants : Begin(t, n) PROVE OutcomeInv'
  BY ZenonT(60), <1>1 DEF Begin, dbVars, OutcomeInv, TypeOK
<1>2. ASSUME NEW t \in Transactions, NEW x \in Connections, Granted(t, x) PROVE OutcomeInv'
  <2>1. UNCHANGED <<work, broken, ending>> /\ dbc' = [dbc EXCEPT ![t] = x]
        /\ step' = [step EXCEPT ![t] = "set"] /\ step[t] = "acquiring"
    BY <1>2 DEF Granted, dbVars
  <2> QED BY ZenonT(60), <1>0, <2>1 DEF OutcomeInv, TypeOK
<1>3. ASSUME NEW t \in Transactions, Refused(t) \/ SetDone(t) \/ BeginDone(t) PROVE OutcomeInv'
  <2>1. UNCHANGED <<dbc, ending, work, broken>>
    BY <1>3 DEF Refused, SetDone, BeginDone, dbVars, poolVars
  <2>2. \/ step' = [step EXCEPT ![t] = "failed"] /\ step[t] = "acquiring"
        \/ step' = [step EXCEPT ![t] = "BEGIN"] /\ step[t] = "set"
        \/ step' = [step EXCEPT ![t] = "begun"] /\ step[t] = "BEGIN"
    BY <1>3 DEF Refused, SetDone, BeginDone
  <2>3. CASE step' = [step EXCEPT ![t] = "failed"] /\ step[t] = "acquiring"
    BY ZenonT(60), <2>1, <2>3 DEF OutcomeInv, TypeOK
  <2>4. CASE step' = [step EXCEPT ![t] = "BEGIN"] /\ step[t] = "set"
    BY ZenonT(60), <2>1, <2>4 DEF OutcomeInv, TypeOK
  <2>5. CASE step' = [step EXCEPT ![t] = "begun"] /\ step[t] = "BEGIN"
    BY ZenonT(60), <2>1, <2>5 DEF OutcomeInv, TypeOK
  <2> QED BY <2>2, <2>3, <2>4, <2>5
<1>4. ASSUME NEW t \in Transactions, BeginFailed(t) PROVE OutcomeInv'
  <2>1. dbc' = [dbc EXCEPT ![t] = None] /\ step' = [step EXCEPT ![t] = "failed"]
        /\ UNCHANGED <<ending, work, broken>> /\ step[t] \in {"set", "BEGIN"}
    BY <1>4, ReleaseType DEF BeginFailed, dbVars
  <2>2. ending[t] = "no"
    BY <2>1 DEF EndingInv
  <2> QED BY ZenonT(60), <1>0, <2>1, <2>2 DEF OutcomeInv, TypeOK
<1>5. ASSUME NEW t \in Transactions, Execute(t) PROVE OutcomeInv'
  <2>1. UNCHANGED <<dbc, step, ending, broken>> /\ work' = [work EXCEPT ![t] = "open"]
        /\ step[t] = "begun" /\ dbc[t] # None
    BY <1>5 DEF Execute, txVars
  <2>2. ~Told(t)
    BY <2>1 DEF EndingInv
  <2> QED BY ZenonT(60), <1>0, <2>1, <2>2 DEF OutcomeInv, TypeOK, Told
<1>6. ASSUME NEW t \in Transactions, Commit(t) \/ Rollback(t) PROVE OutcomeInv'
  <2>1. UNCHANGED <<dbc, step, work, broken>> /\ ending' = [ending EXCEPT ![t] = ending'[t]]
        /\ ending[t] = "no"
        /\ IF dbc[t] = None THEN ending'[t] \in {"committed", "rolled back"}
           ELSE ending'[t] \in {"COMMIT", "ROLLBACK"}
    BY <1>6 DEF Commit, Rollback, MayEnd, TypeOK, dbVars
  <2>2. step[t] \in {"begun", "failed"}
    BY <1>0, <1>6 DEF Commit, Rollback, MayEnd
  <2>3. dbc[t] = None => work[t] = "none"
    BY <2>1, <2>2, <1>0 DEF OutcomeInv
  <2> QED BY ZenonT(60), <1>0, <2>1, <2>3 DEF OutcomeInv, TypeOK
<1>7. ASSUME NEW t \in Transactions, CommitFailed(t) PROVE OutcomeInv'
  <2>1. dbc[t] # None /\ ending[t] = "COMMIT"
    BY <1>7, <1>0 DEF CommitFailed, Ends, OutcomeInv
  <2> QED BY ZenonT(60), <1>0, <1>7, <2>1 DEF CommitFailed, dbVars, OutcomeInv, TypeOK
<1>8. ASSUME NEW t \in Transactions, CommitDone(t) \/ RollbackDone(t) PROVE OutcomeInv'
  <2>1. dbc' = [dbc EXCEPT ![t] = None] /\ UNCHANGED <<step, broken>>
        /\ step[t] \in {"begun", "failed"} /\ dbc[t] # None /\ dbc[t] \notin broken
    BY <1>8, ReleaseType DEF CommitDone, RollbackDone, Ends
  <2>2. work[t] \in {"none", "open"} /\ step[t] = "begun"
    BY <1>0, <2>1 DEF OutcomeInv, EndingInv
  <2>3. \/ /\ ending' = [ending EXCEPT ![t] = "committed"]
           /\ work' = [work EXCEPT ![t] = IF @ = "open" THEN "durable" ELSE @]
        \/ /\ ending' = [ending EXCEPT ![t] = "rolled back"]
           /\ work' = [work EXCEPT ![t] = IF @ = "open" THEN "lost" ELSE @]
    BY <1>8 DEF CommitDone, RollbackDone
  <2>4. CASE /\ ending' = [ending EXCEPT ![t] = "committed"]
             /\ work' = [work EXCEPT ![t] = IF @ = "open" THEN "durable" ELSE @]
    BY ZenonT(60), <1>0, <2>1, <2>2, <2>4 DEF OutcomeInv, TypeOK
  <2>5. CASE /\ ending' = [ending EXCEPT ![t] = "rolled back"]
             /\ work' = [work EXCEPT ![t] = IF @ = "open" THEN "lost" ELSE @]
    BY ZenonT(60), <1>0, <2>1, <2>2, <2>5 DEF OutcomeInv, TypeOK
  <2> QED BY <2>3, <2>4, <2>5
<1>9. ASSUME NEW t \in Transactions, RollbackFailed(t) PROVE OutcomeInv'
  <2>1. dbc' = [dbc EXCEPT ![t] = None] /\ UNCHANGED <<step, broken, work>>
        /\ ending' = [ending EXCEPT ![t] = "failed"]
    BY <1>9, ReleaseType DEF RollbackFailed, dbVars
  <2> QED BY ZenonT(60), <1>0, <2>1 DEF OutcomeInv, TypeOK
<1>10. ASSUME NEW t \in Transactions, Close(t) PROVE OutcomeInv'
  BY <1>10 DEF Close
<1>11. ASSUME NEW x \in Connections, Break(x) PROVE OutcomeInv'
  BY <1>11, LoseOutcome DEF Break, txVars
<1>12. ASSUME NEW x \in Connections, Replaced(x) PROVE OutcomeInv'
  <2>1. UNCHANGED <<dbc, step, ending, work>> /\ broken' = broken \ {x}
        /\ \A t \in Transactions : dbc[t] # x
    BY <1>0, <1>12 DEF Replaced, Renew, txVars, HandoverInv, LoansAreHeld
  <2> QED BY <1>0, <2>1 DEF OutcomeInv
<1>13. ASSUME NEW n \in Tenants, Disconnect(n) PROVE OutcomeInv'
  <2>1. UNCHANGED <<dbc, ending, work, broken>>
        /\ \A t \in Transactions : \/ step'[t] = step[t]
                                   \/ step[t] = "acquiring" /\ step'[t] = "failed"
    BY <1>13 DEF Disconnect, dbVars
  <2> QED BY <1>0, <2>1 DEF OutcomeInv
<1>14. ASSUME NEW p \in Pools, Clear(p) PROVE OutcomeInv'
  BY <1>14, LoseOutcome DEF Clear, txVars
<1>15. CASE UNCHANGED vars
  BY <1>0, <1>15 DEF vars, txVars, dbVars, OutcomeInv
<1> QED BY <1>1, <1>2, <1>3, <1>4, <1>5, <1>6, <1>7, <1>8, <1>9, <1>10, <1>11, <1>12,
           <1>13, <1>14, <1>15 DEF Next, TransactionNext

\* If clients await their queries, and the driver does not tell of closed
\* connections, what is reported committed is durable and what is reported
\* rolled back is not: however connections break, and with them COMMITs that
\* are under way.
THEOREM AwaitedOutcomesTrue == ASSUME Awaiting PROVE Spec => []OutcomeIsTrue
<1>1. Init => EndingInv /\ OutcomeInv
  BY DEF Init, EndingInv, OutcomeInv, Told
<1>2. TypeOK /\ HandoverInv /\ EndingInv /\ OutcomeInv /\ [Next]_vars => EndingInv' /\ OutcomeInv'
  BY EndingStep, OutcomeStep
<1>3. OutcomeInv => OutcomeIsTrue
  BY DEF OutcomeInv, OutcomeIsTrue
<1> QED BY <1>1, <1>2, <1>3, HandoverInvariant, PTL DEF Spec

----------------------------------------------------------------------------
(***************************************************************************)
(* Transactions use every pool the way PoolContract allows.                *)
(***************************************************************************)

\* A tenant's pool is its own, until disconnect() takes it away.
OwnPools ==
    \A n \in Tenants : pools[n] # None =>
        /\ pools[n] \notin draining
        /\ \A m \in Tenants \ {n} : pools[m] # pools[n]

LEMMA OwnPoolsStep == TypeOK /\ OwnPools /\ [Next]_vars => OwnPools'
<1> SUFFICES ASSUME TypeOK, OwnPools, [Next]_vars PROVE OwnPools'
  OBVIOUS
<1> USE DEF poolVars, dbVars, txVars
<1>1. ASSUME NEW t \in Transactions, NEW n \in Tenants, Begin(t, n) PROVE OwnPools'
  <2>1. PICK p \in PoolFor(n) : pools' = [pools EXCEPT ![n] = p]
    BY <1>1 DEF Begin
  <2>2. draining' = draining
    BY <1>1 DEF Begin
  <2>3. p = pools[n] \/ (p \notin draining /\ \A m \in Tenants : pools[m] # p)
    BY DEF PoolFor, Fresh
  <2> QED BY ZenonT(60), <2>1, <2>2, <2>3 DEF OwnPools, TypeOK
<1>2. ASSUME NEW n \in Tenants, Disconnect(n) PROVE OwnPools'
  BY ZenonT(60), <1>2 DEF Disconnect, OwnPools, TypeOK
<1>3. ASSUME UNCHANGED <<pools, draining>> PROVE OwnPools'
  BY <1>3 DEF OwnPools
<1>4. ASSUME NEW t \in Transactions, TransactionNext(t), \A n \in Tenants : ~Begin(t, n)
      PROVE  OwnPools'
  BY <1>4, <1>3 DEF TransactionNext, Granted, Refused, SetDone, BeginDone, BeginFailed, Execute,
       Commit, CommitDone, CommitFailed, Rollback, RollbackDone, RollbackFailed, Close
<1>5. ASSUME NEW x \in Connections, Break(x) \/ Replaced(x) PROVE OwnPools'
  BY <1>5, <1>3 DEF Break, Replaced
<1>6. ASSUME NEW p \in Pools, Clear(p) PROVE OwnPools'
  BY <1>6, <1>3 DEF Clear
<1>7. CASE UNCHANGED vars
  BY <1>7, <1>3 DEF vars
<1> QED BY <1>1, <1>2, <1>4, <1>5, <1>6, <1>7 DEF Next

-----------------------------------------------------------------------------
(* One pool                                                                *)

Waiting(p) == {t \in Transactions : step[t] = "acquiring" /\ pool[t] = p}
Lent(p) == [t \in Transactions |-> IF pool[t] = p /\ dbc[t] \in Connections THEN dbc[t] ELSE None]

LEMMA SameCardinality ==
    ASSUME NEW p \in Pools, NEW S PROVE Contract(p)!Cardinality(S) = Cardinality(S)
BY DEF Contract!Cardinality, Cardinality

LEMMA FewerThanSlots ==
    ASSUME NEW p, NEW L \in SUBSET ({p} \X Slots), NEW x \in {p} \X Slots, x \notin L
    PROVE  Cardinality(L) < Cardinality(Slots)
<1> DEFINE S == {l[2] : l \in L}
<1>1. IsFiniteSet(Slots) /\ S \cup {x[2]} \subseteq Slots /\ x[2] \notin S
  BY TransactionsAssumption
<1>2. IsFiniteSet(S) /\ IsFiniteSet(S \cup {x[2]})
  BY <1>1, FS_Subset
<1>3. Cardinality(S \cup {x[2]}) = Cardinality(S) + 1
  BY <1>1, <1>2, FS_AddElement
<1>4. Cardinality(S \cup {x[2]}) <= Cardinality(Slots)
  BY <1>1, FS_Subset
<1>5. [l \in L |-> l[2]] \in Injection(L, S)
  BY DEF Injection, IsInjective
<1>6. IsFiniteSet(L) /\ Cardinality(L) <= Cardinality(S)
  BY <1>2, <1>5, FS_Injection
<1>7. Cardinality(L) \in Nat /\ Cardinality(S) \in Nat /\ Cardinality(Slots) \in Nat
  BY <1>1, <1>2, <1>6, FS_CardinalityType
<1> QED BY <1>3, <1>4, <1>6, <1>7

LEMMA LentOfPool ==
    ASSUME NEW p \in Pools, TypeOK, HandoverInv
    PROVE  /\ Contract(p)!LentOut \subseteq loans
           /\ Contract(p)!LentOut \subseteq {p} \X Slots
<1>1. Contract(p)!LentOut = {Lent(p)[t] : t \in Transactions} \ {None}
  BY DEF Contract!LentOut, Lent
<1>2. ASSUME NEW t \in Transactions, Lent(p)[t] # None
      PROVE  Lent(p)[t] \in loans /\ Lent(p)[t] \in {p} \X Slots
  <2>1. pool[t] = p /\ dbc[t] \in Connections /\ Lent(p)[t] = dbc[t] /\ dbc[t] # None
    BY <1>2 DEF Lent
  <2>2. dbc[t] \in loans /\ dbc[t][1] = p
    BY <2>1 DEF HandoverInv, LoansAreHeld
  <2> QED BY <2>1, <2>2 DEF Connections
<1> QED BY <1>1, <1>2

\* What the contract sees stays as it is.
LEMMA Unseen ==
    ASSUME NEW p \in Pools, Waiting(p)' = Waiting(p), Lent(p)' = Lent(p),
           p \in draining' <=> p \in draining
    PROVE  UNCHANGED Contract(p)!contractVars
BY DEF Contract!contractVars, Waiting, Lent

LEMMA SeenReturn ==
    ASSUME NEW p \in Pools, NEW t \in Transactions, Lent(p)[t] # None,
           Lent(p)' = [Lent(p) EXCEPT ![t] = None],
           Waiting(p)' = Waiting(p), p \in draining' <=> p \in draining
    PROVE  Contract(p)!ContractNext
<1>1. Contract(p)!Return(t)
  BY DEF Contract!Return, Waiting, Lent
<1> QED BY <1>1 DEF Contract!ContractNext

\* A transaction releases its connection, or has none.
LEMMA ReleaseReturns ==
    ASSUME NEW p \in Pools, NEW t \in Transactions, TypeOK, Release(t),
           Waiting(p)' = Waiting(p), UNCHANGED <<draining, pool>>
    PROVE  [Contract(p)!ContractNext]_(Contract(p)!contractVars)
<1>0. dbc \in [Transactions -> Connections \cup {None}]
      /\ dbc' = [dbc EXCEPT ![t] = None] /\ None \notin Connections
  BY ReleaseType, TransactionsAssumption DEF TypeOK, Connections
<1>1. CASE Lent(p)[t] = None
  <2>1. Lent(p)' = Lent(p)
    BY <1>0, <1>1 DEF Lent
  <2> QED BY <2>1, Unseen
<1>2. CASE Lent(p)[t] # None
  <2>1. Lent(p)' = [Lent(p) EXCEPT ![t] = None]
    BY <1>0 DEF Lent
  <2> QED BY <1>2, <2>1, SeenReturn
<1> QED BY <1>1, <1>2

\* The pool's calls in begin(), commit(), rollback() and destroy().
LEMMA TransactionKeepsContract ==
    ASSUME NEW p \in Pools, NEW t \in Transactions, TypeOK, HandoverInv, OwnPools,
           TransactionNext(t)
    PROVE  [Contract(p)!ContractNext]_(Contract(p)!contractVars)
<1> USE DEF poolVars, dbVars, txVars
<1>0. None \notin Connections /\ None \notin Pools /\ dbc[t] \in Connections \cup {None}
  BY TransactionsAssumption DEF TypeOK, Connections
<1>1. ASSUME NEW n \in Tenants, Begin(t, n)
      PROVE  [Contract(p)!ContractNext]_(Contract(p)!contractVars)
  <2>1. PICK q \in PoolFor(n) : pool' = [pool EXCEPT ![t] = q]
    BY <1>1 DEF Begin
  <2>2. step[t] = "no" /\ step' = [step EXCEPT ![t] = "acquiring"]
        /\ UNCHANGED <<dbc, draining>> /\ pool[t] = None /\ dbc[t] = None
    BY <1>1 DEF Begin, TypeOK, HandoverInv, HoldsWhileBegun
  <2>3. Lent(p)' = Lent(p) /\ Lent(p)[t] = None
    BY ZenonT(60), <1>0, <2>1, <2>2 DEF Lent, TypeOK
  <2>4. CASE p # q
    <3>1. Waiting(p)' = Waiting(p)
      BY <2>1, <2>2, <2>4 DEF Waiting, TypeOK
    <3> QED BY <2>2, <2>3, <3>1, Unseen
  <2>5. CASE p = q
    <3>1. Waiting(p)' = Waiting(p) \cup {t} /\ t \notin Waiting(p)
      BY <2>1, <2>2, <2>5 DEF Waiting, TypeOK
    <3>2. p \notin draining
      BY <2>5 DEF PoolFor, Fresh, OwnPools
    <3>3. Contract(p)!Ask(t)
      BY <2>2, <2>3, <3>1, <3>2 DEF Contract!Ask, Waiting, Lent
    <3> QED BY <3>3 DEF Contract!ContractNext
  <2> QED BY <2>4, <2>5
<1>2. ASSUME NEW x \in Connections, Granted(t, x)
      PROVE  [Contract(p)!ContractNext]_(Contract(p)!contractVars)
  <2>1. /\ step[t] = "acquiring" /\ step' = [step EXCEPT ![t] = "set"]
        /\ dbc' = [dbc EXCEPT ![t] = x] /\ UNCHANGED <<pool, draining>>
        /\ x[1] = pool[t] /\ x[1] \notin draining /\ x \notin loans
    BY <1>2 DEF Granted
  <2>2. CASE pool[t] # p
    <3>1. Waiting(p)' = Waiting(p)
      BY <2>1, <2>2 DEF Waiting, TypeOK
    <3>2. Lent(p)' = Lent(p)
      <4>1. \A u \in Transactions : pool[u] = p => dbc'[u] = dbc[u]
        BY <2>1, <2>2 DEF TypeOK
      <4> QED BY <2>1, <4>1 DEF Lent
    <3> QED BY <2>1, <3>1, <3>2, Unseen
  <2>3. CASE pool[t] = p
    <3>1. Waiting(p)' = Waiting(p) \ {t} /\ t \in Waiting(p)
      BY ZenonT(60), <2>1, <2>3 DEF Waiting, TypeOK
    <3>2. Lent(p)' = [Lent(p) EXCEPT ![t] = x]
      BY ZenonT(60), <2>1, <2>3, <1>0 DEF Lent, TypeOK
    <3>3. x \in {p} \X Slots /\ x \notin Contract(p)!LentOut
      BY <2>1, <2>3, LentOfPool DEF Connections
    <3>4. Cardinality(Contract(p)!LentOut) < Cardinality(Slots)
      BY <3>3, LentOfPool, FewerThanSlots
    <3>5. Contract(p)!Grant(t, x)
      BY <2>1, <2>3, <3>1, <3>2, <3>3, <3>4, SameCardinality DEF Contract!Grant, Waiting, Lent
    <3> QED BY <3>5 DEF Contract!ContractNext
  <2> QED BY <2>2, <2>3
<1>3. CASE Refused(t)
  <2>1. step[t] = "acquiring" /\ step' = [step EXCEPT ![t] = "failed"]
        /\ UNCHANGED <<pool, dbc, draining>>
    BY <1>3 DEF Refused
  <2>2. Lent(p)' = Lent(p)
    BY <2>1 DEF Lent
  <2>3. CASE pool[t] # p
    <3>1. Waiting(p)' = Waiting(p)
      BY <2>1, <2>3 DEF Waiting, TypeOK
    <3> QED BY <2>1, <2>2, <3>1, Unseen
  <2>4. CASE pool[t] = p
    <3>1. Waiting(p)' = Waiting(p) \ {t} /\ t \in Waiting(p)
      BY <2>1, <2>4 DEF Waiting, TypeOK
    <3>2. Contract(p)!Refuse(t)
      BY <2>1, <2>2, <3>1 DEF Contract!Refuse, Waiting, Lent
    <3> QED BY <3>2 DEF Contract!ContractNext
  <2> QED BY <2>3, <2>4
<1>4. ASSUME UNCHANGED <<pool, dbc, draining>>,
             \A u \in Transactions : step[u] = "acquiring" <=> step'[u] = "acquiring"
      PROVE  [Contract(p)!ContractNext]_(Contract(p)!contractVars)
  BY <1>4, Unseen DEF Waiting, Lent
<1>5. CASE SetDone(t) \/ BeginDone(t) \/ Execute(t) \/ Commit(t) \/ Rollback(t) \/ CommitFailed(t)
  <2>1. UNCHANGED <<pool, dbc, draining>>
    BY <1>5 DEF SetDone, BeginDone, Execute, Commit, Rollback, CommitFailed
  <2>2. \A u \in Transactions : step[u] = "acquiring" <=> step'[u] = "acquiring"
    BY ZenonT(60), <1>5 DEF SetDone, BeginDone, Execute, Commit, Rollback, CommitFailed, TypeOK
  <2> QED BY <2>1, <2>2, <1>4
<1>6. CASE BeginFailed(t) \/ CommitDone(t) \/ RollbackDone(t) \/ RollbackFailed(t) \/ Close(t)
  <2>1. UNCHANGED <<pool, draining>>
    BY <1>6 DEF BeginFailed, CommitDone, RollbackDone, RollbackFailed, Close
  <2>2. \A u \in Transactions : step[u] = "acquiring" <=> step'[u] = "acquiring"
    BY <1>6 DEF BeginFailed, CommitDone, RollbackDone, RollbackFailed, Close, TypeOK
  <2>3. Waiting(p)' = Waiting(p)
    BY <2>1, <2>2 DEF Waiting
  <2>4. Release(t)
    BY <1>6, <1>0 DEF BeginFailed, CommitDone, RollbackDone, RollbackFailed, Close, Release
  <2> QED BY <2>1, <2>3, <2>4, ReleaseReturns
<1> QED BY <1>1, <1>2, <1>3, <1>5, <1>6 DEF TransactionNext

\* Every step is one step of the contract with pool p, or none.
LEMMA ContractStep ==
    ASSUME NEW p \in Pools, TypeOK, HandoverInv, OwnPools, [Next]_vars
    PROVE  [Contract(p)!ContractNext]_(Contract(p)!contractVars)
<1> USE DEF poolVars, dbVars, txVars
<1>1. ASSUME UNCHANGED <<pool, dbc, step, draining>>
      PROVE  [Contract(p)!ContractNext]_(Contract(p)!contractVars)
  BY <1>1, Unseen DEF Waiting, Lent
<1>2. ASSUME NEW n \in Tenants, Disconnect(n)
      PROVE  [Contract(p)!ContractNext]_(Contract(p)!contractVars)
  <2>1. /\ pools[n] \in Pools /\ pools[n] \notin draining
        /\ draining' = draining \cup {pools[n]}
        /\ step' = [t \in Transactions |->
               IF step[t] = "acquiring" /\ pool[t] = pools[n] THEN "failed" ELSE step[t]]
        /\ UNCHANGED <<pool, dbc>>
    BY ZenonT(60), <1>2 DEF Disconnect, OwnPools, TypeOK
  <2>2. Lent(p)' = Lent(p)
    BY <2>1 DEF Lent
  <2>3. CASE p # pools[n]
    <3>1. Waiting(p)' = Waiting(p) /\ (p \in draining' <=> p \in draining)
      BY <2>1, <2>3 DEF Waiting
    <3> QED BY <2>2, <3>1, Unseen
  <2>4. CASE p = pools[n]
    <3>1. Waiting(p)' = {} /\ p \notin draining /\ p \in draining'
      BY <2>1, <2>4 DEF Waiting
    <3>2. Contract(p)!Close
      BY <2>2, <3>1 DEF Contract!Close, Waiting, Lent
    <3> QED BY <3>2 DEF Contract!ContractNext
  <2> QED BY <2>3, <2>4
<1>3. ASSUME NEW x \in Connections, Break(x) \/ Replaced(x)
      PROVE  [Contract(p)!ContractNext]_(Contract(p)!contractVars)
  BY <1>3, <1>1 DEF Break, Replaced
<1>4. ASSUME NEW q \in Pools, Clear(q)
      PROVE  [Contract(p)!ContractNext]_(Contract(p)!contractVars)
  BY <1>4, <1>1 DEF Clear
<1>5. CASE UNCHANGED vars
  BY <1>5, <1>1 DEF vars
<1> QED BY <1>2, <1>3, <1>4, <1>5, TransactionKeepsContract DEF Next

\* begin, commit, rollback, destroy and disconnect call every pool the way
\* PoolContract allows: what PoolRefinesContract shows of generic-pool.js
\* from the other side.
THEOREM TransactionsKeepContract == Spec => PoolsKeepContract
<1>1. Init => OwnPools
  BY DEF Init, OwnPools
<1>2. Init => \A p \in Pools : Contract(p)!ContractInit
  <2> SUFFICES ASSUME Init, NEW p \in Pools PROVE Contract(p)!ContractInit
    OBVIOUS
  <2>1. Waiting(p) = {} /\ Lent(p) = [t \in Transactions |-> None] /\ draining = {}
    BY DEF Init, Waiting, Lent
  <2>2. Cardinality(Slots) \in Nat
    BY FS_CardinalityType, TransactionsAssumption
  <2> QED BY <2>1, <2>2 DEF Contract!ContractInit, Waiting, Lent
<1>3. TypeOK /\ HandoverInv /\ OwnPools /\ [Next]_vars =>
         [\A p \in Pools : [Contract(p)!ContractNext]_(Contract(p)!contractVars)]_vars
  BY ContractStep
<1> QED BY <1>1, <1>2, <1>3, OwnPoolsStep, HandoverInvariant, PTL DEF Spec, PoolsKeepContract
=============================================================================
