--------------------------- MODULE SessionsProofs ---------------------------
(***************************************************************************)
(* Connections are lent to those who hold them, statements meet their own  *)
(* session variables and work becomes durable by its own commit: for every *)
(* number of transactions and connections, every service and all retries.  *)
(***************************************************************************)
EXTENDS Sessions, SequenceTheorems, TLAPS

Places == [Connections ->
    [state   : {"unused", "none", "connecting", "refreshing", "hung", "idle", "lent"},
     attempt : Nat, elapsed : Nat, void : BOOLEAN]]

TypeInv ==
    /\ queue \in Seq(Transactions)
    /\ slot \in Places
    /\ drained \in {"open", "leaving", "drained", "cleared"}
    /\ step \in [Transactions ->
           {"unused", "no", "waiting", "set", "BEGIN", "begun", "failed",
            "committed", "rolled back", "cut off"}]
    /\ dbc \in [Transactions -> Connections \cup {None}]
    /\ sent \in [Transactions -> Connections \cup {None}]
    /\ variables \in [Connections -> [Names -> Transactions \cup {None}]]
    /\ seen \in [Transactions ->
           [late : BOOLEAN, variables : [Names -> Transactions \cup {None}]]]
    /\ open \in [Connections -> SUBSET Transactions]
    /\ durable \subseteq Transactions

\* Who waits is in the queue once, so that who is lent a connection waits for
\* no other.
QueueInv ==
    /\ \A i \in 1 .. Len(queue) : step[queue[i]] = "waiting"
    /\ \A i, j \in 1 .. Len(queue) : queue[i] = queue[j] => i = j

\* A transaction holds a connection from the end of the wait to its own end.
HoldInv ==
    /\ LentIsHeld
    /\ \A t \in Transactions : dbc[t] # None <=> step[t] \in {"set", "BEGIN", "begun"}

\* The variables v are those of transaction t.
Mine(t, v, db) ==
    v["id"] = t /\ v["locale"] = t /\ (db = "sqlite" => v["foo"] \in {t, None})

\* On SQLite a connection that is not held, or not yet told whose it is, has
\* no variables; with the others set() overwrites those of the last holder.
VariablesInv ==
    /\ OwnVariables
    /\ \A t \in Transactions :
          step[t] \in {"BEGIN", "begun"} => Mine(t, variables[dbc[t]], service)
    /\ service = "sqlite" =>
          \A c \in Connections :
              (\A t \in Transactions : dbc[t] = c => step[t] = "set") => variables[c] = Unset
    /\ \A t \in Transactions :
          sent[t] # None => step[t] \in {"begun", "committed", "rolled back", "cut off"}

\* Work is open on the connection of who wrote it, if that did not come late
\* and was not cut off.
WorkInv ==
    /\ OwnWork
    /\ \A c \in Connections : \A t \in open[c] :
          \/ seen[t].late
          \/ step[t] = "cut off"
          \/ step[t] = "begun" /\ dbc[t] = c

----------------------------------------------------------------------------

LEMMA QueueElements ==
    ASSUME TypeInv
    PROVE  Len(queue) \in Nat /\ \A i \in 1 .. Len(queue) : queue[i] \in Transactions
<1>1. queue \in Seq(Transactions)
  BY DEF TypeInv
<1> QED BY <1>1

LEMMA QueueTail ==
    ASSUME TypeInv, queue # <<>>
    PROVE  /\ Head(queue) \in Transactions /\ Head(queue) = queue[1]
           /\ Tail(queue) \in Seq(Transactions)
           /\ Len(queue) \in Nat \ {0} /\ Len(Tail(queue)) = Len(queue) - 1
           /\ \A i \in 1 .. Len(Tail(queue)) : Tail(queue)[i] = queue[i + 1]
<1>1. queue \in Seq(Transactions)
  BY DEF TypeInv
<1>2. Head(queue) = queue[1] /\ Len(queue) \in Nat \ {0}
  BY <1>1
<1> QED BY <1>1, <1>2, HeadTailProperties

\* While a connection is created, and when that fails, nothing happens to what
\* is lent; at most the first who waits is refused.
LEMMA Creation ==
    ASSUME TypeInv, NEW c \in Connections,
           \/ Create(c) \/ Connected(c) \/ ConnectFails(c)
           \/ Refreshed(c) \/ RefreshFails(c) \/ Tick(c)
    PROVE  /\ UNCHANGED <<service, drained, dbc, variables, workVars>>
           /\ slot' \in Places
           /\ \A d \in Connections :
                 slot[d].state = "lent" \/ slot'[d].state = "lent" => slot'[d] = slot[d]
           /\ \/ UNCHANGED <<queue, step>>
              \/ queue # <<>> /\ queue' = Tail(queue) /\ Step(Head(queue), "failed")
<1> DEFINE Served == \/ UNCHANGED <<queue, step>>
                     \/ queue # <<>> /\ queue' = Tail(queue) /\ Step(Head(queue), "failed")
           Changed == /\ slot' \in Places /\ slot'[c].state # "lent"
                      /\ \A d \in Connections \ {c} : slot'[d] = slot[d]
<1>1. UNCHANGED <<service, drained, dbc, variables, workVars>>
      /\ slot[c].state \in {"none", "connecting", "refreshing", "hung"}
  <2>1. CASE Tick(c)
    BY <2>1 DEF Tick, Creating, In
  <2>2. CASE Create(c) \/ Connected(c)
    BY <2>2 DEF Create, Connected
  <2>3. CASE ConnectFails(c)
    BY <2>3 DEF ConnectFails
  <2>4. CASE Refreshed(c) \/ RefreshFails(c)
    BY <2>4 DEF Refreshed, RefreshFails
  <2> QED BY <2>1, <2>2, <2>3, <2>4
<1>2. slot \in Places
  BY DEF TypeInv
<1>3. CreateFails(c) => Changed /\ Served
  BY <1>2 DEF CreateFails, Place, Places
<1>4. Retry(c) => Changed /\ Served
  BY <1>1, <1>2 DEF Retry, Places
<1>5. SqliteError(c) => Changed /\ Served
  BY <1>2 DEF SqliteError, Places
<1>6. AuthenticationError(c) => Changed /\ Served
  BY <1>2 DEF AuthenticationError, Places
<1>7. TenantError(c) => Changed /\ Served
  BY SMTT(60), <1>2, <1>4 DEF TenantError, Places
<1>8. ConnectFails(c) => Changed /\ Served
  BY <1>3, <1>4, <1>5, <1>6, <1>7 DEF ConnectFails, RetriedError, TenantUnknown
<1>9. Refreshed(c) \/ RefreshFails(c) => Changed /\ Served
  BY SMTT(60), <1>2, <1>3 DEF Refreshed, RefreshFails, Places
<1>10. Create(c) \/ Connected(c) => Changed /\ Served
  <2>1. Create(c) => Changed /\ Served
    BY <1>2 DEF Create, Place, Places
  <2>2. Connected(c) => Changed /\ Served
    BY <1>2 DEF Connected, Place, Places
  <2> QED BY <2>1, <2>2
<1>11. Tick(c) => Changed /\ Served
  BY <1>1, <1>2 DEF Tick, Places
<1> QED BY <1>1, <1>8, <1>9, <1>10, <1>11

\* Whoever leaves the head of the queue was waiting, and no other place of the
\* queue is that transaction's.
LEMMA ServeStep ==
    ASSUME TypeInv, QueueInv, queue # <<>>, queue' = Tail(queue),
           NEW s, Step(Head(queue), s)
    PROVE  QueueInv' /\ step[Head(queue)] = "waiting"
<1>1. /\ Head(queue) \in Transactions /\ Head(queue) = queue[1]
      /\ Len(queue) \in Nat \ {0} /\ Len(queue') = Len(queue) - 1
      /\ \A i \in 1 .. Len(queue') : queue'[i] = queue[i + 1]
  BY QueueTail
<1>2. \A i \in 1 .. Len(queue) : queue[i] \in Transactions
  BY QueueElements
<1>3. step[Head(queue)] = "waiting"
  BY <1>1 DEF QueueInv
<1>4. \A i, j \in 1 .. Len(queue') : queue'[i] = queue'[j] => i = j
  <2> TAKE i, j \in 1 .. Len(queue')
  <2>1. i + 1 \in 1 .. Len(queue) /\ j + 1 \in 1 .. Len(queue)
    BY <1>1
  <2>2. queue[i + 1] = queue[j + 1] => i + 1 = j + 1
    BY <2>1 DEF QueueInv
  <2> QED BY <1>1, <2>2
<1>5. ASSUME NEW i \in 1 .. Len(queue') PROVE step'[queue'[i]] = "waiting"
  <2>1. i + 1 \in 1 .. Len(queue) /\ i + 1 # 1 /\ 1 \in 1 .. Len(queue)
    BY <1>1
  <2>2. queue[i + 1] # queue[1] /\ step[queue[i + 1]] = "waiting"
    BY <2>1 DEF QueueInv
  <2>3. step' = [step EXCEPT ![queue[1]] = s]
    BY <1>1 DEF Step
  <2> QED BY <1>1, <1>2, <2>1, <2>2, <2>3 DEF TypeInv
<1> QED BY <1>3, <1>4, <1>5 DEF QueueInv

\* What release() does to the places and the variables.
LEMMA Releasing ==
    ASSUME TypeInv, NEW t \in Transactions, dbc[t] # None, Release(t)
    PROVE  /\ dbc[t] \in Connections /\ dbc' = [dbc EXCEPT ![t] = None]
           /\ slot' \in Places /\ \A d \in Connections \ {dbc[t]} : slot'[d] = slot[d]
           /\ drained \in {"open", "leaving"} => slot'[dbc[t]].state = "idle"
           /\ IF service = "sqlite" THEN variables' = [variables EXCEPT ![dbc[t]] = Unset]
              ELSE UNCHANGED variables
<1>1. dbc[t] \in Connections /\ slot \in Places
  BY DEF TypeInv
<1>2. slot' \in Places /\ (\A d \in Connections \ {dbc[t]} : slot'[d] = slot[d])
      /\ (drained \in {"open", "leaving"} => slot'[dbc[t]].state = "idle")
  BY <1>1 DEF Release, Places
<1> QED BY <1>1, <1>2 DEF Release, Reset

LEMMA UnsetType == Unset \in [Names -> Transactions \cup {None}]
  BY DEF Unset

LEMMA TypeStep ==
    ASSUME TypeInv, HoldInv, [Next]_vars
    PROVE  TypeInv'
<1>0. None \notin Transactions /\ None \notin Connections
  BY SessionsAssumption
<1>1. ASSUME NEW c \in Connections,
             \/ Create(c) \/ Connected(c) \/ ConnectFails(c)
             \/ Refreshed(c) \/ RefreshFails(c) \/ Tick(c)
      PROVE  TypeInv'
  BY ZenonT(60), <1>1, Creation, QueueTail DEF TypeInv, workVars, Step
<1>2. ASSUME NEW c \in Connections, Lend(c) PROVE TypeInv'
  <2>1. slot' \in Places /\ queue' \in Seq(Transactions)
    BY ZenonT(60), <1>2, QueueTail DEF Lend, TypeInv, Places
  <2>2. Head(queue) \in Transactions
    BY <1>2, QueueTail DEF Lend
  <2> QED BY ZenonT(60), <1>2, <2>1, <2>2 DEF Lend, TypeInv, workVars, Step
<1>3. ASSUME NEW t \in Transactions, Begin(t) PROVE TypeInv'
  <2>1. queue' \in Seq(Transactions)
    BY <1>3, AppendProperties DEF Begin, TypeInv
  <2> QED BY <1>3, <2>1 DEF Begin, TypeInv, workVars, Step
<1>4. ASSUME NEW t \in Transactions, Set(t) PROVE TypeInv'
  <2>1. dbc[t] \in Connections
    BY <1>4, <1>0 DEF Set, HoldInv, TypeInv
  <2>2. Own(t) \in [Names -> Transactions \cup {None}]
    BY DEF Own
  <2>3. WithContext(variables[dbc[t]], t) \in [Names -> Transactions \cup {None}]
    BY <2>1, <2>2 DEF WithContext, TypeInv, Names
  <2> QED BY <1>4, <2>1, <2>3 DEF Set, TypeInv, poolVars, workVars, Step
<1>5. ASSUME NEW t \in Transactions, Begun(t) PROVE TypeInv'
  BY <1>5 DEF Begun, TypeInv, poolVars, workVars, Step
<1>6. ASSUME NEW t \in Transactions, BeginFails(t) PROVE TypeInv'
  <2>1. dbc[t] # None
    BY <1>6 DEF BeginFails, HoldInv
  <2> QED BY ZenonT(60), <1>6, <2>1, Releasing, UnsetType DEF BeginFails, TypeInv, workVars, Step
<1>7. ASSUME NEW t \in Transactions, SetFoo(t) PROVE TypeInv'
  <2>1. dbc[t] \in Connections
    BY <1>7 DEF SetFoo, TypeInv
  <2> QED BY <1>7, <2>1 DEF SetFoo, TypeInv, poolVars, workVars, Names
<1>8. ASSUME NEW t \in Transactions, Commit(t) \/ Rollback(t) PROVE TypeInv'
  <2>1. dbc[t] # None /\ Release(t) /\ UNCHANGED <<queue, drained, sent, seen>>
    BY <1>8 DEF Commit, Rollback
  <2>2. step' \in [Transactions ->
           {"unused", "no", "waiting", "set", "BEGIN", "begun", "failed",
            "committed", "rolled back", "cut off"}]
    BY <1>8 DEF Commit, Rollback, Step, TypeInv
  <2>3. open' \in [Connections -> SUBSET Transactions] /\ durable' \subseteq Transactions
    BY <1>8, <2>1, Releasing DEF Commit, Rollback, TypeInv
  <2> QED BY ZenonT(60), <2>1, <2>2, <2>3, Releasing, UnsetType DEF TypeInv
<1>9. ASSUME NEW t \in Transactions, Prepare(t) \/ RunFails(t) PROVE TypeInv'
  BY <1>9 DEF Prepare, RunFails, TypeInv, poolVars
<1>10. ASSUME NEW t \in Transactions, Run(t) PROVE TypeInv'
  <2>1. sent[t] \in Connections /\ UNCHANGED <<poolVars, step, dbc, variables>>
        /\ sent' = [sent EXCEPT ![t] = None]
    BY <1>10 DEF Run, TypeInv
  <2>2. seen' \in [Transactions ->
           [late : BOOLEAN, variables : [Names -> Transactions \cup {None}]]]
    BY <1>10, <2>1 DEF Run, TypeInv
  <2>3. \/ open' = [open EXCEPT ![sent[t]] = @ \cup {t}] /\ durable' = durable
        \/ open' = open /\ durable' = durable \cup {t}
    BY <1>10 DEF Run
  <2>4. open' \in [Connections -> SUBSET Transactions] /\ durable' \subseteq Transactions
    <3>1. open \in [Connections -> SUBSET Transactions] /\ durable \subseteq Transactions
      BY DEF TypeInv
    <3>2. CASE open' = [open EXCEPT ![sent[t]] = @ \cup {t}] /\ durable' = durable
      BY <2>1, <3>1, <3>2
    <3>3. CASE open' = open /\ durable' = durable \cup {t}
      BY <3>1, <3>3
    <3> QED BY <2>3, <3>2, <3>3
  <2> QED BY <2>1, <2>2, <2>4 DEF TypeInv, poolVars
<1>11. ASSUME NEW t \in Transactions, NotFound(t) PROVE TypeInv'
  <2>1. dbc[t] # None /\ Release(t) /\ UNCHANGED <<queue, seen, open, durable>>
    BY <1>11 DEF NotFound
  <2>2. step' \in [Transactions ->
           {"unused", "no", "waiting", "set", "BEGIN", "begun", "failed",
            "committed", "rolled back", "cut off"}]
    BY <1>11 DEF NotFound, Step, TypeInv
  <2>3. drained' \in {"open", "leaving", "drained", "cleared"}
        /\ sent' = [sent EXCEPT ![t] = None]
    BY <1>11 DEF NotFound, TypeInv
  <2> QED BY ZenonT(60), <2>1, <2>2, <2>3, Releasing, UnsetType DEF TypeInv
<1>12. CASE Drain
  <2>1. queue' = <<>> /\ drained' = "drained"
        /\ UNCHANGED <<service, slot, dbc, variables, workVars>>
    BY <1>12 DEF Drain
  <2>2. step' \in [Transactions ->
           {"unused", "no", "waiting", "set", "BEGIN", "begun", "failed",
            "committed", "rolled back", "cut off"}]
    BY <1>12 DEF Drain, TypeInv
  <2>3. queue' \in Seq(Transactions)
    BY <2>1
  <2> QED BY <2>1, <2>2, <2>3 DEF TypeInv, workVars
<1>13. CASE Clear
  BY <1>13 DEF Clear, TypeInv
<1>14. CASE UNCHANGED vars
  BY <1>14 DEF vars, poolVars, workVars, TypeInv
<1> QED BY <1>1, <1>2, <1>3, <1>4, <1>5, <1>6, <1>7, <1>8, <1>9, <1>10, <1>11, <1>12,
           <1>13, <1>14 DEF Next

LEMMA QueueStep ==
    ASSUME TypeInv, QueueInv, HoldInv, [Next]_vars
    PROVE  QueueInv'
<1>1. ASSUME NEW c \in Connections,
             \/ Create(c) \/ Connected(c) \/ ConnectFails(c)
             \/ Refreshed(c) \/ RefreshFails(c) \/ Tick(c)
      PROVE  QueueInv'
  BY <1>1, Creation, ServeStep DEF QueueInv
<1>2. ASSUME NEW c \in Connections, Lend(c) PROVE QueueInv'
  <2>1. queue # <<>> /\ queue' = Tail(queue)
        /\ (Step(Head(queue), "failed") \/ Step(Head(queue), "set"))
    BY <1>2 DEF Lend
  <2> QED BY <2>1, ServeStep
<1>3. ASSUME NEW t \in Transactions, Begin(t) PROVE QueueInv'
  <2>1. queue \in Seq(Transactions) /\ queue' = Append(queue, t) /\ Len(queue) \in Nat
    BY <1>3, QueueElements DEF Begin, TypeInv
  <2>2. /\ Len(queue') = Len(queue) + 1 /\ queue'[Len(queue) + 1] = t
        /\ \A i \in 1 .. Len(queue) : queue'[i] = queue[i]
    BY <2>1, AppendProperties
  <2>3. \A i \in 1 .. Len(queue) : queue[i] \in Transactions
    BY <2>1
  <2>4. \A i \in 1 .. Len(queue) : queue[i] # t
    BY <1>3 DEF Begin, QueueInv
  <2>5. ASSUME NEW i \in 1 .. Len(queue') PROVE step'[queue'[i]] = "waiting"
    <3>1. i = Len(queue) + 1 \/ i \in 1 .. Len(queue)
      BY <2>1, <2>2
    <3> QED BY ZenonT(60), <1>3, <2>2, <2>3, <2>4, <3>1 DEF Begin, Step, QueueInv, TypeInv
  <2>6. ASSUME NEW i \in 1 .. Len(queue'), NEW j \in 1 .. Len(queue'), queue'[i] = queue'[j]
        PROVE  i = j
    <3>1. (i = Len(queue) + 1 \/ i \in 1 .. Len(queue))
          /\ (j = Len(queue) + 1 \/ j \in 1 .. Len(queue))
      BY <2>1, <2>2
    <3> QED BY <2>2, <2>4, <2>6, <3>1 DEF QueueInv
  <2> QED BY <2>5, <2>6 DEF QueueInv
<1>4. ASSUME NEW t \in Transactions, step[t] # "waiting", NEW s, step' = [step EXCEPT ![t] = s],
             UNCHANGED queue
      PROVE  QueueInv'
  <2>1. \A i \in 1 .. Len(queue) : step'[queue[i]] = "waiting"
    BY <1>4, QueueElements DEF QueueInv, TypeInv
  <2> QED BY <1>4, <2>1 DEF QueueInv
<1>5. ASSUME NEW t \in Transactions, Set(t) \/ Begun(t) \/ BeginFails(t) PROVE QueueInv'
  <2>1. /\ step[t] # "waiting" /\ UNCHANGED queue
        /\ Step(t, "BEGIN") \/ Step(t, "begun") \/ Step(t, "failed")
    BY <1>5 DEF Set, Begun, BeginFails, poolVars
  <2> QED BY <1>4, <2>1 DEF Step
<1>6. ASSUME NEW t \in Transactions, Commit(t) \/ Rollback(t) PROVE QueueInv'
  <2>1. /\ step[t] # "waiting" /\ UNCHANGED queue
        /\ Step(t, "committed") \/ Step(t, "rolled back")
    BY <1>6 DEF Commit, Rollback
  <2> QED BY <1>4, <2>1 DEF Step
<1>7. ASSUME NEW t \in Transactions, SetFoo(t) \/ Prepare(t) \/ Run(t) \/ RunFails(t)
      PROVE  QueueInv'
  BY <1>7 DEF SetFoo, Prepare, Run, RunFails, poolVars, QueueInv
<1>8. ASSUME NEW t \in Transactions, NotFound(t) PROVE QueueInv'
  <2>1. step[t] # "waiting" /\ UNCHANGED queue /\ Step(t, "cut off")
    BY <1>8 DEF NotFound, HoldInv
  <2> QED BY <1>4, <2>1 DEF Step
<1>9. CASE Drain
  <2>1. queue' = <<>> /\ Len(queue') = 0
    BY <1>9 DEF Drain
  <2> QED BY <2>1 DEF QueueInv
<1>10. CASE Clear \/ UNCHANGED vars
  BY <1>10 DEF Clear, vars, poolVars, QueueInv
<1> QED BY <1>1, <1>2, <1>3, <1>5, <1>6, <1>7, <1>8, <1>9, <1>10 DEF Next

LEMMA HoldStep ==
    ASSUME TypeInv, QueueInv, HoldInv, [Next]_vars
    PROVE  HoldInv'
<1>0. None \notin Transactions /\ None \notin Connections
  BY SessionsAssumption
<1>1. ASSUME NEW c \in Connections,
             \/ Create(c) \/ Connected(c) \/ ConnectFails(c)
             \/ Refreshed(c) \/ RefreshFails(c) \/ Tick(c)
      PROVE  HoldInv'
  <2>1. UNCHANGED <<drained, dbc>>
        /\ \A d \in Connections :
               slot[d].state = "lent" \/ slot'[d].state = "lent" => slot'[d] = slot[d]
    BY <1>1, Creation
  <2>2. LentIsHeld'
    <3>1. ASSUME NEW d \in Connections, slot'[d].state = "lent", ~slot'[d].void,
                 drained' \in {"open", "leaving"}
          PROVE  \E t \in Transactions : dbc'[t] = d
      BY <2>1, <3>1 DEF HoldInv, LentIsHeld
    <3>2. ASSUME NEW t \in Transactions, dbc'[t] # None
          PROVE  slot'[dbc'[t]] = slot[dbc[t]]
      <4>1. dbc'[t] = dbc[t] /\ dbc[t] \in Connections
        BY <2>1, <3>2 DEF TypeInv
      <4>2. slot[dbc[t]].state = "lent"
        BY <3>2, <4>1 DEF HoldInv, LentIsHeld
      <4> QED BY <2>1, <4>1, <4>2
    <3> QED BY <2>1, <3>1, <3>2 DEF HoldInv, LentIsHeld
  <2>3. \/ UNCHANGED step
        \/ \E u \in Transactions : step[u] = "waiting" /\ step' = [step EXCEPT ![u] = "failed"]
    BY <1>1, Creation, ServeStep, QueueTail DEF Step
  <2> QED BY <2>1, <2>2, <2>3 DEF HoldInv, TypeInv
<1>2. ASSUME NEW c \in Connections, Lend(c) PROVE HoldInv'
  <2> DEFINE t == Head(queue)
  <2>1. t \in Transactions /\ step[t] = "waiting" /\ dbc[t] = None
    BY <1>2, QueueTail DEF Lend, QueueInv, HoldInv
  <2>2. /\ \A d \in Connections \ {c} : slot'[d] = slot[d]
        /\ slot[c].state = "idle" /\ slot'[c].state = "lent" /\ slot'[c].void = slot[c].void
    BY ZenonT(60), <1>2 DEF Lend, TypeInv, Places
  <2>3. \A u \in Transactions : dbc[u] # c
    BY <1>0, <2>2 DEF HoldInv, LentIsHeld
  <2>4. CASE slot[c].void
    <3>1. UNCHANGED <<dbc, drained>> /\ step' = [step EXCEPT ![t] = "failed"]
      BY <1>2, <2>4 DEF Lend, Step
    <3>2. \A u \in Transactions : dbc[u] # None => slot'[dbc[u]] = slot[dbc[u]]
      BY <2>2, <2>3 DEF TypeInv
    <3>3. slot'[c].void
      BY <2>2, <2>4
    <3>4. LentIsHeld'
      BY <2>2, <3>1, <3>2, <3>3 DEF HoldInv, LentIsHeld
    <3> QED BY <2>1, <3>1, <3>4 DEF HoldInv, TypeInv
  <2>5. CASE ~slot[c].void
    <3>1. dbc' = [dbc EXCEPT ![t] = c] /\ step' = [step EXCEPT ![t] = "set"] /\ UNCHANGED drained
      BY <1>2, <2>5 DEF Lend, Step
    <3>2. /\ dbc'[t] = c
          /\ \A u \in Transactions \ {t} : dbc'[u] = dbc[u]
          /\ \A u \in Transactions \ {t} : dbc[u] # None => slot'[dbc[u]] = slot[dbc[u]]
      BY <2>1, <2>2, <2>3, <3>1 DEF TypeInv
    <3>3. slot'[c].state = "lent" /\ ~slot'[c].void
      BY <2>2, <2>5
    <3>4. ASSUME NEW d \in Connections, slot'[d].state = "lent", ~slot'[d].void,
                 drained' \in {"open", "leaving"}
          PROVE  \E u \in Transactions : dbc'[u] = d
      <4>1. CASE d = c
        BY <2>1, <3>2, <4>1
      <4>2. CASE d # c
        <5>1. PICK u \in Transactions : dbc[u] = d
          BY <2>2, <3>1, <3>4, <4>2 DEF HoldInv, LentIsHeld
        <5> QED BY <1>0, <2>1, <3>2, <5>1
      <4> QED BY <4>1, <4>2
    <3>5. ASSUME NEW u \in Transactions, dbc'[u] # None
          PROVE  /\ slot'[dbc'[u]].state = "lent" /\ ~slot'[dbc'[u]].void
                 /\ \A v \in Transactions \ {u} : dbc'[v] # dbc'[u]
      <4>1. CASE u = t
        BY <2>3, <3>2, <3>3, <4>1
      <4>2. CASE u # t
        BY <2>3, <3>2, <3>5, <4>2 DEF HoldInv, LentIsHeld
      <4> QED BY <4>1, <4>2
    <3>6. LentIsHeld'
      BY <3>4, <3>5 DEF LentIsHeld
    <3> QED BY ZenonT(60), <1>0, <2>1, <3>1, <3>2, <3>6 DEF HoldInv, TypeInv
  <2> QED BY <2>4, <2>5
<1>3. ASSUME NEW t \in Transactions, Begin(t) PROVE HoldInv'
  BY ZenonT(60), <1>3 DEF Begin, Step, HoldInv, LentIsHeld, TypeInv
<1>4. ASSUME NEW t \in Transactions, Set(t) \/ Begun(t) PROVE HoldInv'
  <2>1. /\ UNCHANGED <<poolVars, dbc>> /\ step[t] \in {"set", "BEGIN"}
        /\ Step(t, "BEGIN") \/ Step(t, "begun")
    BY <1>4 DEF Set, Begun
  <2>2. UNCHANGED <<queue, slot, drained, dbc>>
    BY <2>1 DEF poolVars
  <2>3. LentIsHeld'
    BY <2>2 DEF HoldInv, LentIsHeld
  <2>4. /\ step'[t] \in {"BEGIN", "begun"}
        /\ \A u \in Transactions \ {t} : step'[u] = step[u]
    BY <2>1 DEF Step, TypeInv
  <2>5. \A u \in Transactions : dbc'[u] # None <=> step'[u] \in {"set", "BEGIN", "begun"}
    BY <2>1, <2>2, <2>4 DEF HoldInv
  <2> QED BY <2>3, <2>5 DEF HoldInv
<1>5. ASSUME NEW t \in Transactions, dbc[t] # None, Release(t),
             NEW s \in {"failed", "committed", "rolled back", "cut off"}, Step(t, s),
             drained' = drained \/ (drained' = "leaving" /\ drained = "open")
      PROVE  HoldInv'
  <2>1. dbc[t] \in Connections /\ dbc' = [dbc EXCEPT ![t] = None]
        /\ \A d \in Connections \ {dbc[t]} : slot'[d] = slot[d]
    BY <1>5, Releasing
  <2>2. drained' \in {"open", "leaving"} =>
           drained \in {"open", "leaving"} /\ slot'[dbc[t]].state = "idle"
    BY <1>5, Releasing
  <2>3. LentIsHeld'
    <3>1. ASSUME NEW c \in Connections, slot'[c].state = "lent", ~slot'[c].void,
                 drained' \in {"open", "leaving"}
          PROVE  \E u \in Transactions : dbc'[u] = c
      BY ZenonT(60), <2>1, <2>2, <3>1 DEF HoldInv, LentIsHeld, TypeInv
    <3>2. ASSUME NEW u \in Transactions, dbc'[u] # None
          PROVE  /\ slot'[dbc'[u]].state = "lent" /\ ~slot'[dbc'[u]].void
                 /\ \A v \in Transactions \ {u} : dbc'[v] # dbc'[u]
      <4>1. u # t /\ dbc'[u] = dbc[u] /\ dbc[u] \in Connections
        BY <2>1, <3>2 DEF TypeInv
      <4>2. dbc[u] # dbc[t] /\ slot'[dbc[u]] = slot[dbc[u]]
        BY <2>1, <3>2, <4>1 DEF HoldInv, LentIsHeld
      <4>3. \A v \in Transactions \ {u} : dbc'[v] # dbc[u]
        BY ZenonT(60), <1>0, <2>1, <3>2, <4>1 DEF HoldInv, LentIsHeld, TypeInv
      <4>4. slot[dbc[u]].state = "lent" /\ ~slot[dbc[u]].void
        BY <3>2, <4>1 DEF HoldInv, LentIsHeld
      <4> QED BY <4>1, <4>2, <4>3, <4>4
    <3> QED BY <3>1, <3>2 DEF LentIsHeld
  <2> QED BY <1>5, <2>1, <2>3 DEF HoldInv, Step, TypeInv
<1>6. ASSUME NEW t \in Transactions, BeginFails(t) PROVE HoldInv'
  <2>1. dbc[t] # None /\ Release(t) /\ Step(t, "failed") /\ UNCHANGED drained
    BY <1>6 DEF BeginFails, HoldInv
  <2> QED BY <1>5, <2>1
<1>7. ASSUME NEW t \in Transactions, Commit(t) \/ Rollback(t) \/ NotFound(t) PROVE HoldInv'
  <2>1. /\ dbc[t] # None /\ Release(t)
        /\ Step(t, "committed") \/ Step(t, "rolled back") \/ Step(t, "cut off")
        /\ drained' = drained \/ (drained' = "leaving" /\ drained = "open")
    BY <1>7 DEF Commit, Rollback, NotFound
  <2> QED BY <1>5, <2>1
<1>8. ASSUME NEW t \in Transactions, SetFoo(t) \/ Prepare(t) \/ Run(t) \/ RunFails(t)
      PROVE  HoldInv'
  BY <1>8 DEF SetFoo, Prepare, Run, RunFails, poolVars, HoldInv, LentIsHeld
<1>9. CASE Drain \/ Clear
  <2>1. UNCHANGED <<slot, dbc>> /\ drained' \notin {"open", "leaving"}
        /\ \A t \in Transactions : \/ step'[t] = step[t]
                                   \/ step[t] = "waiting" /\ step'[t] = "failed"
    BY <1>9 DEF Drain, Clear
  <2> QED BY <2>1 DEF HoldInv, LentIsHeld
<1>10. CASE UNCHANGED vars
  BY <1>10 DEF vars, poolVars, HoldInv, LentIsHeld
<1> QED BY <1>1, <1>2, <1>3, <1>4, <1>6, <1>7, <1>8, <1>9, <1>10 DEF Next

LEMMA VariablesStep ==
    ASSUME TypeInv, QueueInv, HoldInv, VariablesInv, [Next]_vars
    PROVE  VariablesInv'
<1>0. None \notin Transactions /\ None \notin Connections
  BY SessionsAssumption
<1>1. ASSUME UNCHANGED <<service, dbc, variables, sent, seen>>,
             \A t \in Transactions :
                \/ step'[t] = step[t]
                \/ step[t] \in {"no", "waiting"} /\ step'[t] \in {"waiting", "failed"}
      PROVE  VariablesInv'
  <2>1. OwnVariables'
    BY <1>1 DEF VariablesInv, OwnVariables
  <2> QED BY <1>1, <2>1 DEF VariablesInv
<1>2. ASSUME NEW c \in Connections,
             \/ Create(c) \/ Connected(c) \/ ConnectFails(c)
             \/ Refreshed(c) \/ RefreshFails(c) \/ Tick(c)
      PROVE  VariablesInv'
  <2>1. UNCHANGED <<service, dbc, variables, sent, seen>>
    BY <1>2, Creation DEF workVars
  <2>2. \A t \in Transactions :
           step'[t] = step[t] \/ (step[t] = "waiting" /\ step'[t] = "failed")
    BY <1>2, Creation, ServeStep, QueueTail DEF Step, TypeInv
  <2> QED BY <1>1, <2>1, <2>2
<1>3. ASSUME NEW c \in Connections, Lend(c) PROVE VariablesInv'
  <2> DEFINE t == Head(queue)
  <2>1. /\ t \in Transactions /\ step[t] = "waiting" /\ dbc[t] = None
        /\ UNCHANGED <<service, variables, sent, seen>>
    BY <1>3, QueueTail DEF Lend, QueueInv, HoldInv, workVars
  <2>2. CASE slot[c].void
    <3>1. UNCHANGED dbc /\ step' = [step EXCEPT ![t] = "failed"]
      BY <1>3, <2>2 DEF Lend, Step
    <3> QED BY <1>1, <2>1, <3>1 DEF TypeInv
  <2>3. CASE ~slot[c].void
    <3>1. dbc' = [dbc EXCEPT ![t] = c] /\ step' = [step EXCEPT ![t] = "set"]
      BY <1>3, <2>3 DEF Lend, Step
    <3>2. \A u \in Transactions \ {t} : dbc'[u] = dbc[u] /\ step'[u] = step[u]
      BY <3>1 DEF TypeInv
    <3>3. step'[t] = "set"
      BY <2>1, <3>1 DEF TypeInv
    <3>4. OwnVariables'
      BY <2>1 DEF VariablesInv, OwnVariables
    <3>5. service' = "sqlite" =>
             \A d \in Connections :
                (\A u \in Transactions : dbc'[u] = d => step'[u] = "set") => variables'[d] = Unset
      <4> SUFFICES ASSUME service = "sqlite", NEW d \in Connections,
                          \A u \in Transactions : dbc'[u] = d => step'[u] = "set"
                   PROVE  variables'[d] = Unset
        BY <2>1
      <4>1. \A u \in Transactions : dbc[u] = d => step[u] = "set"
        BY <1>0, <2>1, <3>2
      <4> QED BY <2>1, <4>1 DEF VariablesInv
    <3>6. \A u \in Transactions :
             sent'[u] # None => step'[u] \in {"begun", "committed", "rolled back", "cut off"}
      BY <2>1, <3>2 DEF VariablesInv
    <3>7. \A u \in Transactions :
             step'[u] \in {"BEGIN", "begun"} => Mine(u, variables'[dbc'[u]], service')
      BY <2>1, <3>2, <3>3 DEF VariablesInv
    <3> QED BY <3>4, <3>5, <3>6, <3>7 DEF VariablesInv
  <2> QED BY <2>2, <2>3
<1>4. ASSUME NEW t \in Transactions, Begin(t) PROVE VariablesInv'
  <2>1. UNCHANGED <<service, dbc, variables, sent, seen>>
    BY <1>4 DEF Begin, workVars
  <2>2. step[t] = "no" /\ step' = [step EXCEPT ![t] = "waiting"]
    BY <1>4 DEF Begin, Step
  <2> QED BY <1>1, <2>1, <2>2 DEF TypeInv
<1>5. ASSUME NEW t \in Transactions, Set(t) PROVE VariablesInv'
  <2> DEFINE c == dbc[t]
  <2>1. /\ UNCHANGED <<service, dbc, sent, seen>> /\ step[t] = "set"
        /\ variables' = [variables EXCEPT ![c] = WithContext(variables[c], t)]
        /\ step' = [step EXCEPT ![t] = "BEGIN"]
    BY <1>5 DEF Set, Step, poolVars, workVars
  <2>2. c \in Connections /\ \A u \in Transactions \ {t} : dbc[u] # c
    BY ZenonT(60), <1>0, <2>1 DEF HoldInv, LentIsHeld, TypeInv
  <2>3. /\ variables'[c] = WithContext(variables[c], t)
        /\ \A d \in Connections \ {c} : variables'[d] = variables[d]
        /\ step'[t] = "BEGIN"
        /\ \A u \in Transactions \ {t} : step'[u] = step[u]
    BY <2>1, <2>2 DEF TypeInv
  <2>4. Mine(t, WithContext(variables[c], t), service)
    <3>1. CASE service = "sqlite"
      <4>1. variables[c] = Unset
        BY <2>1, <2>2, <3>1 DEF VariablesInv
      <4> QED BY <3>1, <4>1 DEF WithContext, Own, Names, Mine
    <3>2. CASE service # "sqlite"
      <4>1. variables[c] \in [Names -> Transactions \cup {None}]
        BY <2>2 DEF TypeInv
      <4> QED BY <3>2, <4>1 DEF WithContext, Names, Mine
    <3> QED BY <3>1, <3>2
  <2>5. OwnVariables'
    BY <2>1 DEF VariablesInv, OwnVariables
  <2>6. ASSUME NEW u \in Transactions, step'[u] \in {"BEGIN", "begun"}
        PROVE  Mine(u, variables'[dbc'[u]], service')
    <3>1. CASE u = t
      BY <2>1, <2>3, <2>4, <3>1
    <3>2. CASE u # t
      <4>1. step[u] \in {"BEGIN", "begun"}
        BY <2>3, <2>6, <3>2
      <4>2. dbc[u] \in Connections \ {c}
        BY <2>2, <3>2, <4>1 DEF HoldInv, TypeInv
      <4>3. Mine(u, variables[dbc[u]], service)
        BY <4>1 DEF VariablesInv
      <4> QED BY <2>1, <2>3, <4>2, <4>3
    <3> QED BY <3>1, <3>2
  <2>7. service' = "sqlite" =>
           \A d \in Connections :
              (\A u \in Transactions : dbc'[u] = d => step'[u] = "set") => variables'[d] = Unset
    <3> SUFFICES ASSUME service = "sqlite", NEW d \in Connections,
                        \A u \in Transactions : dbc[u] = d => step'[u] = "set"
                 PROVE  variables'[d] = Unset
      BY <2>1
    <3>1. d # c /\ \A u \in Transactions : dbc[u] = d => step[u] = "set"
      BY <2>1, <2>3
    <3> QED BY <2>3, <3>1 DEF VariablesInv
  <2>8. \A u \in Transactions :
           sent'[u] # None => step'[u] \in {"begun", "committed", "rolled back", "cut off"}
    BY <2>1, <2>3 DEF VariablesInv
  <2> QED BY <2>5, <2>6, <2>7, <2>8 DEF VariablesInv
<1>6. ASSUME NEW t \in Transactions, Begun(t) PROVE VariablesInv'
  <2>1. UNCHANGED <<service, dbc, variables, sent, seen>> /\ step[t] = "BEGIN"
        /\ step' = [step EXCEPT ![t] = "begun"]
    BY <1>6 DEF Begun, Step, poolVars, workVars
  <2>2. OwnVariables'
    BY <2>1 DEF VariablesInv, OwnVariables
  <2> QED BY <2>1, <2>2 DEF VariablesInv, TypeInv
<1>7. ASSUME NEW t \in Transactions, SetFoo(t) PROVE VariablesInv'
  <2> DEFINE c == dbc[t]
  <2>1. /\ UNCHANGED <<service, dbc, step, sent, seen>> /\ step[t] = "begun" /\ c # None
        /\ variables' = [variables EXCEPT ![c]["foo"] = t]
    BY <1>7 DEF SetFoo, poolVars, workVars
  <2>2. c \in Connections /\ \A u \in Transactions \ {t} : dbc[u] # c
    BY ZenonT(60), <1>0, <2>1 DEF HoldInv, LentIsHeld, TypeInv
  <2>3. /\ variables'[c]["foo"] = t /\ variables'[c]["id"] = variables[c]["id"]
        /\ variables'[c]["locale"] = variables[c]["locale"]
        /\ \A d \in Connections \ {c} : variables'[d] = variables[d]
    <3>1. variables \in [Connections -> [Names -> Transactions \cup {None}]]
      BY DEF TypeInv
    <3>2. /\ variables[c] \in [Names -> Transactions \cup {None}]
          /\ variables'[c] = [variables[c] EXCEPT !["foo"] = t]
          /\ \A d \in Connections \ {c} : variables'[d] = variables[d]
      BY <2>1, <2>2, <3>1
    <3> QED BY <3>2 DEF Names
  <2>4. OwnVariables'
    BY <2>1 DEF VariablesInv, OwnVariables
  <2>5. ASSUME NEW u \in Transactions, step[u] \in {"BEGIN", "begun"}
        PROVE  Mine(u, variables'[dbc[u]], service)
    <3>1. dbc[u] \in Connections
      BY <2>5 DEF HoldInv, TypeInv
    <3>2. u # t => dbc[u] # c
      BY <2>2
    <3>3. Mine(u, variables[dbc[u]], service)
      BY <2>5 DEF VariablesInv
    <3>4. CASE u = t
      BY <2>3, <3>3, <3>4 DEF Mine
    <3>5. CASE u # t
      BY <2>3, <3>1, <3>2, <3>3, <3>5
    <3> QED BY <3>4, <3>5
  <2> QED BY ZenonT(60), <2>1, <2>3, <2>4, <2>5 DEF VariablesInv
<1>8. ASSUME NEW t \in Transactions, dbc[t] # None, Release(t), NEW s, Step(t, s),
             s \in {"failed", "committed", "rolled back", "cut off"},
             UNCHANGED <<service, seen>>,
             \A u \in Transactions \ {t} : sent'[u] = sent[u],
             sent'[t] # None => sent[t] # None /\ s # "failed"
      PROVE  VariablesInv'
  <2> DEFINE c == dbc[t]
  <2>1. /\ c \in Connections /\ dbc'[t] = None /\ step'[t] = s
        /\ \A u \in Transactions \ {t} : /\ dbc'[u] = dbc[u] /\ dbc[u] # c
                                         /\ step'[u] = step[u]
    <3>1. c \in Connections /\ dbc' = [dbc EXCEPT ![t] = None]
      BY <1>8, Releasing
    <3>2. \A u \in Transactions \ {t} : dbc[u] # c
      BY <1>0, <1>8 DEF HoldInv, LentIsHeld
    <3> QED BY <1>8, <3>1, <3>2 DEF Step, TypeInv
  <2>2. /\ \A d \in Connections \ {c} : variables'[d] = variables[d]
        /\ service = "sqlite" => variables'[c] = Unset
    BY ZenonT(60), <1>8, <2>1, Releasing DEF TypeInv
  <2>3. OwnVariables'
    BY <1>8 DEF VariablesInv, OwnVariables
  <2>4. ASSUME NEW u \in Transactions, step'[u] \in {"BEGIN", "begun"}
        PROVE  Mine(u, variables'[dbc'[u]], service')
    <3>1. u # t /\ step[u] \in {"BEGIN", "begun"}
      BY <1>8, <2>1, <2>4
    <3>2. dbc[u] \in Connections \ {c} /\ dbc'[u] = dbc[u]
      BY <2>1, <3>1 DEF HoldInv, TypeInv
    <3>3. Mine(u, variables[dbc[u]], service)
      BY <3>1 DEF VariablesInv
    <3> QED BY <1>8, <2>2, <3>2, <3>3
  <2>5. ASSUME service = "sqlite", NEW d \in Connections,
               \A u \in Transactions : dbc'[u] = d => step'[u] = "set"
        PROVE  variables'[d] = Unset
    <3>1. CASE d = c
      BY <2>2, <2>5, <3>1
    <3>2. CASE d # c
      <4>1. \A u \in Transactions : dbc[u] = d => step[u] = "set"
        BY <2>1, <2>5, <3>2
      <4> QED BY <2>2, <2>5, <3>2, <4>1 DEF VariablesInv
    <3> QED BY <3>1, <3>2
  <2>6. \A u \in Transactions :
           sent'[u] # None => step'[u] \in {"begun", "committed", "rolled back", "cut off"}
    BY <1>8, <2>1 DEF VariablesInv
  <2> QED BY <1>8, <2>3, <2>4, <2>5, <2>6 DEF VariablesInv
<1>9. ASSUME NEW t \in Transactions, BeginFails(t) PROVE VariablesInv'
  <2>1. /\ dbc[t] # None /\ Release(t) /\ Step(t, "failed") /\ UNCHANGED <<service, sent, seen>>
        /\ sent[t] = None
    BY <1>9 DEF BeginFails, workVars, HoldInv, VariablesInv
  <2> QED BY <1>8, <2>1
<1>10. ASSUME NEW t \in Transactions, Commit(t) \/ Rollback(t) PROVE VariablesInv'
  <2>1. /\ dbc[t] # None /\ Release(t) /\ UNCHANGED <<service, sent, seen>>
        /\ Step(t, "committed") \/ Step(t, "rolled back")
    BY <1>10 DEF Commit, Rollback
  <2> QED BY <1>8, <2>1
<1>11. ASSUME NEW t \in Transactions, NotFound(t) PROVE VariablesInv'
  <2>1. /\ dbc[t] # None /\ Release(t) /\ UNCHANGED <<service, seen>> /\ Step(t, "cut off")
        /\ sent' = [sent EXCEPT ![t] = None]
    BY <1>11 DEF NotFound
  <2>2. sent'[t] = None /\ \A u \in Transactions \ {t} : sent'[u] = sent[u]
    BY <2>1 DEF TypeInv
  <2> QED BY <1>8, <2>1, <2>2
<1>12. ASSUME NEW t \in Transactions, Prepare(t) \/ RunFails(t) PROVE VariablesInv'
  <2>1. /\ UNCHANGED <<service, step, dbc, variables, seen>>
        /\ sent' = [sent EXCEPT ![t] = sent'[t]]
        /\ step[t] = "begun" \/ sent'[t] = None
    BY <1>12 DEF Prepare, RunFails, TypeInv
  <2>2. OwnVariables'
    BY <2>1 DEF VariablesInv, OwnVariables
  <2> QED BY <2>1, <2>2 DEF VariablesInv, TypeInv
<1>13. ASSUME NEW t \in Transactions, Run(t) PROVE VariablesInv'
  <2> DEFINE c == sent[t]
             late == dbc[t] # c
  <2>1. /\ UNCHANGED <<service, step, dbc, variables>> /\ c # None
        /\ sent' = [sent EXCEPT ![t] = None]
        /\ seen' = [seen EXCEPT
              ![t] = [late |-> late \/ seen[t].late, variables |-> variables[c]]]
    BY <1>13 DEF Run
  <2>2. ~late => step[t] = "begun"
    BY <2>1 DEF HoldInv, VariablesInv
  <2>3. ASSUME NEW u \in Transactions, ~seen'[u].late
        PROVE  Mine(u, seen'[u].variables, service')
    <3>1. CASE u = t
      <4>1. seen'[t] = [late |-> late \/ seen[t].late, variables |-> variables[c]]
        BY <2>1 DEF TypeInv
      <4>2. seen'[t].late = (late \/ seen[t].late) /\ seen'[t].variables = variables[c]
        BY <4>1
      <4>3. ~late
        BY <2>3, <3>1, <4>2
      <4>4. Mine(t, variables[c], service)
        BY <2>2, <4>3 DEF VariablesInv
      <4> QED BY <2>1, <3>1, <4>2, <4>4
    <3>2. CASE u # t
      <4>1. seen'[u] = seen[u]
        BY <2>1, <3>2 DEF TypeInv
      <4> QED BY ZenonT(60), <2>1, <2>3, <4>1 DEF VariablesInv, OwnVariables, Mine
    <3> QED BY <3>1, <3>2
  <2>4. OwnVariables'
    BY <2>3 DEF OwnVariables, Mine
  <2> QED BY <2>1, <2>4 DEF VariablesInv, TypeInv
<1>14. CASE Drain \/ Clear \/ UNCHANGED vars
  <2>1. UNCHANGED <<service, dbc, variables, sent, seen>>
    BY <1>14 DEF Drain, Clear, vars, poolVars, workVars
  <2>2. \A t \in Transactions :
           step'[t] = step[t] \/ (step[t] = "waiting" /\ step'[t] = "failed")
    BY <1>14 DEF Drain, Clear, vars
  <2> QED BY <1>1, <2>1, <2>2
<1> QED BY <1>2, <1>3, <1>4, <1>5, <1>6, <1>7, <1>9, <1>10, <1>11, <1>12, <1>13, <1>14 DEF Next

LEMMA WorkStep ==
    ASSUME TypeInv, QueueInv, HoldInv, VariablesInv, WorkInv, [Next]_vars
    PROVE  WorkInv'
<1> DEFINE Settled(t) == step[t] \in {"begun", "committed", "cut off"}
<1>1. ASSUME UNCHANGED <<seen, open, durable>>,
             \A t \in Transactions : Settled(t) => step'[t] = step[t] /\ dbc'[t] = dbc[t]
      PROVE  WorkInv'
  <2>1. OwnWork'
    BY <1>1 DEF WorkInv, OwnWork, TypeInv
  <2>2. ASSUME NEW c \in Connections, NEW t \in open'[c]
        PROVE  seen'[t].late \/ step'[t] = "cut off" \/ (step'[t] = "begun" /\ dbc'[t] = c)
    <3>1. t \in Transactions /\ t \in open[c]
      BY <1>1, <2>2 DEF TypeInv
    <3>2. seen[t].late \/ step[t] = "cut off" \/ (step[t] = "begun" /\ dbc[t] = c)
      BY <3>1 DEF WorkInv
    <3> QED BY <1>1, <3>1, <3>2
  <2> QED BY <2>1, <2>2 DEF WorkInv
<1>2. ASSUME NEW c \in Connections,
             \/ Create(c) \/ Connected(c) \/ ConnectFails(c)
             \/ Refreshed(c) \/ RefreshFails(c) \/ Tick(c)
      PROVE  WorkInv'
  <2>1. UNCHANGED <<dbc, seen, open, durable>>
    BY <1>2, Creation DEF workVars
  <2>2. \A t \in Transactions : step'[t] = step[t] \/ step[t] = "waiting"
    BY <1>2, Creation, ServeStep, QueueTail DEF Step, TypeInv
  <2> QED BY <1>1, <2>1, <2>2
<1>3. ASSUME NEW c \in Connections, Lend(c) PROVE WorkInv'
  <2>1. UNCHANGED <<seen, open, durable>> /\ step[Head(queue)] = "waiting"
        /\ Head(queue) \in Transactions
    BY <1>3, QueueTail DEF Lend, QueueInv, workVars
  <2>2. \A t \in Transactions \ {Head(queue)} : step'[t] = step[t] /\ dbc'[t] = dbc[t]
    BY <1>3, <2>1 DEF Lend, Step, TypeInv
  <2> QED BY <1>1, <2>1, <2>2
<1>4. ASSUME NEW t \in Transactions, Begin(t) \/ Set(t) \/ Begun(t) PROVE WorkInv'
  <2>1. /\ UNCHANGED <<dbc, seen, open, durable>> /\ step[t] \in {"no", "set", "BEGIN"}
        /\ Step(t, "waiting") \/ Step(t, "BEGIN") \/ Step(t, "begun")
    BY <1>4 DEF Begin, Set, Begun, workVars
  <2> QED BY <1>1, <2>1 DEF Step, TypeInv
<1>5. ASSUME NEW t \in Transactions, BeginFails(t) PROVE WorkInv'
  <2>1. UNCHANGED <<seen, open, durable>> /\ step[t] \in {"set", "BEGIN"}
        /\ Step(t, "failed") /\ dbc' = [dbc EXCEPT ![t] = None]
    BY <1>5 DEF BeginFails, Release, workVars
  <2> QED BY <1>1, <2>1 DEF Step, TypeInv
<1>6. ASSUME NEW t \in Transactions, SetFoo(t) \/ Prepare(t) \/ RunFails(t) PROVE WorkInv'
  BY <1>1, <1>6 DEF SetFoo, Prepare, RunFails, workVars
<1>7. ASSUME NEW t \in Transactions, dbc[t] # None, Release(t), NEW s, Step(t, s)
      PROVE  /\ dbc[t] \in Connections /\ step'[t] = s
             /\ \A u \in Transactions \ {t} : /\ dbc[u] # dbc[t] /\ dbc'[u] = dbc[u]
                                              /\ step'[u] = step[u]
  <2>1. dbc[t] \in Connections /\ dbc' = [dbc EXCEPT ![t] = None]
    BY <1>7, Releasing
  <2>2. \A u \in Transactions \ {t} : dbc[u] # dbc[t]
    BY <1>7 DEF HoldInv, LentIsHeld
  <2> QED BY <1>7, <2>1, <2>2 DEF Step, TypeInv
<1>8. ASSUME NEW t \in Transactions, Commit(t) \/ Rollback(t) PROVE WorkInv'
  <2>1. /\ dbc[t] # None /\ Release(t) /\ UNCHANGED seen /\ step[t] = "begun"
        /\ open' = [open EXCEPT ![dbc[t]] = {}]
        /\ \/ Step(t, "committed") /\ durable' = durable \cup open[dbc[t]]
           \/ Step(t, "rolled back") /\ durable' = durable
    BY <1>8 DEF Commit, Rollback
  <2>2. /\ dbc[t] \in Connections /\ step'[t] \in {"committed", "rolled back"}
        /\ \A u \in Transactions \ {t} : /\ dbc[u] # dbc[t] /\ dbc'[u] = dbc[u]
                                         /\ step'[u] = step[u]
    BY <1>7, <2>1
  <2>3. ASSUME NEW u \in durable'
        PROVE  step'[u] \in {"committed", "cut off"} \/ seen'[u].late
    <3>1. u \in Transactions
      BY <2>1, <2>2, <2>3 DEF TypeInv
    <3>2. CASE u \in durable
      BY <2>1, <2>2, <3>1, <3>2 DEF WorkInv, OwnWork
    <3>3. CASE u \notin durable
      <4>1. u \in open[dbc[t]] /\ step'[t] = "committed"
        <5>1. durable' # durable
          BY <2>3, <3>3
        <5> QED BY <1>7, <2>1, <2>3, <3>3, <5>1
      <4>2. seen[u].late \/ step[u] = "cut off" \/ (step[u] = "begun" /\ dbc[u] = dbc[t])
        BY <2>2, <4>1 DEF WorkInv
      <4> QED BY <2>1, <2>2, <3>1, <4>1, <4>2
    <3> QED BY <3>2, <3>3
  <2>4. ASSUME NEW c \in Connections, NEW u \in open'[c]
        PROVE  seen'[u].late \/ step'[u] = "cut off" \/ (step'[u] = "begun" /\ dbc'[u] = c)
    <3>1. c # dbc[t] /\ u \in open[c] /\ u \in Transactions
      BY <2>1, <2>2, <2>4 DEF TypeInv
    <3>2. seen[u].late \/ step[u] = "cut off" \/ (step[u] = "begun" /\ dbc[u] = c)
      BY <3>1 DEF WorkInv
    <3> QED BY <2>1, <2>2, <3>1, <3>2
  <2> QED BY <2>3, <2>4 DEF WorkInv, OwnWork
<1>9. ASSUME NEW t \in Transactions, NotFound(t) PROVE WorkInv'
  <2>1. dbc[t] # None /\ Release(t) /\ UNCHANGED <<seen, open, durable>> /\ Step(t, "cut off")
    BY <1>9 DEF NotFound
  <2>2. /\ step'[t] = "cut off"
        /\ \A u \in Transactions \ {t} : dbc'[u] = dbc[u] /\ step'[u] = step[u]
    BY <1>7, <2>1
  <2>3. OwnWork'
    BY <2>1, <2>2 DEF WorkInv, OwnWork, TypeInv
  <2>4. ASSUME NEW c \in Connections, NEW u \in open'[c]
        PROVE  seen'[u].late \/ step'[u] = "cut off" \/ (step'[u] = "begun" /\ dbc'[u] = c)
    <3>1. u \in open[c] /\ u \in Transactions
      BY <2>1, <2>4 DEF TypeInv
    <3>2. seen[u].late \/ step[u] = "cut off" \/ (step[u] = "begun" /\ dbc[u] = c)
      BY <3>1 DEF WorkInv
    <3> QED BY <2>1, <2>2, <3>1, <3>2
  <2> QED BY <2>3, <2>4 DEF WorkInv
<1>10. ASSUME NEW t \in Transactions, Run(t) PROVE WorkInv'
  <2> DEFINE c == sent[t]
             late == dbc[t] # c
  <2>1. /\ UNCHANGED <<step, dbc>> /\ c # None
        /\ seen' = [seen EXCEPT
              ![t] = [late |-> late \/ seen[t].late, variables |-> variables[c]]]
        /\ \/ open' = [open EXCEPT ![c] = @ \cup {t}] /\ durable' = durable
           \/ /\ open' = open /\ durable' = durable \cup {t}
              /\ ~\E u \in Transactions : dbc[u] = c /\ step[u] = "begun"
    BY <1>10 DEF Run
  <2>2. /\ \A u \in Transactions : seen[u].late => seen'[u].late
        /\ late => seen'[t].late
    <3>1. /\ seen'[t].late = (late \/ seen[t].late)
          /\ \A u \in Transactions \ {t} : seen'[u] = seen[u]
      BY <2>1 DEF TypeInv
    <3> QED BY <3>1
  <2>3. ~late => step[t] = "begun" /\ dbc[t] = c
    BY <2>1 DEF HoldInv, VariablesInv
  <2>4. ASSUME NEW u \in durable'
        PROVE  step'[u] \in {"committed", "cut off"} \/ seen'[u].late
    <3>1. CASE u \in durable
      BY <2>1, <2>2, <3>1 DEF WorkInv, OwnWork, TypeInv
    <3>2. CASE u \notin durable
      BY <2>1, <2>2, <2>3, <2>4, <3>2
    <3> QED BY <3>1, <3>2
  <2>5. ASSUME NEW d \in Connections, NEW u \in open'[d]
        PROVE  seen'[u].late \/ step'[u] = "cut off" \/ (step'[u] = "begun" /\ dbc'[u] = d)
    <3>1. u \in open[d] \/ (u = t /\ d = c)
      <4>1. open \in [Connections -> SUBSET Transactions] /\ c \in Connections
        BY <2>1 DEF TypeInv
      <4>2. CASE open' = open
        BY <2>5, <4>2
      <4>3. CASE open' = [open EXCEPT ![c] = @ \cup {t}]
        BY <2>5, <4>1, <4>3
      <4> QED BY <2>1, <4>2, <4>3
    <3>2. CASE u \in open[d]
      <4>1. u \in Transactions
        BY <3>2 DEF TypeInv
      <4>2. seen[u].late \/ step[u] = "cut off" \/ (step[u] = "begun" /\ dbc[u] = d)
        BY <3>2 DEF WorkInv
      <4> QED BY <2>1, <2>2, <4>1, <4>2
    <3>3. CASE u = t /\ d = c
      BY <2>1, <2>2, <2>3, <3>3
    <3> QED BY <3>1, <3>2, <3>3
  <2> QED BY <2>4, <2>5 DEF WorkInv, OwnWork
<1>11. CASE Drain \/ UNCHANGED vars
  <2>1. UNCHANGED <<dbc, seen, open, durable>>
    BY <1>11 DEF Drain, vars, workVars
  <2>2. \A t \in Transactions : step'[t] = step[t] \/ step[t] = "waiting"
    BY <1>11 DEF Drain, vars
  <2> QED BY <1>1, <2>1, <2>2
<1>12. CASE Clear
  BY <1>12 DEF Clear, WorkInv, OwnWork
<1> QED BY <1>2, <1>3, <1>4, <1>5, <1>6, <1>8, <1>9, <1>10, <1>11, <1>12 DEF Next

----------------------------------------------------------------------------

LEMMA InitInv ==
    Init => TypeInv /\ QueueInv /\ HoldInv /\ VariablesInv /\ WorkInv
<1> SUFFICES ASSUME Init PROVE TypeInv /\ QueueInv /\ HoldInv /\ VariablesInv /\ WorkInv
  OBVIOUS
<1>0. None \notin Transactions /\ None \notin Connections
  BY SessionsAssumption
<1>1. \A t \in Transactions :
         Own(t) \in [Names -> Transactions \cup {None}] /\ Mine(t, Own(t), service)
  BY DEF Own, Mine, Names
<1>2. /\ queue = <<>> /\ drained = "open"
      /\ step \in [Transactions -> {"no", "unused"}]
      /\ slot \in Places /\ \A c \in Connections : slot[c].state \in {"none", "unused"}
  BY DEF Init, Place, Places
<1>3. TypeInv
  <2>1. queue \in Seq(Transactions)
    BY <1>2
  <2>2. seen \in [Transactions ->
           [late : BOOLEAN, variables : [Names -> Transactions \cup {None}]]]
    BY <1>1 DEF Init
  <2> QED BY <1>2, <2>1, <2>2, UnsetType DEF Init, TypeInv
<1>4. QueueInv
  BY <1>2 DEF QueueInv
<1>5. HoldInv
  BY <1>0, <1>2 DEF Init, HoldInv, LentIsHeld
<1>6. VariablesInv
  <2>1. \A t \in Transactions : seen[t].variables = Own(t) /\ sent[t] = None
    BY DEF Init
  <2>2. OwnVariables
    BY <1>1, <2>1 DEF OwnVariables, Mine
  <2> QED BY <1>2, <2>1, <2>2 DEF Init, VariablesInv
<1>7. WorkInv
  BY DEF Init, WorkInv, OwnWork
<1> QED BY <1>3, <1>4, <1>5, <1>6, <1>7

\* However many transactions share however many connections, no connection is
\* lent to two, and none is lent and forgotten while the pool is in use, but
\* for the place that HANA's authentication error leaves without one: through
\* retries, failures of begin(), onNOTFOUND and the drain.
THEOREM LendingIsSound == Spec => []LentIsHeld
<1>1. Init => TypeInv /\ QueueInv /\ HoldInv
  BY InitInv
<1>2. TypeInv /\ QueueInv /\ HoldInv /\ [Next]_vars => TypeInv' /\ QueueInv' /\ HoldInv'
  BY TypeStep, QueueStep, HoldStep
<1>3. HoldInv => LentIsHeld
  BY DEF HoldInv
<1> QED BY <1>1, <1>2, <1>3, PTL DEF Spec

\* A statement that is not late meets the session variables of its own
\* transaction, whatever the connection was used for before; on SQLite none
\* that another one set for itself.
THEOREM SessionsAreSeparate == Spec => []OwnVariables
<1>1. Init => TypeInv /\ QueueInv /\ HoldInv /\ VariablesInv
  BY InitInv
<1>2. TypeInv /\ QueueInv /\ HoldInv /\ VariablesInv /\ [Next]_vars
         => TypeInv' /\ QueueInv' /\ HoldInv' /\ VariablesInv'
  BY TypeStep, QueueStep, HoldStep, VariablesStep
<1>3. VariablesInv => OwnVariables
  BY DEF VariablesInv
<1> QED BY <1>1, <1>2, <1>3, PTL DEF Spec

\* No transaction's work becomes durable by the commit of another one that is
\* lent its connection, unless onNOTFOUND released that with the work open or
\* the statement came late.
THEOREM WorkIsOwn == Spec => []OwnWork
<1>1. TypeInv /\ QueueInv /\ HoldInv /\ VariablesInv /\ WorkInv /\ [Next]_vars
         => TypeInv' /\ QueueInv' /\ HoldInv' /\ VariablesInv' /\ WorkInv'
  BY TypeStep, QueueStep, HoldStep, VariablesStep, WorkStep
<1>2. WorkInv => OwnWork
  BY DEF WorkInv
<1> QED BY <1>1, <1>2, InitInv, PTL DEF Spec
=============================================================================
