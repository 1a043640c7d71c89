------------------------ MODULE DeepOperationProofs ------------------------
(***************************************************************************)
(* What the statements of a deep operation do to the rows, what those do   *)
(* that are under way when one of them fails, and what one that succeeds   *)
(* has made of the document.                                               *)
(***************************************************************************)
EXTENDS DeepOperation, SequenceLemmas

----------------------------------------------------------------------------
(* The data of a request, and the statements                               *)

LEMMA KeyIsKey ==
    ASSUME NEW r \in Requests, NEW i \in DOMAIN r.data
    PROVE  KeyOf(r.data, i) \in Keys
<1>1. r.data[i] \in Entry /\ (r.data[i].key = None => i \in DOMAIN Uuid)
  BY DeepAssumption DEF IsRequest
<1>2. ASSUME i \in DOMAIN Uuid PROVE Uuid[i] \in Keys
  BY <1>2, DeepAssumption
<1> QED BY <1>1, <1>2 DEF KeyOf, Entry

\* fill-in-keys.js gives each entry a key, and the root of an UPDATE its own.
LEMMA PayloadType ==
    ASSUME request \in Requests
    PROVE  /\ DOMAIN Payload \subseteq Ids
           /\ \A x \in DOMAIN Payload : Payload[x].up \in Ids \cup {None} /\ Payload[x].val \in Values
           /\ request.op = "UPDATE" => Root \in DOMAIN Payload
<1> DEFINE data == request.data
           nodes == DOMAIN data
           id(i) == IdOf(data, i)
<1>1. ASSUME NEW i \in nodes
      PROVE  /\ id(i) \in Ids /\ data[i].val \in Values
             /\ data[i].parent # 0 => id(data[i].parent) \in Ids
  <2>1. data \in Seq(Entry) /\ \A j \in nodes : data[j] \in Entry /\ data[j].parent < j
    BY DeepAssumption DEF IsRequest
  <2>2. \A j \in nodes : id(j) \in Ids
    BY <2>1, KeyIsKey DEF IdOf, Ids, Entry
  <2>3. data[i].parent \in Nat /\ data[i].parent < i /\ data[i].val \in Values
    BY <2>1 DEF Entry
  <2>4. data[i].parent # 0 => data[i].parent \in nodes
    BY <2>1, <2>3
  <2> QED BY <2>2, <2>3, <2>4
<1> HIDE DEF id, data, nodes
<1>2. DOMAIN Payload = {id(i) : i \in nodes}
  BY DEF Payload, FillInKeys, id, data, nodes
<1>3. ASSUME NEW x \in DOMAIN Payload
      PROVE  Payload[x].up \in Ids \cup {None} /\ Payload[x].val \in Values
  <2> DEFINE i == CHOOSE j \in nodes : id(j) = x
  <2>1. i \in nodes
    <3>1. \E j \in nodes : id(j) = x
      BY <1>2
    <3> QED BY <3>1
  <2>2. Payload[x].up = (IF data[i].parent = 0 THEN None ELSE id(data[i].parent))
        /\ Payload[x].val = data[i].val
    BY <1>2 DEF Payload, FillInKeys, id, data, nodes
  <2> HIDE DEF i
  <2> QED BY <2>1, <2>2, <1>1
<1>4. request.op = "UPDATE" => 1 \in nodes /\ id(1) = Root
  <2> SUFFICES ASSUME request.op = "UPDATE" PROVE 1 \in nodes /\ id(1) = Root
    OBVIOUS
  <2>1. data \in Seq(Entry) /\ data # <<>> /\ <<data[1].entity, data[1].key>> = Root
    BY DeepAssumption DEF IsRequest, data
  <2>2. data[1].entity = "Root" /\ data[1].key = "r"
    BY <2>1 DEF Root
  <2>3. KeyOf(data, 1) = "r"
    BY <2>2, DeepAssumption DEF KeyOf
  <2> QED BY <2>1, <2>2, <2>3 DEF nodes, id, IdOf, Root
<1> QED BY <1>1, <1>2, <1>3, <1>4

\* The calls of deep_delete.
Calls == [path : Seq(Entities) \ {<<>>}, depth : Nat]

LEMMA BelowIsCall == ASSUME NEW c \in Calls PROVE Below(c) \subseteq Calls
<1> DEFINE e == Last(c.path)
           comps == Compositions[e]
           selves(i) == {j \in 1 .. i : comps[j] = e}
<1>1. c.path \in Seq(Entities) /\ c.path # <<>> /\ c.depth \in Nat
  BY DEF Calls
<1>2. e \in Entities
  BY <1>1 DEF Last
<1>3. comps \in Seq(Entities)
  BY <1>2, DeepAssumption
<1>4. ASSUME NEW i \in DOMAIN comps
      PROVE  [path |-> Append(c.path, comps[i]), depth |-> c.depth + Cardinality(selves(i))] \in Calls
  <2>1. comps[i] \in Entities /\ i \in Nat
    BY <1>3, <1>4
  <2>2. Append(c.path, comps[i]) \in Seq(Entities) /\ Append(c.path, comps[i]) # <<>>
    BY <1>1, <2>1
  <2>3. IsFiniteSet(selves(i))
    <3>1. selves(i) \subseteq 1 .. i
      OBVIOUS
    <3> HIDE DEF selves
    <3> QED BY <2>1, <3>1, FS_Interval, FS_Subset
  <2> HIDE DEF selves
  <2>4. Cardinality(selves(i)) \in Nat
    BY <2>3, FS_CardinalityType
  <2> QED BY <1>1, <2>2, <2>4 DEF Calls
<1> QED BY <1>4 DEF Below

\* deep_delete follows compositions of the model, from the entity of its rows.
LEMMA CascadeType ==
    ASSUME NEW e \in Entities
    PROVE  Cascade(e) \subseteq Seq(Entities) \ {<<>>} /\ <<e>> \in Cascade(e)
<1> DEFINE S == SUBSET Calls
           n == Longest
           a == {[path |-> <<e>>, depth |-> 0]}
           step == [i \in 1 .. n |-> [x \in S |-> UNION {Below(c) : c \in x}]]
<1>1. n \in Nat /\ 1 \in 1 .. n
  BY DeepAssumption, FS_CardinalityType DEF Longest
<1>2. a \in S
  BY DEF Calls
<1>3. \A i \in 1 .. n, x \in S : step[i][x] = UNION {Below(c) : c \in x}
  OBVIOUS
<1>4. IsStep(S, n, step)
  <2> SUFFICES ASSUME NEW i \in 1 .. n, NEW x \in S PROVE step[i][x] \in S
    BY DEF IsStep
  <2> QED BY <1>3, BelowIsCall
<1> HIDE DEF S, n, a, step
<1>5. PICK f \in [1 .. n -> S] : Recursion(n, a, step, f)
  BY <1>1, <1>2, <1>4, RecursiveFunction
<1> DEFINE Is(g) == g = [i \in 1 .. Longest |-> IF i = 1 THEN {[path |-> <<e>>, depth |-> 0]}
                                              ELSE UNION {Below(c) : c \in g[i - 1]}]
<1>6. Is(f)
  <2>1. f = [i \in 1 .. n |-> f[i]]
    OBVIOUS
  <2>2. ASSUME NEW i \in 1 .. n
        PROVE  f[i] = IF i = 1 THEN a ELSE UNION {Below(c) : c \in f[i - 1]}
    <3>1. CASE i = 1
      BY <1>5, <3>1 DEF Recursion
    <3>2. CASE i # 1
      <4>1. i \in 2 .. n /\ i - 1 \in 1 .. n
        BY <1>1, <3>2
      <4>2. f[i] = step[i][f[i - 1]] /\ f[i - 1] \in S
        BY <1>5, <4>1 DEF Recursion
      <4> QED BY <1>3, <3>2, <4>2
    <3> QED BY <3>1, <3>2
  <2> QED BY <2>1, <2>2 DEF n, a
<1> DEFINE calls == CHOOSE g : Is(g)
<1>7. Is(calls)
  BY <1>6
<1> HIDE DEF calls
<1>8. ASSUME NEW i \in 1 .. n PROVE calls[i] \subseteq Calls
  <2> DEFINE P == {k \in Nat : k \in 1 .. n => calls[k] \in S}
  <2>1. 0 \in P
    OBVIOUS
  <2>2. ASSUME NEW k \in P PROVE k + 1 \in P
    <3> SUFFICES ASSUME k + 1 \in 1 .. n PROVE calls[k + 1] \in S
      OBVIOUS
    <3>1. CASE k = 0
      BY <1>2, <1>7, <3>1 DEF n, a
    <3>2. CASE k # 0
      <4>1. k \in 1 .. n /\ calls[k] \in S
        BY <1>1, <3>2
      <4>2. step[k + 1][calls[k]] = UNION {Below(c) : c \in calls[k]}
        BY <1>3, <4>1
      <4>3. k + 1 # 1 /\ (k + 1) - 1 = k
        BY <3>2, <4>1
      <4>4. calls[k + 1] = UNION {Below(c) : c \in calls[(k + 1) - 1]}
        BY <1>7, <4>3 DEF n
      <4>5. calls[k + 1] = UNION {Below(c) : c \in calls[k]}
        BY <4>3, <4>4
      <4>6. step[k + 1][calls[k]] \in S
        BY <1>4, <4>1 DEF IsStep
      <4> QED BY <4>2, <4>5, <4>6
    <3> QED BY <3>1, <3>2
  <2> HIDE DEF P
  <2>3. P = Nat
    BY <2>1, <2>2, SetInduction DEF P
  <2> QED BY <1>8, <2>3 DEF P, S
<1>9. Cascade(e) = {c.path : c \in UNION {calls[i] : i \in 1 .. n}}
  BY DEF Cascade, calls, n
<1>10. calls[1] = a
  BY <1>1, <1>7 DEF n, a
<1>11. <<e>> \in Cascade(e)
  <2>1. [path |-> <<e>>, depth |-> 0] \in calls[1]
    BY <1>10 DEF a
  <2>2. [path |-> <<e>>, depth |-> 0].path = <<e>>
    OBVIOUS
  <2> QED BY <1>1, <1>9, <2>1, <2>2
<1> QED BY <1>8, <1>9, <1>11 DEF Calls

LEMMA DeletesType ==
    ASSUME NEW ids \in SUBSET Ids
    PROVE  Deletes(ids) \subseteq {s \in Statements : s.kind = "delete"}
<1> DEFINE T == {s \in Statements : s.kind = "delete"}
           rows(e) == {id \in ids : id[1] = e}
<1>1. ASSUME NEW e \in {id[1] : id \in ids} PROVE CascadeOf(e, rows(e)) \subseteq T
  <2>1. e \in Entities
    BY DEF Ids
  <2>2. rows(e) \subseteq Ids
    OBVIOUS
  <2> HIDE DEF rows, Ids
  <2>3. ASSUME NEW path \in Cascade(e) PROVE Statement("delete", path, rows(e)) \in T
    <3>1. path \in Seq(Entities) \ {<<>>}
      BY <2>1, CascadeType
    <3> QED BY <2>2, <3>1 DEF Statement, Statements
  <2> HIDE DEF T
  <2> QED BY <2>3 DEF CascadeOf
<1>2. Deletes(ids) = UNION {CascadeOf(e, rows(e)) : e \in {id[1] : id \in ids}}
  BY DEF Deletes
<1> HIDE DEF T, rows
<1>3. Deletes(ids) \subseteq T
  BY <1>1, <1>2
<1> QED BY <1>3 DEF T

\* An UPDATE or INSERT is about entries of the data.
Known(s) == s.kind = "delete" \/ s.ids \subseteq DOMAIN Payload

LEMMA UpdatesType ==
    ASSUME request \in Requests, NEW ids \in SUBSET DOMAIN Payload
    PROVE  Updates(ids) \subseteq {s \in Statements : s.kind = "update" /\ Known(s)}
<1> SUFFICES ASSUME NEW id \in ids
             PROVE  Statement("update", <<id[1]>>, {id}) \in
                       {s \in Statements : s.kind = "update" /\ Known(s)}
  BY DEF Updates
<1>1. id \in Ids /\ id[1] \in Entities
  BY PayloadType DEF Ids
<1> QED BY <1>1 DEF Statement, Statements, Known

LEMMA InsertsType ==
    ASSUME request \in Requests, NEW ids \in SUBSET DOMAIN Payload
    PROVE  NonEmpty(Inserts(ids)) \subseteq {s \in Statements : s.kind = "insert" /\ Known(s)}
<1>1. ids \subseteq Ids /\ "Root" \in Entities
  BY PayloadType, DeepAssumption
<1>2. ASSUME NEW e \in Entities, NEW x \in SUBSET ids
      PROVE  Statement("insert", <<e>>, x) \in {s \in Statements : s.kind = "insert" /\ Known(s)}
  BY <1>1, <1>2 DEF Statement, Statements, Known
<1>3. Inserts(ids) \subseteq {s \in Statements : s.kind = "insert" /\ Known(s)}
  BY ZenonT(60), <1>1, <1>2 DEF Inserts
<1> QED BY <1>3 DEF NonEmpty

----------------------------------------------------------------------------
(* Types                                                                   *)

TypeInv == TypeOK /\ \A s \in todo \cup sent : Known(s)

\* A part of a table is a table.
LEMMA PartIsTable ==
    ASSUME NEW rows, IsTable(rows), NEW part, DOMAIN part \subseteq DOMAIN rows,
           part = [id \in DOMAIN part |-> rows[id]]
    PROVE  IsTable(part)
BY DEF IsTable

LEMMA EffectType ==
    ASSUME request \in Requests, NEW rows, IsTable(rows), NEW s \in Statements, Known(s)
    PROVE  IsTable(Effect(s, rows))
<1> HIDE DEF Ids, Row, Payload
<1>1. \A id \in DOMAIN rows : rows[id] \in Row
  BY DEF IsTable
<1>2. ASSUME NEW id \in DOMAIN Payload PROVE Written(id) \in Row
  BY PayloadType DEF Written, Row
<1>3. CASE s.kind = "delete"
  <2>1. Effect(s, rows) = Without(rows, Affected(s, rows))
    BY <1>3 DEF Effect
  <2> HIDE DEF Affected
  <2> QED BY <2>1 DEF Without, IsTable
<1>4. CASE s.kind = "update"
  <2>1. Effect(s, rows) = [id \in DOMAIN rows |->
                              IF id \in s.ids THEN [Written(id) EXCEPT !.up = rows[id].up]
                              ELSE rows[id]]
    BY <1>4 DEF Effect
  <2>2. s.ids \subseteq DOMAIN Payload
    BY <1>4 DEF Known
  <2>3. ASSUME NEW id \in DOMAIN rows, id \in s.ids
        PROVE  [Written(id) EXCEPT !.up = rows[id].up] \in Row
    BY <1>1, <1>2, <2>2, <2>3 DEF Row
  <2> QED BY <1>1, <2>1, <2>3 DEF IsTable
<1>5. CASE s.kind = "insert"
  <2>1. Effect(s, rows) = [id \in DOMAIN rows \cup s.ids |->
                              IF id \in s.ids THEN Written(id) ELSE rows[id]]
    BY <1>5 DEF Effect
  <2>2. s.ids \subseteq DOMAIN Payload /\ s.ids \subseteq Ids
    BY <1>5 DEF Known, Statements
  <2> QED BY <1>1, <1>2, <2>1, <2>2 DEF IsTable
<1> QED BY <1>3, <1>4, <1>5 DEF Statements

LEMMA DifferenceType ==
    ASSUME IsTable(before)
    PROVE  /\ Deleted(Payload, before) \subseteq Ids
           /\ Created(Payload, before) \subseteq DOMAIN Payload
           /\ Updated(Payload, before) \subseteq DOMAIN Payload
<1> HIDE DEF Payload, Ids
<1>1. Deleted(Payload, before) \subseteq DOMAIN before
  BY DEF Deleted
<1>2. Created(Payload, before) \subseteq DOMAIN Payload
  BY DEF Created
<1>3. Updated(Payload, before) \subseteq DOMAIN Payload
  BY DEF Updated, Matched
<1> QED BY <1>1, <1>2, <1>3 DEF IsTable

LEMMA ReadType == ASSUME IsTable(db) PROVE IsTable(Read(db)) /\ IsTable(<<>>)
<1>1. IsTable(<<>>)
  BY DEF IsTable
<1> DEFINE seen == {id \in DOMAIN db : /\ Chain(db, id)[1] = Root
                                      /\ \A n \in 1 .. Len(Path(db, id)) :
                                           SubSeq(Path(db, id), 1, n) \in Expanded(Payload)}
<1>2. Read(db) = [id \in seen |-> db[id]] /\ seen \subseteq DOMAIN db
  BY DEF Read
<1> HIDE DEF seen
<1> QED BY <1>1, <1>2, PartIsTable

LEMMA TypeInit == Init => TypeInv
<1> SUFFICES ASSUME Init PROVE TypeInv
  OBVIOUS
<1>1. IsTable(db) /\ IsTable(committed) /\ request \in Requests
  BY DeepAssumption DEF Init
<1>2. IsTable(before) /\ IsTable(start)
  BY <1>1, ReadType DEF Init
<1> QED BY <1>1, <1>2 DEF Init, TypeInv, TypeOK

\* A step changes statements and tables one way or the other.
LEMMA TypeKept ==
    ASSUME TypeInv, UNCHANGED request,
           phase' \in {"begin", "read", "delete", "update", "insert",
                       "committed", "failed", "rolled back", "released"},
           IsTable(before'), IsTable(start'), IsTable(db'), IsTable(committed'),
           todo' \cup sent' \cup strays' \subseteq Statements,
           \A s \in (todo' \cup sent') \ (todo \cup sent) : Known(s)
    PROVE  TypeInv'
<1>1. Payload' = Payload
  BY DEF Payload
<1>2. \A s : Known(s)' <=> Known(s)
  BY <1>1 DEF Known
<1>3. \A s \in todo' \cup sent' : Known(s)
  BY DEF TypeInv
<1>4. TypeOK'
  BY DEF TypeInv, TypeOK, IsTable
<1> HIDE DEF Known
<1> QED BY <1>2, <1>3, <1>4 DEF TypeInv

LEMMA OtherInsertsType == TypeInv /\ OtherInserts => TypeInv'
<1> SUFFICES ASSUME TypeInv, OtherInserts PROVE TypeInv'
  OBVIOUS
<1> DEFINE add(row, rows) == [id \in DOMAIN rows \cup {row.id} |->
                                IF id = row.id
                                THEN [up |-> row.up, val |-> row.val, modified |-> FALSE]
                                ELSE rows[id]]
<1>1. PICK row \in Others : db' = add(row, db) /\ committed' = add(row, committed)
  BY DEF OtherInserts
<1>2. row.id \in Ids /\ [up |-> row.up, val |-> row.val, modified |-> FALSE] \in Row
  BY DeepAssumption DEF Row
<1>3. ASSUME NEW rows, IsTable(rows) PROVE IsTable(add(row, rows))
  BY <1>2, <1>3 DEF IsTable
<1> HIDE DEF add
<1>4. IsTable(db') /\ IsTable(committed')
  BY <1>1, <1>3 DEF TypeInv, TypeOK
<1>5. IsTable(before') /\ IsTable(start')
  BY DEF OtherInserts, TypeInv, TypeOK
<1> QED BY <1>4, <1>5, TypeKept DEF OtherInserts, TypeInv, TypeOK

LEMMA RoundsType ==
    TypeInv /\ (ReadBefore \/ StartDeletes \/ StartUpdates \/ StartInserts) => TypeInv'
<1> SUFFICES ASSUME TypeInv, ReadBefore \/ StartDeletes \/ StartUpdates \/ StartInserts
             PROVE  TypeInv'
  OBVIOUS
<1>1. /\ request \in Requests /\ IsTable(before) /\ IsTable(start) /\ IsTable(db)
      /\ IsTable(committed) /\ todo \cup sent \cup strays \subseteq Statements
  BY DEF TypeInv, TypeOK
<1>2. UNCHANGED <<request, sent, strays, db, committed>> /\ IsTable(db') /\ IsTable(committed')
  BY <1>1 DEF ReadBefore, StartDeletes, StartUpdates, StartInserts
<1>3. CASE ReadBefore
  <2>1. IsTable(before') /\ IsTable(start')
    BY <1>1, <1>3, ReadType DEF ReadBefore
  <2> QED BY <1>1, <1>2, <1>3, <2>1, TypeKept DEF ReadBefore
<1>4. CASE StartDeletes
  <2>1. Root \in Ids
    BY DeepAssumption DEF Ids, Root
  <2>2. todo' \subseteq {s \in Statements : s.kind = "delete"}
    BY <1>1, <1>4, <2>1, DifferenceType, DeletesType DEF StartDeletes
  <2>3. IsTable(before') /\ IsTable(start')
    BY <1>1, <1>4 DEF StartDeletes
  <2> QED BY <1>1, <1>2, <1>4, <2>2, <2>3, TypeKept DEF StartDeletes, Known
<1>5. CASE StartUpdates
  <2>1. todo' \subseteq {s \in Statements : s.kind = "update" /\ Known(s)}
    <3>1. request.op = "UPDATE" => {Root} \subseteq DOMAIN Payload
      BY <1>1, PayloadType
    <3> QED BY <1>1, <1>5, <3>1, DifferenceType, UpdatesType DEF StartUpdates
  <2>2. IsTable(before') /\ IsTable(start')
    BY <1>1, <1>5 DEF StartUpdates
  <2> QED BY <1>1, <1>2, <1>5, <2>1, <2>2, TypeKept DEF StartUpdates
<1>6. CASE StartInserts
  <2>1. todo' \subseteq {s \in Statements : s.kind = "insert" /\ Known(s)}
    BY <1>1, <1>6, DifferenceType, InsertsType DEF StartInserts
  <2>2. IsTable(before') /\ IsTable(start')
    BY <1>1, <1>6 DEF StartInserts
  <2> QED BY <1>1, <1>2, <1>6, <2>1, <2>2, TypeKept DEF StartInserts
<1> QED BY <1>3, <1>4, <1>5, <1>6

LEMMA RunType == TypeInv /\ (Prepare \/ Run \/ RunFails) => TypeInv'
<1> SUFFICES ASSUME TypeInv, Prepare \/ Run \/ RunFails PROVE TypeInv'
  OBVIOUS
<1>1. /\ request \in Requests /\ IsTable(before) /\ IsTable(start) /\ IsTable(db)
      /\ IsTable(committed) /\ todo \cup sent \cup strays \subseteq Statements
      /\ \A s \in todo \cup sent : Known(s)
  BY DEF TypeInv, TypeOK
<1>2. UNCHANGED <<request, before, start>> /\ IsTable(before') /\ IsTable(start')
  BY <1>1 DEF Prepare, Run, RunFails
<1>3. CASE Prepare
  <2>1. PICK s \in todo : todo' = todo \ {s} /\ sent' = sent \cup {s}
    BY <1>3 DEF Prepare
  <2>2. UNCHANGED <<phase, strays, db, committed>> /\ IsTable(db') /\ IsTable(committed')
    BY <1>1, <1>3 DEF Prepare
  <2>3. todo' \cup sent' = todo \cup sent
    BY <2>1
  <2> QED BY <1>1, <1>2, <2>2, <2>3, TypeKept DEF TypeInv, TypeOK
<1>4. CASE Run
  <2>1. PICK s \in sent : db' = Effect(s, db) /\ sent' = sent \ {s}
    BY <1>4 DEF Run
  <2>2. IsTable(Effect(s, db))
    BY <1>1, EffectType
  <2>3. IsTable(db') /\ IsTable(committed')
    BY <1>1, <1>4, <2>1, <2>2 DEF Run
  <2> QED BY <1>1, <1>2, <1>4, <2>1, <2>3, TypeKept DEF Run, TypeInv, TypeOK
<1>5. CASE RunFails
  <2>1. todo' \cup sent' \subseteq todo \cup sent
    BY <1>5 DEF RunFails
  <2>2. phase' \in {phase, "failed"} /\ strays' \subseteq strays \cup todo' \cup sent'
    BY <1>5 DEF RunFails
  <2>3. IsTable(db') /\ IsTable(committed')
    BY <1>1, <1>5 DEF RunFails
  <2> QED BY <1>1, <1>2, <2>1, <2>2, <2>3, TypeKept DEF TypeInv, TypeOK
<1> QED BY <1>3, <1>4, <1>5

LEMMA EndType == TypeInv /\ (Commit \/ Rollback \/ Release) => TypeInv'
<1> SUFFICES ASSUME TypeInv, Commit \/ Rollback \/ Release PROVE TypeInv'
  OBVIOUS
<1>1. /\ UNCHANGED <<request, before, start>>
      /\ IsTable(before') /\ IsTable(start') /\ IsTable(db') /\ IsTable(committed')
  BY DEF Commit, Rollback, Release, TypeInv, TypeOK
<1>2. todo' \cup sent' \subseteq todo \cup sent /\ strays' = strays
  BY DEF Commit, Rollback, Release
<1> QED BY <1>1, <1>2, TypeKept DEF Commit, Rollback, Release, TypeInv, TypeOK

LEMMA TypeStep == TypeInv /\ [Next]_vars => TypeInv'
<1> SUFFICES ASSUME TypeInv, [Next]_vars PROVE TypeInv'
  OBVIOUS
<1>1. CASE UNCHANGED vars
  <2>1. UNCHANGED <<request, phase, before, start, todo, sent, strays, db, committed>>
    BY <1>1 DEF vars
  <2>2. IsTable(before') /\ IsTable(start') /\ IsTable(db') /\ IsTable(committed')
    BY <2>1 DEF TypeInv, TypeOK
  <2> QED BY <2>1, <2>2, TypeKept DEF TypeInv, TypeOK
<1> QED BY <1>1, OtherInsertsType, RoundsType, RunType, EndType DEF Next

\* The variables have the types of the code's data, whatever the data, the
\* rows and the model are, and whichever statements fail (onDeep).
THEOREM DeepTypes == Spec => []TypeOK
<1>1. TypeInv => TypeOK
  BY DEF TypeInv
<1> QED BY <1>1, TypeInit, TypeStep, PTL DEF Spec

----------------------------------------------------------------------------
(* What is left of a request that fails                                    *)

Part(some, rows) == /\ DOMAIN some \subseteq DOMAIN rows
                    /\ \A id \in DOMAIN some : some[id] = rows[id]

\* Until the COMMIT the others see the rows that the request found.  The
\* statements of one round are of one kind, and so are those under way when
\* one of them fails.  DELETEs among them only ever leave a part of the rows.
StraysInv ==
    /\ phase \in {"begin", "read"} => committed = db /\ todo \cup sent = {}
    /\ phase \in {"delete", "update", "insert"} =>
          committed = start /\ \A s \in todo \cup sent : s.kind = phase
    /\ phase = "failed" => committed = start
    /\ phase \in {"failed", "rolled back", "released"} =>
          /\ todo \cup sent \subseteq strays
          /\ \A s, t \in strays : s.kind = t.kind
    /\ phase \in {"rolled back", "released"} =>
          /\ committed = db
          /\ \A s \in strays : s.kind = "delete" => Part(db, start)
          /\ RollbackLeavesStrays

\* f is what the definition of Affected finds, composition by composition.
Levels(s, rows, f) ==
    f = [i \in 1 .. Len(s.path) |->
            IF i = 1 THEN s.ids \cap DOMAIN rows
            ELSE {id \in DOMAIN rows : id[1] = s.path[i] /\ rows[id].up \in f[i - 1]}]

LEMMA LevelsExist ==
    ASSUME NEW s \in Statements, NEW rows
    PROVE  \E f \in [1 .. Len(s.path) -> SUBSET DOMAIN rows] :
              Levels(s, rows, f) /\ Affected(s, rows) = f[Len(s.path)]
<1> DEFINE S == SUBSET DOMAIN rows
           n == Len(s.path)
           a == s.ids \cap DOMAIN rows
           next(i, x) == {id \in DOMAIN rows : id[1] = s.path[i] /\ rows[id].up \in x}
           step == [i \in 1 .. n |-> [x \in S |-> next(i, x)]]
<1>1. n \in Nat /\ n # 0
  BY DEF Statements
<1>2. \A i \in 1 .. n, x \in S : step[i][x] = next(i, x)
  OBVIOUS
<1>3. a \in S /\ \A i, x : next(i, x) \in S
  OBVIOUS
<1>4. IsStep(S, n, step)
  BY <1>2, <1>3 DEF IsStep
<1> HIDE DEF S, n, a, next, step
<1>5. PICK f \in [1 .. n -> S] : Recursion(n, a, step, f)
  BY <1>1, <1>3, <1>4, RecursiveFunction
<1>6. ASSUME NEW i \in 1 .. n
      PROVE  f[i] = IF i = 1 THEN a ELSE next(i, f[i - 1])
  <2>1. CASE i = 1
    BY <1>1, <1>5, <2>1 DEF Recursion
  <2>2. CASE i # 1
    <3>1. i \in 2 .. n /\ i - 1 \in 1 .. n
      BY <1>1, <2>2
    <3>2. f[i] = step[i][f[i - 1]] /\ f[i - 1] \in S
      BY <1>5, <3>1 DEF Recursion
    <3> QED BY <1>2, <2>2, <3>2
  <2> QED BY <2>1, <2>2
<1>7. f = [i \in 1 .. n |-> IF i = 1 THEN a ELSE next(i, f[i - 1])]
  BY <1>6
<1>8. Levels(s, rows, f)
  BY <1>7 DEF Levels, n, a, next
<1> DEFINE level == CHOOSE g : Levels(s, rows, g)
<1>9. Levels(s, rows, level)
  BY <1>8
<1>10. Affected(s, rows) = level[Len(s.path)]
  BY DEF Affected, Levels
<1> HIDE DEF level
<1>11. level = [i \in 1 .. n |-> IF i = 1 THEN a ELSE next(i, level[i - 1])]
  BY <1>9 DEF Levels, n, a, next
<1>12. level \in [1 .. n -> S]
  BY <1>3, <1>11
<1> QED BY <1>9, <1>10, <1>12 DEF n, S

\* A DELETE finds no more rows in a part of the rows than in all of them.
LEMMA AffectedInPart ==
    ASSUME NEW s \in Statements, NEW some, NEW rows, Part(some, rows)
    PROVE  Affected(s, some) \subseteq Affected(s, rows)
<1>1. PICK f \in [1 .. Len(s.path) -> SUBSET DOMAIN some] :
         Levels(s, some, f) /\ Affected(s, some) = f[Len(s.path)]
  BY LevelsExist
<1>2. PICK g \in [1 .. Len(s.path) -> SUBSET DOMAIN rows] :
         Levels(s, rows, g) /\ Affected(s, rows) = g[Len(s.path)]
  BY LevelsExist
<1> DEFINE P == {i \in Nat : i \in 1 .. Len(s.path) => f[i] \subseteq g[i]}
<1>3. 0 \in P
  OBVIOUS
<1>4. ASSUME NEW i \in P PROVE i + 1 \in P
  <2> SUFFICES ASSUME i + 1 \in 1 .. Len(s.path) PROVE f[i + 1] \subseteq g[i + 1]
    OBVIOUS
  <2>1. CASE i = 0
    <3>1. f[1] = s.ids \cap DOMAIN some /\ g[1] = s.ids \cap DOMAIN rows
      BY <1>1, <1>2, <2>1 DEF Levels
    <3> QED BY <2>1, <3>1 DEF Part
  <2>2. CASE i # 0
    <3>1. i + 1 # 1 /\ (i + 1) - 1 = i /\ i \in 1 .. Len(s.path)
      BY <2>2 DEF Statements
    <3>2. f[i] \subseteq g[i]
      BY <3>1
    <3>3. f[i + 1] = {id \in DOMAIN some : id[1] = s.path[i + 1] /\ some[id].up \in f[i]}
      BY <1>1, <3>1 DEF Levels
    <3>4. g[i + 1] = {id \in DOMAIN rows : id[1] = s.path[i + 1] /\ rows[id].up \in g[i]}
      BY <1>2, <3>1 DEF Levels
    <3> QED BY <3>2, <3>3, <3>4 DEF Part
  <2> QED BY <2>1, <2>2
<1> HIDE DEF P
<1>5. P = Nat
  BY <1>3, <1>4, SetInduction DEF P
<1>6. Len(s.path) \in Nat /\ Len(s.path) \in 1 .. Len(s.path)
  BY DEF Statements
<1> QED BY <1>1, <1>2, <1>5, <1>6 DEF P

\* A DELETE leaves a part of the rows, and all it does not find; other
\* statements leave all but their own.
LEMMA EffectIs ==
    ASSUME NEW rows, NEW s \in Statements
    PROVE  /\ s.kind = "delete" => Part(Effect(s, rows), rows)
           /\ \A id : id \notin s.ids /\ (s.kind = "delete" => id \notin Affected(s, rows))
                 => /\ id \in DOMAIN Effect(s, rows) <=> id \in DOMAIN rows
                    /\ id \in DOMAIN rows => Effect(s, rows)[id] = rows[id]
<1> HIDE DEF Affected, Written
<1>1. CASE s.kind = "delete"
  <2>1. Effect(s, rows) = [id \in DOMAIN rows \ Affected(s, rows) |-> rows[id]]
    BY <1>1 DEF Effect, Without
  <2> QED BY <1>1, <2>1 DEF Part
<1>2. CASE s.kind = "update"
  <2>1. Effect(s, rows) = [id \in DOMAIN rows |->
                              IF id \in s.ids THEN [Written(id) EXCEPT !.up = rows[id].up]
                              ELSE rows[id]]
    BY <1>2 DEF Effect
  <2> QED BY <1>2, <2>1
<1>3. CASE s.kind = "insert"
  <2>1. Effect(s, rows) = [id \in DOMAIN rows \cup s.ids |->
                              IF id \in s.ids THEN Written(id) ELSE rows[id]]
    BY <1>3 DEF Effect
  <2> QED BY <1>3, <2>1
<1> QED BY <1>1, <1>2, <1>3 DEF Statements

Stray(id) == \E s \in strays : id \in s.ids \cup Affected(s, start)
Kept(id) == id \in DOMAIN start \cap DOMAIN committed /\ start[id] = committed[id]

LEMMA RollbackIs ==
    RollbackLeavesStrays <=>
        (phase \in {"rolled back", "released"} =>
            \A id \in DOMAIN start \cup DOMAIN committed : Kept(id) \/ Stray(id))
BY DEF RollbackLeavesStrays, Kept, Stray

\* A statement that runs after the ROLLBACK.
LEMMA StrayRuns ==
    ASSUME TypeInv, StraysInv, Run, phase \in {"rolled back", "released"}
    PROVE  StraysInv'
<1> HIDE DEF Affected, Effect
<1>1. PICK s \in sent : db' = Effect(s, db) /\ sent' = sent \ {s}
  BY DEF Run
<1>2. UNCHANGED <<phase, start, todo, strays>> /\ committed' = db'
  BY DEF Run
<1>3. /\ s \in strays /\ todo \cup sent \subseteq strays
      /\ \A t, u \in strays : t.kind = u.kind
      /\ committed = db
      /\ s.kind = "delete" => Part(db, start)
  BY DEF StraysInv
<1>4. s \in Statements
  BY DEF TypeInv, TypeOK
<1>5. s.kind = "delete" => Part(db', start)
  <2>1. s.kind = "delete" => Part(db', db)
    BY <1>1, <1>4, EffectIs
  <2> QED BY <1>3, <2>1 DEF Part
<1>6. \A id : Stray(id)' <=> Stray(id)
  BY <1>2 DEF Stray
<1>7. ASSUME NEW id \in DOMAIN start \cup DOMAIN committed'
      PROVE  Kept(id)' \/ Stray(id)
  <2>1. CASE id \in s.ids
    BY <1>3, <2>1 DEF Stray
  <2>2. CASE s.kind = "delete" /\ id \in Affected(s, db)
    <3>1. id \in Affected(s, start)
      BY <1>3, <1>4, <2>2, AffectedInPart
    <3> QED BY <1>3, <3>1 DEF Stray
  <2>3. CASE id \notin s.ids /\ (s.kind = "delete" => id \notin Affected(s, db))
    <3>1. /\ id \in DOMAIN committed' <=> id \in DOMAIN committed
          /\ id \in DOMAIN committed => committed'[id] = committed[id]
      BY ZenonT(60), <1>1, <1>2, <1>3, <1>4, <2>3, EffectIs
    <3>2. Kept(id) \/ Stray(id)
      BY <1>7, <3>1, RollbackIs DEF StraysInv
    <3>3. Kept(id) => Kept(id)'
      BY <1>2, <3>1 DEF Kept
    <3> QED BY <3>2, <3>3
  <2> QED BY <2>1, <2>2, <2>3
<1>8. RollbackLeavesStrays'
  <2>1. \A id \in DOMAIN start' \cup DOMAIN committed' : Kept(id)' \/ Stray(id)'
    BY <1>2, <1>6, <1>7
  <2> QED BY <2>1 DEF RollbackLeavesStrays, Kept, Stray
<1>9. \A t \in strays' : t.kind = "delete" => Part(db, start)'
  BY <1>2, <1>3, <1>5 DEF Part
<1>10. todo' \cup sent' \subseteq strays'
  BY <1>1, <1>2, <1>3
<1> HIDE DEF Part
<1> QED BY <1>2, <1>3, <1>8, <1>9, <1>10 DEF StraysInv

LEMMA StraysStep == TypeInv /\ StraysInv /\ [Next]_vars => StraysInv'
<1> SUFFICES ASSUME TypeInv, StraysInv, [Next]_vars PROVE StraysInv'
  OBVIOUS
<1> USE DEF StraysInv
<1>0. ASSUME phase' \notin {"rolled back", "released"} PROVE RollbackLeavesStrays'
  BY <1>0 DEF RollbackLeavesStrays
<1>1. CASE OtherInserts
  <2>1. committed' = db'
    BY <1>1 DEF OtherInserts
  <2> QED BY <1>0, <1>1, <2>1 DEF OtherInserts
<1>2. CASE ReadBefore
  BY <1>0, <1>2 DEF ReadBefore
<1>3. CASE StartDeletes
  <2>1. Root \in Ids
    BY DeepAssumption DEF Ids, Root
  <2>2. \A s \in todo' : s.kind = "delete"
    BY <1>3, <2>1, DifferenceType, DeletesType DEF StartDeletes, TypeInv, TypeOK
  <2> QED BY <1>0, <1>3, <2>2 DEF StartDeletes
<1>4. CASE StartUpdates
  <2>1. request.op = "UPDATE" => {Root} \subseteq DOMAIN Payload
    BY PayloadType DEF TypeInv, TypeOK
  <2>2. \A s \in todo' : s.kind = "update"
    BY <1>4, <2>1, DifferenceType, UpdatesType DEF StartUpdates, TypeInv, TypeOK
  <2> QED BY <1>0, <1>4, <2>2 DEF StartUpdates
<1>5. CASE StartInserts
  <2>1. \A s \in todo' : s.kind = "insert"
    BY <1>5, DifferenceType, InsertsType DEF StartInserts, TypeInv, TypeOK
  <2> QED BY <1>0, <1>5, <2>1 DEF StartInserts
<1>6. CASE Prepare
  <2>1. todo' \cup sent' = todo \cup sent /\ UNCHANGED <<phase, strays, db, committed, start>>
    BY <1>6 DEF Prepare
  <2>2. RollbackLeavesStrays' <=> RollbackLeavesStrays
    BY <2>1 DEF RollbackLeavesStrays
  <2> QED BY <2>1, <2>2 DEF Part
<1>7. CASE Run
  <2>1. CASE phase \in {"rolled back", "released"}
    BY <1>7, <2>1, StrayRuns
  <2>2. CASE phase \notin {"rolled back", "released"}
    <3>1. /\ UNCHANGED <<phase, start, todo, strays, committed>> /\ sent' \subseteq sent
          /\ phase \notin {"begin", "read"}
      BY <1>7, <2>2 DEF Run
    <3> QED BY <1>0, <2>2, <3>1
  <2> QED BY <2>1, <2>2
<1>8. CASE RunFails
  <2>1. /\ UNCHANGED <<start, db, committed>> /\ sent' \subseteq sent /\ todo' \subseteq todo
        /\ phase \notin {"begin", "read"}
    BY <1>8 DEF RunFails
  <2>2. CASE phase \in {"delete", "update", "insert"}
    <3>1. phase' = "failed" /\ strays' = todo' \cup sent'
      BY <1>8, <2>2 DEF RunFails
    <3> QED BY <1>0, <2>1, <2>2, <3>1
  <2>3. CASE phase \notin {"delete", "update", "insert"}
    <3>1. UNCHANGED <<phase, strays>>
      BY <1>8, <2>3 DEF RunFails
    <3>2. RollbackLeavesStrays' <=> RollbackLeavesStrays
      BY <2>1, <3>1 DEF RollbackLeavesStrays
    <3> QED BY <2>1, <2>3, <3>1, <3>2 DEF Part
  <2> QED BY <2>2, <2>3
<1>9. CASE Commit
  BY <1>0, <1>9 DEF Commit
<1>10. CASE Rollback
  <2>1. /\ UNCHANGED <<start, todo, sent, strays, committed>> /\ phase' = "rolled back"
        /\ db' = committed /\ committed = start
    BY <1>10 DEF Rollback
  <2>2. RollbackLeavesStrays'
    BY <2>1 DEF RollbackLeavesStrays
  <2>3. Part(db, start)'
    BY <2>1 DEF Part
  <2> QED BY <1>10, <2>1, <2>2, <2>3 DEF Rollback
<1>11. CASE Release
  <2>1. /\ UNCHANGED <<start, db, sent, strays, committed>> /\ todo' = {}
        /\ phase = "rolled back" /\ phase' = "released"
    BY <1>11 DEF Release
  <2>2. RollbackLeavesStrays'
    BY <2>1 DEF RollbackLeavesStrays
  <2> QED BY <2>1, <2>2 DEF Part
<1>12. CASE UNCHANGED vars
  <2>1. RollbackLeavesStrays' <=> RollbackLeavesStrays
    BY <1>12 DEF RollbackLeavesStrays, vars
  <2> QED BY <1>12, <2>1 DEF vars, Part
<1> QED BY <1>1, <1>2, <1>3, <1>4, <1>5, <1>6, <1>7, <1>8, <1>9, <1>10, <1>11, <1>12 DEF Next

\* A request that fails leaves the rows it found, but for those of statements
\* that were under way (Promise.all in onDeep), in whatever order these run
\* before and after the ROLLBACK, and whatever others did before.
THEOREM RollbackLeavesTheRest == Spec => []RollbackLeavesStrays
<1>1. Init => StraysInv
  BY DEF Init, StraysInv, RollbackLeavesStrays
<1>2. StraysInv => RollbackLeavesStrays
  BY DEF StraysInv, RollbackLeavesStrays
<1> QED BY <1>1, <1>2, TypeInit, TypeStep, StraysStep, PTL DEF Spec

----------------------------------------------------------------------------
(* Chains                                                                  *)

\* Induction from the root of a document down.
LEMMA Induction ==
    ASSUME NEW doc, NoCircle(doc), NEW P \in SUBSET DOMAIN doc,
           \A x \in DOMAIN doc : (doc[x].up \in DOMAIN doc => doc[x].up \in P) => x \in P
    PROVE  P = DOMAIN doc
<1> SUFFICES ASSUME DOMAIN doc \ P # {} PROVE FALSE
  OBVIOUS
<1>1. PICK x \in DOMAIN doc \ P : doc[x].up \notin DOMAIN doc \ P
  BY DEF NoCircle
<1> QED BY <1>1

Climb(doc, x, f) == IF doc[x].up \notin DOMAIN doc THEN <<x>> ELSE Append(f[doc[x].up], x)
Climbs(doc, f) == f = [x \in DOMAIN doc |-> IF doc[x].up \notin DOMAIN doc THEN <<x>>
                                            ELSE Append(f[doc[x].up], x)]

\* g climbs from the ids in U, which are with all above them.
Piece(doc, U, g) ==
    /\ \A x \in U : doc[x].up \in DOMAIN doc => doc[x].up \in U
    /\ \A x \in U : g[x] = Climb(doc, x, g)

LEMMA PiecesAgree ==
    ASSUME NEW doc, NoCircle(doc), NEW U \in SUBSET DOMAIN doc, NEW V \in SUBSET DOMAIN doc,
           NEW g, NEW h, Piece(doc, U, g), Piece(doc, V, h)
    PROVE  \A x \in U \cap V : g[x] = h[x]
<1> DEFINE P == {y \in DOMAIN doc : y \in U \cap V => g[y] = h[y]}
<1>1. ASSUME NEW y \in DOMAIN doc, doc[y].up \in DOMAIN doc => doc[y].up \in P
      PROVE  y \in P
  BY <1>1 DEF Piece, Climb
<1>2. P \in SUBSET DOMAIN doc
  OBVIOUS
<1> HIDE DEF P
<1>3. P = DOMAIN doc
  BY <1>1, <1>2, Induction
<1> QED BY <1>3 DEF P

LEMMA PieceFor ==
    ASSUME NEW doc, NoCircle(doc), NEW x \in DOMAIN doc
    PROVE  \E U \in SUBSET DOMAIN doc, g \in [DOMAIN doc -> Seq(DOMAIN doc)] :
              Piece(doc, U, g) /\ x \in U
<1> DEFINE D == DOMAIN doc
           F == [D -> Seq(D)]
           P == {y \in D : \E U \in SUBSET D, g \in F : Piece(doc, U, g) /\ y \in U}
<1>1. ASSUME NEW y \in D, doc[y].up \in D => doc[y].up \in P
      PROVE  y \in P
  <2>1. CASE doc[y].up \notin D
    <3> DEFINE g == [z \in D |-> <<z>>]
    <3>1. g \in F /\ {y} \in SUBSET D
      OBVIOUS
    <3>2. Piece(doc, {y}, g)
      BY <2>1 DEF Piece, Climb
    <3> HIDE DEF g, F
    <3> QED BY <3>1, <3>2
  <2>2. CASE doc[y].up \in D
    <3>1. PICK U \in SUBSET D, g \in F : Piece(doc, U, g) /\ doc[y].up \in U
      BY <1>1, <2>2
    <3>2. CASE y \in U
      BY <3>1, <3>2
    <3>3. CASE y \notin U
      <4> DEFINE h == [g EXCEPT ![y] = Append(g[doc[y].up], y)]
      <4>1. g[doc[y].up] \in Seq(D)
        BY <2>2
      <4>2. Append(g[doc[y].up], y) \in Seq(D)
        BY <4>1
      <4>3. h \in F
        BY <4>2
      <4>4. U \cup {y} \in SUBSET D /\ doc[y].up # y
        BY <3>1, <3>3
      <4>5. h[y] = Append(g[doc[y].up], y) /\ \A z \in U : h[z] = g[z]
        BY <3>3
      <4> HIDE DEF h, F
      <4>6. Piece(doc, U \cup {y}, h)
        BY <2>2, <3>1, <4>4, <4>5 DEF Piece, Climb
      <4> QED BY <4>3, <4>4, <4>6
    <3> QED BY <3>2, <3>3
  <2> QED BY <2>1, <2>2
<1>2. P \in SUBSET DOMAIN doc
  OBVIOUS
<1> HIDE DEF P
<1>3. P = DOMAIN doc
  BY <1>1, <1>2, Induction
<1> QED BY <1>3 DEF P

LEMMA ChainExists == ASSUME NEW doc, NoCircle(doc) PROVE \E f : Climbs(doc, f)
<1> DEFINE D == DOMAIN doc
           F == [D -> Seq(D)]
           Value(x, v) == \E U \in SUBSET D, g \in F : Piece(doc, U, g) /\ x \in U /\ v = g[x]
           value(x) == CHOOSE v : Value(x, v)
           f == [x \in D |-> value(x)]
<1>1. ASSUME NEW U \in SUBSET D, NEW g \in F, Piece(doc, U, g), NEW x \in U
      PROVE  f[x] = g[x]
  <2>1. Value(x, g[x])
    BY <1>1
  <2>2. Value(x, value(x))
    <3> HIDE DEF Value
    <3> QED BY <2>1
  <2>3. PICK V \in SUBSET D, h \in F : Piece(doc, V, h) /\ x \in V /\ value(x) = h[x]
    BY <2>2
  <2> HIDE DEF value, Value
  <2>4. g[x] = h[x]
    <3>1. x \in U \cap V /\ Piece(doc, U, g) /\ Piece(doc, V, h)
      BY <1>1, <2>3
    <3>2. U \in SUBSET DOMAIN doc /\ V \in SUBSET DOMAIN doc
      OBVIOUS
    <3>3. \A y \in U \cap V : g[y] = h[y]
      <4>1. NoCircle(doc)
        OBVIOUS
      <4> HIDE DEF D, F, f
      <4> QED BY ONLY <3>1, <3>2, <4>1, PiecesAgree
    <3> QED BY <3>1, <3>3
  <2> QED BY <2>3, <2>4
<1> HIDE DEF value
<1>2. f = [x \in D |-> f[x]]
  OBVIOUS
<1> HIDE DEF f
<1>3. ASSUME NEW x \in D PROVE f[x] = Climb(doc, x, f)
  <2>1. PICK U \in SUBSET D, g \in F : Piece(doc, U, g) /\ x \in U
    BY PieceFor
  <2>2. f[x] = g[x] /\ (doc[x].up \in D => f[doc[x].up] = g[doc[x].up])
    BY <1>1, <2>1 DEF Piece
  <2> QED BY <2>1, <2>2 DEF Piece, Climb
<1> QED BY <1>2, <1>3 DEF Climb, Climbs

\* What the recursive definition of Chain says.
LEMMA ChainIs ==
    ASSUME NEW doc, NoCircle(doc), NEW x \in DOMAIN doc
    PROVE  /\ Chain(doc, x) \in Seq(DOMAIN doc)
           /\ Chain(doc, x) = IF doc[x].up \notin DOMAIN doc THEN <<x>>
                              ELSE Append(Chain(doc, doc[x].up), x)
<1> DEFINE f == CHOOSE g : Climbs(doc, g)
<1>1. Climbs(doc, f)
  BY ChainExists
<1>2. \A y : Chain(doc, y) = f[y]
  BY DEF Chain, Climbs
<1> HIDE DEF f
<1>3. \A y \in DOMAIN doc : f[y] = IF doc[y].up \notin DOMAIN doc THEN <<y>>
                                  ELSE Append(f[doc[y].up], y)
  BY <1>1 DEF Climbs
<1> DEFINE P == {y \in DOMAIN doc : f[y] \in Seq(DOMAIN doc)}
<1>4. ASSUME NEW y \in DOMAIN doc, doc[y].up \in DOMAIN doc => doc[y].up \in P
      PROVE  y \in P
  <2>1. CASE doc[y].up \notin DOMAIN doc
    <3>1. <<y>> \in Seq(DOMAIN doc)
      OBVIOUS
    <3> QED BY <1>3, <2>1, <3>1
  <2>2. CASE doc[y].up \in DOMAIN doc
    <3>1. f[doc[y].up] \in Seq(DOMAIN doc)
      BY <1>4, <2>2
    <3>2. Append(f[doc[y].up], y) \in Seq(DOMAIN doc)
      BY <3>1
    <3> QED BY <1>3, <2>2, <3>2
  <2> QED BY <2>1, <2>2
<1>5. P \in SUBSET DOMAIN doc
  OBVIOUS
<1> HIDE DEF P
<1>6. P = DOMAIN doc
  BY <1>4, <1>5, Induction
<1> QED BY <1>2, <1>3, <1>6 DEF P

\* A chain ends in its id, after that of the id above it.
LEMMA ChainEnds ==
    ASSUME NEW doc, NoCircle(doc), NEW x \in DOMAIN doc
    PROVE  /\ Chain(doc, x) # <<>> /\ Last(Chain(doc, x)) = x
           /\ doc[x].up \notin DOMAIN doc => ToSet(Chain(doc, x)) = {x}
           /\ doc[x].up \in DOMAIN doc =>
                 ToSet(Chain(doc, x)) = ToSet(Chain(doc, doc[x].up)) \cup {x}
<1>1. CASE doc[x].up \notin DOMAIN doc
  <2>1. Chain(doc, x) = <<x>>
    BY <1>1, ChainIs
  <2> QED BY <1>1, <2>1 DEF Last, ToSet
<1>2. CASE doc[x].up \in DOMAIN doc
  <2> DEFINE c == Chain(doc, doc[x].up)
  <2>1. Chain(doc, x) = Append(c, x) /\ c \in Seq(DOMAIN doc)
    BY <1>2, ChainIs
  <2> HIDE DEF c
  <2>2. /\ Len(Append(c, x)) = Len(c) + 1 /\ Append(c, x) # <<>>
        /\ \A i \in 1 .. Len(c) : Append(c, x)[i] = c[i]
        /\ Append(c, x)[Len(c) + 1] = x /\ DOMAIN Append(c, x) = 1 .. Len(c) + 1
        /\ DOMAIN c = 1 .. Len(c) /\ Len(c) \in Nat
    BY <2>1
  <2>3. Last(Append(c, x)) = x
    BY <2>2 DEF Last
  <2>4. ToSet(Append(c, x)) = ToSet(c) \cup {x}
    <3>1. \A i \in 1 .. Len(c) + 1 : i \in 1 .. Len(c) \/ i = Len(c) + 1
      BY <2>2
    <3> QED BY <2>2, <3>1 DEF ToSet
  <2> QED BY <1>2, <2>1, <2>2, <2>3, <2>4 DEF c
<1> QED BY <1>1, <1>2

\* What is above an entry that compareJson matches, it matches, too.
LEMMA MatchedAbove ==
    ASSUME NEW new, NEW old, NoCircle(new), NoCircle(old), NEW p \in Matched(new, old)
    PROVE  ToSet(Chain(old, p)) \subseteq Matched(new, old)
<1> DEFINE P == {x \in DOMAIN old : x \in Matched(new, old) =>
                                      ToSet(Chain(old, x)) \subseteq Matched(new, old)}
<1>1. ASSUME NEW x \in DOMAIN old, old[x].up \in DOMAIN old => old[x].up \in P,
             x \in Matched(new, old)
      PROVE  ToSet(Chain(old, x)) \subseteq Matched(new, old)
  <2>1. x \in DOMAIN new /\ Chain(new, x) = Chain(old, x)
    BY <1>1 DEF Matched
  <2>2. CASE old[x].up \notin DOMAIN old
    BY <1>1, <2>2, ChainEnds
  <2>3. CASE old[x].up \in DOMAIN old
    <3> DEFINE u == old[x].up
               v == new[x].up
               S == DOMAIN new \cup DOMAIN old
    <3>1. Chain(old, x) = Append(Chain(old, u), x) /\ Chain(old, u) \in Seq(S) /\ Chain(old, u) # <<>>
      <4>1. Chain(old, u) \in Seq(DOMAIN old)
        BY <2>3, ChainIs
      <4>2. Chain(old, x) = Append(Chain(old, u), x)
        BY <2>3, ChainIs
      <4>3. Chain(old, u) # <<>>
        BY <2>3, ChainEnds
      <4> QED BY <4>1, <4>2, <4>3
    <3>2. v \in DOMAIN new
      <4> SUFFICES ASSUME v \notin DOMAIN new PROVE FALSE
        OBVIOUS
      <4>1. Chain(new, x) = <<x>>
        BY <2>1, ChainIs
      <4>2. Len(Append(Chain(old, u), x)) = Len(Chain(old, u)) + 1 /\ Len(Chain(old, u)) > 0
        BY <3>1
      <4> QED BY <2>1, <3>1, <4>1, <4>2
    <3>3. Chain(new, x) = Append(Chain(new, v), x) /\ Chain(new, v) \in Seq(S)
      <4>1. Chain(new, v) \in Seq(DOMAIN new)
        BY <3>2, ChainIs
      <4>2. Chain(new, x) = Append(Chain(new, v), x)
        BY <2>1, <3>2, ChainIs
      <4> QED BY <4>1, <4>2
    <3>4. Chain(new, v) = Chain(old, u)
      <4>1. x \in S
        OBVIOUS
      <4> HIDE DEF S, u, v
      <4> QED BY <2>1, <3>1, <3>3, <4>1, AppendInjective
    <3>5. u = v
      <4>1. Last(Chain(new, v)) = v /\ Last(Chain(old, u)) = u
        BY <2>3, <3>2, ChainEnds
      <4> QED BY <3>4, <4>1
    <3>6. u \in Matched(new, old)
      BY <2>3, <3>2, <3>4, <3>5 DEF Matched
    <3>7. ToSet(Chain(old, u)) \subseteq Matched(new, old)
      BY <1>1, <2>3, <3>6
    <3>8. ToSet(Chain(old, x)) = ToSet(Chain(old, u)) \cup {x}
      BY <2>3, ChainEnds
    <3> QED BY <1>1, <3>7, <3>8
  <2> QED BY <2>2, <2>3
<1>2. P \in SUBSET DOMAIN old
  OBVIOUS
<1>3. \A x \in DOMAIN old : (old[x].up \in DOMAIN old => old[x].up \in P) => x \in P
  BY <1>1
<1> HIDE DEF P
<1>4. P = DOMAIN old
  BY <1>2, <1>3, Induction
<1> QED BY <1>4 DEF P, Matched

\* The part of a document that was read: with a row, what is above it.
ReadFrom(old, rows) ==
    /\ Part(old, rows)
    /\ \A x \in DOMAIN old : rows[x].up \in DOMAIN rows => rows[x].up \in DOMAIN old

LEMMA PartNoCircle ==
    ASSUME NEW some, NEW rows, NoCircle(rows), Part(some, rows) PROVE NoCircle(some)
BY DEF NoCircle, Part

LEMMA ReadIs == ASSUME NEW doc, NoCircle(doc) PROVE ReadFrom(Read(doc), doc)
<1> DEFINE Seen(id) == /\ Chain(doc, id)[1] = Root
                       /\ \A n \in 1 .. Len(Path(doc, id)) :
                            SubSeq(Path(doc, id), 1, n) \in Expanded(Payload)
<1>1. Read(doc) = [id \in {id \in DOMAIN doc : Seen(id)} |-> doc[id]]
  BY DEF Read
<1>2. ASSUME NEW x \in DOMAIN doc, Seen(x), doc[x].up \in DOMAIN doc PROVE Seen(doc[x].up)
  <2> DEFINE u == doc[x].up
             c == Chain(doc, u)
             d == Chain(doc, x)
  <2>1. c \in Seq(DOMAIN doc) /\ c # <<>> /\ d = Append(c, x)
    BY <1>2, ChainIs, ChainEnds
  <2>2. /\ Len(c) \in Nat /\ 1 \in 1 .. Len(c) /\ Len(d) = Len(c) + 1 /\ DOMAIN c = 1 .. Len(c)
        /\ DOMAIN d = 1 .. Len(c) + 1 /\ \A i \in 1 .. Len(c) : d[i] = c[i]
    BY <2>1
  <2>3. c[1] = Root
    BY <1>2, <2>2
  <2>4. Path(doc, u) = [i \in 1 .. Len(c) |-> c[i][1]]
        /\ Path(doc, x) = [i \in 1 .. Len(c) + 1 |-> d[i][1]]
    BY <2>2 DEF Path
  <2>5. ASSUME NEW n \in 1 .. Len(c)
        PROVE  SubSeq(Path(doc, u), 1, n) \in Expanded(Payload)
    <3>1. Len(Path(doc, x)) = Len(c) + 1
      BY <2>2, <2>4
    <3>2. n \in 1 .. Len(c) + 1
      BY <2>2
    <3>3. SubSeq(Path(doc, x), 1, n) \in Expanded(Payload)
      BY <1>2, <3>1, <3>2
    <3>4. SubSeq(Path(doc, x), 1, n) = [i \in 1 .. n |-> d[i][1]]
      BY <2>2, <2>4, <2>5 DEF SubSeq
    <3>5. SubSeq(Path(doc, u), 1, n) = [i \in 1 .. n |-> c[i][1]]
      BY <2>2, <2>4, <2>5 DEF SubSeq
    <3>6. \A i \in 1 .. n : d[i] = c[i]
      BY <2>2, <2>5
    <3> QED BY <3>3, <3>4, <3>5, <3>6
  <2>6. Len(Path(doc, u)) = Len(c)
    BY <2>2, <2>4
  <2> QED BY <2>3, <2>5, <2>6
<1> HIDE DEF Seen
<1> QED BY <1>1, <1>2 DEF ReadFrom, Part

\* An entry that the data keeps is above nothing that the DELETEs find.
LEMMA MatchedIsSpared ==
    ASSUME NEW new, NEW old, NEW rows, NoCircle(new), NoCircle(rows), HaveParents(rows),
           ReadFrom(old, rows), IsTable(rows),
           NEW p \in Matched(new, old), NEW s \in Deletes(Deleted(new, old))
    PROVE  p \in DOMAIN rows /\ p \notin Affected(s, rows)
<1>1. NoCircle(old)
  BY PartNoCircle DEF ReadFrom
<1> DEFINE D == Deleted(new, old)
<1>2. D \subseteq DOMAIN old /\ DOMAIN old \subseteq DOMAIN rows /\ DOMAIN rows \subseteq Ids
  BY DEF Deleted, ReadFrom, Part, IsTable
<1>3. s \in Statements /\ s.ids \subseteq D
  <2>1. PICK e \in {id[1] : id \in D} : s \in CascadeOf(e, {id \in D : id[1] = e})
    BY DEF Deletes
  <2>2. s.ids = {id \in D : id[1] = e}
    BY <2>1 DEF CascadeOf, Statement
  <2>3. s \in Statements
    BY <1>2, DeletesType
  <2> QED BY <2>2, <2>3
<1>4. p \notin D
  <2>1. ToSet(Chain(old, p)) \subseteq Matched(new, old)
    BY <1>1, MatchedAbove
  <2> QED BY <2>1 DEF Deleted
<1>5. ASSUME NEW x \in DOMAIN old, old[x].up \in D PROVE x \in D
  <2>1. ToSet(Chain(old, x)) = ToSet(Chain(old, old[x].up)) \cup {x}
    BY <1>1, <1>2, <1>5, ChainEnds
  <2> QED BY <1>5, <2>1 DEF Deleted
<1>6. PICK f \in [1 .. Len(s.path) -> SUBSET DOMAIN rows] :
         Levels(s, rows, f) /\ Affected(s, rows) = f[Len(s.path)]
  BY <1>3, LevelsExist
<1> DEFINE P == {i \in Nat : i \in 1 .. Len(s.path) => f[i] \cap DOMAIN old \subseteq D}
<1>7. 0 \in P
  OBVIOUS
<1>8. ASSUME NEW i \in P PROVE i + 1 \in P
  <2> HIDE DEF D
  <2> SUFFICES ASSUME i + 1 \in 1 .. Len(s.path), NEW x \in f[i + 1], x \in DOMAIN old PROVE x \in D
    OBVIOUS
  <2>1. CASE i = 0
    BY <1>3, <1>6, <2>1 DEF Levels
  <2>2. CASE i # 0
    <3>1. i + 1 # 1 /\ (i + 1) - 1 = i /\ i \in 1 .. Len(s.path)
      BY <1>3, <2>2 DEF Statements
    <3>2. x \in DOMAIN rows /\ rows[x].up \in f[i]
      BY <1>6, <3>1 DEF Levels
    <3>3. rows[x].up \in DOMAIN rows /\ old[x] = rows[x]
      BY <1>6, <3>1, <3>2 DEF ReadFrom, Part
    <3>4. rows[x].up \in DOMAIN old
      BY <3>3 DEF ReadFrom
    <3>5. rows[x].up \in D
      BY <3>1, <3>2, <3>4
    <3> QED BY <1>5, <3>3, <3>5
  <2> QED BY <2>1, <2>2
<1> HIDE DEF P, D
<1>9. P = Nat
  BY <1>7, <1>8, SetInduction DEF P
<1>10. Len(s.path) \in Nat /\ Len(s.path) \in 1 .. Len(s.path)
  BY <1>3 DEF Statements
<1> QED BY <1>2, <1>4, <1>6, <1>9, <1>10 DEF P, Matched

\* A row below one that the DELETE of a path finds is found by that of the
\* path prolonged.
LEMMA AffectedBelow ==
    ASSUME NEW s \in Statements, NEW rows, NEW y \in DOMAIN rows, y[1] \in Entities,
           rows[y].up \in Affected(s, rows)
    PROVE  y \in Affected(Statement("delete", Append(s.path, y[1]), s.ids), rows)
<1> DEFINE t == Statement("delete", Append(s.path, y[1]), s.ids)
           n == Len(s.path)
<1>1. /\ s.path \in Seq(Entities) /\ n \in Nat \ {0}
      /\ Append(s.path, y[1]) \in Seq(Entities) \ {<<>>}
      /\ Len(Append(s.path, y[1])) = n + 1 /\ Append(s.path, y[1])[n + 1] = y[1]
      /\ \A i \in 1 .. n : Append(s.path, y[1])[i] = s.path[i]
  BY DEF Statements
<1>2. /\ t \in Statements /\ t.path = Append(s.path, y[1]) /\ t.ids = s.ids
  BY <1>1 DEF Statement, Statements
<1> HIDE DEF t
<1>3. PICK f \in [1 .. n -> SUBSET DOMAIN rows] :
         Levels(s, rows, f) /\ Affected(s, rows) = f[n]
  BY LevelsExist
<1>4. PICK g \in [1 .. n + 1 -> SUBSET DOMAIN rows] :
         Levels(t, rows, g) /\ Affected(t, rows) = g[n + 1]
  <2>1. \E g \in [1 .. Len(t.path) -> SUBSET DOMAIN rows] :
           Levels(t, rows, g) /\ Affected(t, rows) = g[Len(t.path)]
    BY <1>2, LevelsExist
  <2>2. Len(t.path) = n + 1
    BY <1>1, <1>2
  <2> HIDE DEF n
  <2> QED BY <2>1, <2>2
<1> DEFINE P == {i \in Nat : i \in 1 .. n => f[i] = g[i]}
<1>5. 0 \in P
  OBVIOUS
<1>6. ASSUME NEW i \in P PROVE i + 1 \in P
  <2> SUFFICES ASSUME i + 1 \in 1 .. n PROVE f[i + 1] = g[i + 1]
    OBVIOUS
  <2>1. CASE i = 0
    BY <1>1, <1>2, <1>3, <1>4, <2>1 DEF Levels
  <2>2. CASE i # 0
    <3>1. i + 1 # 1 /\ (i + 1) - 1 = i /\ i \in 1 .. n /\ i + 1 \in 1 .. n + 1
      BY <1>1, <2>2
    <3>2. f[i] = g[i] /\ t.path[i + 1] = s.path[i + 1]
      BY <1>1, <1>2, <3>1
    <3>3. f[i + 1] = {id \in DOMAIN rows : id[1] = s.path[i + 1] /\ rows[id].up \in f[i]}
      BY <1>3, <3>1 DEF Levels
    <3>4. g[i + 1] = {id \in DOMAIN rows : id[1] = t.path[i + 1] /\ rows[id].up \in g[i]}
      BY <1>1, <1>2, <1>4, <3>1 DEF Levels
    <3> QED BY <3>2, <3>3, <3>4
  <2> QED BY <2>1, <2>2
<1> HIDE DEF P
<1>7. P = Nat
  BY <1>5, <1>6, SetInduction DEF P
<1>8. f[n] = g[n]
  BY <1>1, <1>7 DEF P
<1>9. n + 1 # 1 /\ (n + 1) - 1 = n /\ n + 1 \in 1 .. n + 1
  BY <1>1
<1>10. g[n + 1] = {id \in DOMAIN rows : id[1] = t.path[n + 1] /\ rows[id].up \in g[n]}
  <2>1. g = [i \in 1 .. Len(t.path) |->
                IF i = 1 THEN t.ids \cap DOMAIN rows
                ELSE {id \in DOMAIN rows : id[1] = t.path[i] /\ rows[id].up \in g[i - 1]}]
    BY <1>4 DEF Levels
  <2>2. n + 1 \in 1 .. Len(t.path)
    BY <1>1, <1>2, <1>9
  <2>3. g[n + 1] = {id \in DOMAIN rows : id[1] = t.path[n + 1] /\ rows[id].up \in g[(n + 1) - 1]}
    BY <1>9, <2>1, <2>2
  <2> QED BY <1>9, <2>3
<1>11. y \in g[n + 1]
  BY <1>1, <1>2, <1>3, <1>8, <1>10
<1> QED BY <1>4, <1>11 DEF t

----------------------------------------------------------------------------
(* Rows without their parents                                              *)

LEMMA PayloadIsForest ==
    ASSUME request \in Requests PROVE HaveParents(Payload) /\ NoCircle(Payload)
<1> DEFINE data == request.data
           nodes == DOMAIN data
           id(i) == IdOf(data, i)
           one(x) == CHOOSE j \in nodes : id(j) = x
           up(i) == IF data[i].parent = 0 THEN None ELSE id(data[i].parent)
<1>1. DOMAIN Payload = {id(i) : i \in nodes}
  BY DEF Payload, FillInKeys
<1>2. \A x \in DOMAIN Payload : Payload[x].up = up(one(x))
  BY DEF Payload, FillInKeys
<1>3. ASSUME NEW i \in nodes
      PROVE  i \in Nat /\ (up(i) = None \/ \E j \in nodes : j < i /\ up(i) = id(j))
  <2>1. data \in Seq(Entry) /\ data[i] \in Entry /\ data[i].parent < i
    BY DeepAssumption DEF IsRequest
  <2>2. i \in Nat /\ data[i].parent \in Nat
    BY <2>1 DEF Entry
  <2>3. data[i].parent # 0 => data[i].parent \in nodes
    BY <2>1, <2>2
  <2> QED BY <2>1, <2>2, <2>3
<1>4. ASSUME NEW x \in DOMAIN Payload PROVE one(x) \in nodes /\ id(one(x)) = x
  <2>1. \E j \in nodes : id(j) = x
    BY <1>1
  <2> HIDE DEF id
  <2> QED BY <2>1
<1>5. \A i, j \in nodes : id(i) = id(j) => i = j
  BY EntriesAssumption
<1>6. DOMAIN Payload \subseteq Ids /\ None \notin Ids
  BY PayloadType, DeepAssumption
<1> HIDE DEF id, nodes, data, one, up
<1>7. HaveParents(Payload)
  <2> SUFFICES ASSUME NEW x \in DOMAIN Payload PROVE Payload[x].up \in DOMAIN Payload \cup {None}
    BY DEF HaveParents
  <2> QED BY <1>1, <1>2, <1>3, <1>4
<1>8. ASSUME NEW ids \in SUBSET DOMAIN Payload, ids # {}
      PROVE  \E x \in ids : Payload[x].up \notin ids
  <2> DEFINE T == {i \in nodes : id(i) \in ids}
  <2>1. T \in SUBSET Nat /\ T # {}
    BY <1>1, <1>3, <1>8
  <2>2. PICK i \in T : \A j \in T : i <= j
    <3> HIDE DEF T
    <3> QED BY <2>1, Least
  <2>3. one(id(i)) = i
    BY <1>1, <1>4, <1>5, <2>2
  <2>4. Payload[id(i)].up = up(i)
    BY <1>1, <1>2, <2>2, <2>3
  <2>5. up(i) \notin ids
    <3> SUFFICES ASSUME up(i) \in ids PROVE FALSE
      OBVIOUS
    <3>1. PICK j \in nodes : j < i /\ up(i) = id(j)
      BY <1>3, <1>6, <2>2
    <3>2. j \in T /\ j \in Nat /\ i \in Nat
      BY <1>3, <2>1, <2>2, <3>1
    <3> QED BY <2>2, <3>1, <3>2
  <2> QED BY <2>2, <2>4, <2>5
<1>9. NoCircle(Payload)
  <2> SUFFICES ASSUME NEW ids \in (SUBSET DOMAIN Payload) \ {{}}
               PROVE  \E x \in ids : Payload[x].up \notin ids
    BY DEF NoCircle
  <2> QED BY <1>8
<1> QED BY <1>7, <1>9

\* The DELETEs of the request.
Planned == IF request.op = "DELETE" THEN Deletes({Root})
           ELSE IF ~HasDeep THEN {}
           ELSE Deletes(Deleted(Payload, before))

\* deep_delete reaches what is below the rows that it deletes: it ends above
\* compositions of an entity with itself that are nested deeper than @depth.
WithinDepth ==
    \A s \in Planned : \A y \in DOMAIN start :
        start[y].up \in Affected(s, start) =>
            Statement("delete", Append(s.path, y[1]), s.ids) \in Planned

Child(s, c) == c.ids = s.ids /\ \E e \in Entities : c.path = Append(s.path, e)

\* A DELETE still to run finds nothing below its rows but what others that
\* are still to run find; when it was prepared there were no such others.
DeleteInv ==
    \A s \in todo \cup sent : s.kind = "delete" =>
        /\ s \in Planned
        /\ phase \in {"delete", "failed"} =>
              /\ Part(db, start)
              /\ \A c \in Planned : Child(s, c) => c \in todo \cup sent \/ Affected(c, db) = {}
              /\ s \in sent =>
                    \A t \in todo \cup sent :
                        t.kind = "delete" /\ t.ids = s.ids => ~IsStrictPrefix(s.path, t.path)

\* Entries to be created find their parents.
There(id) == id \in DOMAIN db /\ \A s \in todo \cup sent : s.kind = "delete" => id \notin Affected(s, db)
Coming(id) == \E s \in todo \cup sent : s.kind = "insert" /\ id \in s.ids
CreateInv ==
    /\ phase \in {"delete", "update"} /\ request.op # "DELETE" =>
          \A c \in Created(Payload, before) :
              LET p == Payload[c].up
              IN  p = None \/ p \in Created(Payload, before) \/ There(p)
    /\ phase = "insert" =>
          \A c \in Ids : Coming(c) => LET p == Payload[c].up
                                       IN  p = None \/ p \in DOMAIN db \/ Coming(p)

Whole == WithinDepth => HaveParents(db)
Modified == \E id \in DOMAIN db : db[id].modified
Awaited == WithinDepth =>
    \A id \in DOMAIN db : db[id].up \in DOMAIN db \cup {None} \/ Coming(db[id].up)
RowsInv ==
    /\ phase \in {"begin", "read"} => HaveParents(db) /\ NoCircle(db)
    /\ phase = "read" => ReadFrom(before, db)
    /\ phase \in {"delete", "update"} => Whole
    /\ phase = "failed" /\ (\E s \in todo \cup sent : s.kind = "delete") => Whole
    /\ phase \in {"insert", "failed"} => Whole \/ Modified
    /\ phase = "insert" => Awaited
    /\ phase = "committed" => todo \cup sent = {} /\ Whole

OrphansInv == DeleteInv /\ CreateInv /\ RowsInv

LEMMA SameRequest ==
    ASSUME UNCHANGED <<request, before>>
    PROVE  Payload' = Payload /\ Planned' = Planned
           /\ Created(Payload, before)' = Created(Payload, before)
<1>1. Payload' = Payload
  BY DEF Payload
<1>2. HasDeep' <=> HasDeep
  BY DEF HasDeep
<1>3. Created(Payload, before)' = Created(Payload, before)
  BY <1>1
<1>4. Planned' = Planned
  BY <1>1, <1>2 DEF Planned
<1> QED BY <1>1, <1>3, <1>4

LEMMA SameDepth ==
    ASSUME UNCHANGED <<request, before, start>> PROVE WithinDepth' <=> WithinDepth
<1>1. Planned' = Planned
  BY SameRequest
<1> QED BY <1>1 DEF WithinDepth

LEMMA PlannedType ==
    ASSUME TypeOK PROVE Planned \subseteq {s \in Statements : s.kind = "delete"}
<1>1. Root \in Ids
  BY DeepAssumption DEF Ids, Root
<1> QED BY <1>1, DifferenceType, DeletesType DEF Planned, TypeOK

LEMMA OrphansInit == Init => OrphansInv
<1> SUFFICES ASSUME Init PROVE OrphansInv
  OBVIOUS
<1>1. todo \cup sent = {} /\ phase = "begin" /\ HaveParents(db) /\ NoCircle(db)
  BY DeepAssumption DEF Init
<1> QED BY <1>1 DEF OrphansInv, DeleteInv, CreateInv, RowsInv

LEMMA OtherInsertsOrphans ==
    ASSUME TypeInv, StraysInv, OrphansInv, OtherInserts PROVE OrphansInv'
<1>1. PICK row \in Others :
         /\ row.id \notin DOMAIN db /\ row.up \in DOMAIN db
         /\ db' = [id \in DOMAIN db \cup {row.id} |->
                      IF id = row.id
                      THEN [up |-> row.up, val |-> row.val, modified |-> FALSE]
                      ELSE db[id]]
  BY DEF OtherInserts
<1>2. /\ phase \in {"begin", "read"} /\ UNCHANGED <<request, phase, before, start, todo, sent, strays>>
      /\ todo' \cup sent' = {}
  BY DEF OtherInserts, StraysInv
<1>3. HaveParents(db) /\ NoCircle(db) /\ (phase = "read" => ReadFrom(before, db))
  BY <1>2 DEF OrphansInv, RowsInv
<1>4. /\ DOMAIN db' = DOMAIN db \cup {row.id} /\ db'[row.id].up = row.up
      /\ \A id \in DOMAIN db : db'[id] = db[id]
  BY <1>1
<1>5. row.id # None
  BY DeepAssumption
<1>6. HaveParents(db')
  BY <1>1, <1>3, <1>4 DEF HaveParents
<1>7. NoCircle(db')
  <2> SUFFICES ASSUME NEW ids \in (SUBSET DOMAIN db') \ {{}}
               PROVE  \E x \in ids : db'[x].up \notin ids
    BY DEF NoCircle
  <2>1. CASE ids \cap DOMAIN db = {}
    <3>1. row.id \in ids
      BY <1>4, <2>1
    <3> QED BY <1>1, <1>4, <2>1, <3>1
  <2>2. CASE ids \cap DOMAIN db # {}
    <3>1. ids \cap DOMAIN db \in (SUBSET DOMAIN db) \ {{}}
      BY <2>2
    <3>2. PICK x \in ids \cap DOMAIN db : db[x].up \notin ids \cap DOMAIN db
      BY <1>3, <3>1 DEF NoCircle
    <3>3. db[x].up \in DOMAIN db \cup {None}
      BY <1>3 DEF HaveParents
    <3>4. None \notin ids
      <4>1. DOMAIN db \subseteq Ids /\ row.id \in Ids /\ None \notin Ids
        BY DeepAssumption DEF TypeInv, TypeOK, IsTable
      <4> QED BY <1>4, <4>1
    <3> QED BY <1>4, <3>2, <3>3, <3>4
  <2> QED BY <2>1, <2>2
<1>8. phase = "read" => ReadFrom(before, db')
  <2> SUFFICES ASSUME phase = "read" PROVE ReadFrom(before, db')
    OBVIOUS
  <2>1. DOMAIN before \subseteq DOMAIN db
    BY <1>3 DEF ReadFrom, Part
  <2>2. \A x \in DOMAIN before : db[x].up \in DOMAIN db \cup {None}
    BY <1>3, <2>1 DEF HaveParents
  <2>3. None \notin DOMAIN db'
    <3>1. DOMAIN db \subseteq Ids /\ row.id \in Ids /\ None \notin Ids
      BY DeepAssumption DEF TypeInv, TypeOK, IsTable
    <3> QED BY <1>4, <3>1
  <2> QED BY <1>3, <1>4, <2>1, <2>2, <2>3 DEF ReadFrom, Part
<1>9. HaveParents(db)' /\ NoCircle(db)' /\ (phase = "read" => ReadFrom(before, db)')
  BY <1>2, <1>6, <1>7, <1>8
<1> QED BY <1>2, <1>9 DEF OrphansInv, DeleteInv, CreateInv, RowsInv

LEMMA ReadBeforeOrphans ==
    ASSUME TypeInv, StraysInv, OrphansInv, ReadBefore PROVE OrphansInv'
<1>1. /\ phase = "begin" /\ phase' = "read" /\ UNCHANGED <<db, todo, sent>>
      /\ before' \in {Read(db), <<>>} /\ todo' \cup sent' = {}
  BY DEF ReadBefore, StraysInv
<1>2. HaveParents(db) /\ NoCircle(db)
  BY <1>1 DEF OrphansInv, RowsInv
<1>3. ReadFrom(<<>>, db)
  BY DEF ReadFrom, Part
<1>4. ReadFrom(before', db)
  BY <1>1, <1>2, <1>3, ReadIs
<1>5. HaveParents(db)' /\ NoCircle(db)' /\ ReadFrom(before, db)'
  BY <1>1, <1>2, <1>4
<1> QED BY <1>1, <1>5 DEF OrphansInv, DeleteInv, CreateInv, RowsInv

\* The DELETEs of the request, which leave the parents of what it creates.
LEMMA StartDeletesOrphans ==
    ASSUME TypeInv, StraysInv, OrphansInv, StartDeletes PROVE OrphansInv'
<1> HIDE DEF Affected
<1>1. /\ phase = "read" /\ UNCHANGED <<request, before, sent, db>> /\ start' = db
      /\ todo' \cup sent' = todo' /\ sent' = {}
  BY DEF StartDeletes, StraysInv
<1>2. HaveParents(db) /\ NoCircle(db) /\ ReadFrom(before, db)
  BY <1>1 DEF OrphansInv, RowsInv
<1>3. HaveParents(db)' /\ Whole'
  BY <1>1, <1>2 DEF Whole
<1>4. /\ Payload' = Payload /\ Planned' = Planned
      /\ Created(Payload, before)' = Created(Payload, before)
  BY <1>1, SameRequest
<1>5. CASE phase' = "insert" /\ todo' = {}
  <2>1. ~\E s \in todo' \cup sent' : TRUE
    BY <1>1, <1>5
  <2>2. Awaited'
    BY <1>3 DEF Awaited, HaveParents
  <2>3. RowsInv'
    BY <1>3, <1>5, <2>1, <2>2 DEF RowsInv
  <2> QED BY <1>5, <2>1, <2>3 DEF OrphansInv, DeleteInv, CreateInv, Coming
<1>6. CASE phase' = "delete" /\ todo' = Planned
  <2>1. todo' \subseteq {s \in Statements : s.kind = "delete"} /\ request.op \in {"INSERT", "UPDATE", "DELETE"}
    BY <1>6, PlannedType, DeepAssumption DEF TypeInv, TypeOK, IsRequest
  <2>2. DeleteInv'
    <3>1. Part(db, start)'
      BY <1>1 DEF Part
    <3> QED BY <1>1, <1>4, <1>6, <3>1 DEF DeleteInv
  <2>3. ASSUME request.op # "DELETE", NEW c \in Created(Payload, before), NEW p, p = Payload[c].up
        PROVE  p = None \/ p \in Created(Payload, before) \/ There(p)'
    <3>1. HaveParents(Payload) /\ NoCircle(Payload)
      BY PayloadIsForest DEF TypeInv, TypeOK
    <3>2. c \in DOMAIN Payload
      BY <2>3 DEF Created
    <3>3. p \in DOMAIN Payload \cup {None}
      BY <2>3, <3>1, <3>2 DEF HaveParents
    <3>4. CASE p \in Matched(Payload, before)
      <4>1. p \in DOMAIN before /\ p \in DOMAIN db
        BY <1>2, <3>4 DEF Matched, ReadFrom, Part
      <4>2. ASSUME NEW s \in Planned PROVE p \notin Affected(s, db)
        <5>1. s \in Deletes(Deleted(Payload, before))
          BY <2>3 DEF Planned
        <5>2. IsTable(db)
          BY DEF TypeInv, TypeOK
        <5> QED BY <1>2, <3>1, <3>4, <5>1, <5>2, MatchedIsSpared
      <4> QED BY <1>1, <1>6, <4>1, <4>2 DEF There
    <3> QED BY <3>3, <3>4 DEF Created
  <2>4. CreateInv'
    BY <1>1, <1>4, <1>6, <2>3 DEF CreateInv
  <2>5. RowsInv'
    BY <1>3, <1>6 DEF RowsInv
  <2> QED BY <2>2, <2>4, <2>5 DEF OrphansInv
<1> QED BY <1>5, <1>6 DEF StartDeletes, Planned

LEMMA StartUpdatesOrphans ==
    ASSUME TypeInv, StraysInv, OrphansInv, StartUpdates PROVE OrphansInv'
<1> HIDE DEF Affected
<1>1. /\ phase = "delete" /\ phase' = "update" /\ UNCHANGED <<request, before, start, sent, db>>
      /\ todo' \cup sent' = todo'
  BY DEF StartUpdates
<1>2. \A s \in todo' : s.kind = "update"
  <2>1. request.op = "UPDATE" => {Root} \subseteq DOMAIN Payload
    BY PayloadType DEF TypeInv, TypeOK
  <2> QED BY <2>1, DifferenceType, UpdatesType DEF StartUpdates, TypeInv, TypeOK
<1>3. /\ Payload' = Payload /\ Created(Payload, before)' = Created(Payload, before)
      /\ WithinDepth' <=> WithinDepth
  BY <1>1, SameRequest, SameDepth
<1>4. DeleteInv'
  BY <1>1, <1>2 DEF DeleteInv
<1>5. CreateInv'
  <2>1. \A id : There(id) => There(id)'
    BY <1>1, <1>2 DEF There
  <2> QED BY <1>1, <1>3, <2>1 DEF OrphansInv, CreateInv
<1>6. RowsInv'
  <2>1. Whole
    BY <1>1 DEF OrphansInv, RowsInv
  <2>2. Whole'
    BY <1>1, <1>3, <2>1 DEF Whole, HaveParents
  <2> QED BY <1>1, <2>2 DEF RowsInv
<1> QED BY <1>4, <1>5, <1>6 DEF OrphansInv

LEMMA StartInsertsOrphans ==
    ASSUME TypeInv, StraysInv, OrphansInv, StartInserts PROVE OrphansInv'
<1> HIDE DEF Affected
<1> DEFINE created == Created(Payload, before)
<1>1. /\ phase = "update" /\ phase' = "insert" /\ UNCHANGED <<request, before, start, sent, db>>
      /\ todo \cup sent = {} /\ todo' \cup sent' = todo'
  BY DEF StartInserts
<1>2. \A s \in todo' : s.kind = "insert"
  BY DifferenceType, InsertsType DEF StartInserts, TypeInv, TypeOK
<1>3. Payload' = Payload /\ (WithinDepth' <=> WithinDepth)
  BY <1>1, SameRequest, SameDepth
<1>4. DeleteInv'
  BY <1>1, <1>2 DEF DeleteInv
<1>5. Whole
  BY <1>1 DEF OrphansInv, RowsInv
<1>6. CreateInv'
  <2> SUFFICES ASSUME NEW c \in Ids, Coming(c)', NEW p, p = Payload[c].up
               PROVE  p = None \/ p \in DOMAIN db \/ Coming(p)'
    BY <1>1, <1>3 DEF CreateInv
  <2>1. /\ todo' # {}
        /\ request.op # "DELETE" /\ todo' = NonEmpty(Inserts(created))
    BY <1>1 DEF Coming, StartInserts
  <2>2. c \in created
    <3>1. PICK s \in Inserts(created) : c \in s.ids
      BY <1>1, <2>1 DEF Coming, NonEmpty
    <3> QED BY <3>1 DEF Inserts, Statement
  <2>3. ASSUME p \in created PROVE Coming(p)'
    <3>1. p \in Ids /\ p[1] \in Entities
      <4>1. p \in Ids
        BY <2>3, PayloadType DEF Created, TypeInv, TypeOK
      <4> QED BY <4>1 DEF Ids
    <3>2. PICK s \in Inserts(created) : p \in s.ids
      <4>1. CASE p = Root
        <5>1. p \in Statement("insert", <<"Root">>, created \cap {Root}).ids
          BY <2>3, <4>1 DEF Statement
        <5> QED BY <5>1 DEF Inserts
      <4>2. CASE p # Root
        <5>1. p \in Statement("insert", <<p[1]>>, {id \in created \ {Root} : id[1] = p[1]}).ids
          BY <2>3, <4>2 DEF Statement
        <5> QED BY <3>1, <5>1 DEF Inserts
      <4> QED BY <4>1, <4>2
    <3>3. s \in todo'
      BY <2>1, <3>2 DEF NonEmpty
    <3> QED BY <1>1, <1>2, <3>2, <3>3 DEF Coming
  <2>4. p = None \/ p \in created \/ There(p)
    BY <1>1, <2>1, <2>2 DEF OrphansInv, CreateInv
  <2> QED BY <2>3, <2>4 DEF There
<1>7. RowsInv'
  <2>1. Whole'
    BY <1>1, <1>3, <1>5 DEF Whole, HaveParents
  <2>2. Awaited'
    BY <2>1 DEF Whole, HaveParents, Awaited
  <2> QED BY <1>1, <2>1, <2>2 DEF RowsInv
<1> QED BY <1>4, <1>6, <1>7 DEF OrphansInv

\* A DELETE is prepared when none of its compositions is left.
LEMMA PrepareOrphans ==
    ASSUME TypeInv, StraysInv, OrphansInv, Prepare PROVE OrphansInv'
<1> HIDE DEF Affected
<1>1. PICK s \in todo : ~Waits(s) /\ todo' = todo \ {s} /\ sent' = sent \cup {s}
  BY DEF Prepare
<1>2. UNCHANGED <<request, phase, before, start, strays, db, committed>>
  BY DEF Prepare
<1>3. todo' \cup sent' = todo \cup sent
  BY <1>1
<1>4. /\ Payload' = Payload /\ Planned' = Planned
      /\ Created(Payload, before)' = Created(Payload, before)
      /\ WithinDepth' <=> WithinDepth
  BY <1>2, SameRequest, SameDepth
<1>5. DeleteInv'
  <2>1. \A t \in todo \cup sent : t.kind = "delete" /\ t.ids = s.ids => ~IsStrictPrefix(s.path, t.path)
    BY <1>1 DEF Waits
  <2>2. Part(db, start)' <=> Part(db, start)
    BY <1>2 DEF Part
  <2> SUFFICES ASSUME NEW d \in todo \cup sent, d.kind = "delete"
               PROVE  /\ d \in Planned
                      /\ phase \in {"delete", "failed"} =>
                            /\ Part(db, start)'
                            /\ \A c \in Planned : Child(d, c) => c \in todo \cup sent \/ Affected(c, db) = {}
                            /\ d \in sent \cup {s} =>
                                  \A t \in todo \cup sent :
                                     t.kind = "delete" /\ t.ids = d.ids => ~IsStrictPrefix(d.path, t.path)
    BY <1>1, <1>2, <1>3, <1>4 DEF DeleteInv
  <2> QED BY <2>1, <2>2 DEF OrphansInv, DeleteInv
<1>6. CreateInv'
  <2>1. \A id : (There(id)' <=> There(id)) /\ (Coming(id)' <=> Coming(id))
    BY <1>2, <1>3 DEF There, Coming
  <2> QED BY <1>2, <1>4, <2>1 DEF OrphansInv, CreateInv
<1>7. RowsInv'
  <2>2. /\ Whole' <=> Whole
        /\ Modified' <=> Modified
        /\ Awaited' <=> Awaited
    BY <1>2, <1>3, <1>4 DEF Whole, Modified, HaveParents, Awaited, Coming
  <2>3. (HaveParents(db)' <=> HaveParents(db)) /\ (NoCircle(db)' <=> NoCircle(db))
    BY <1>2
  <2>4. ReadFrom(before, db)' <=> ReadFrom(before, db)
    BY <1>2
  <2>5. phase # "read"
    BY <1>1 DEF StraysInv
  <2> QED BY <1>2, <1>3, <1>4, <2>2, <2>3, <2>4, <2>5 DEF OrphansInv, RowsInv
<1> QED BY <1>5, <1>6, <1>7 DEF OrphansInv

\* The path of a composition prolongs the path of its parent, and no path is
\* longer than one that prolongs it.
LEMMA PrefixOfChild ==
    ASSUME NEW p \in Seq(Entities), NEW e \in Entities, NEW q \in Seq(Entities)
    PROVE  /\ IsStrictPrefix(p, Append(p, e))
           /\ IsStrictPrefix(Append(p, e), q) => IsStrictPrefix(p, q)
<1> DEFINE n == Len(p)
           a == Append(p, e)
<1>1. n \in Nat /\ a \in Seq(Entities) /\ Len(a) = n + 1 /\ Len(q) \in Nat
  OBVIOUS
<1>2. \A i \in 1 .. n : a[i] = p[i]
  OBVIOUS
<1>3. SubSeq(p, 1, n) = p /\ SubSeq(a, 1, n) = p
  BY <1>1, <1>2
<1>4. IsStrictPrefix(p, a)
  <2>1. p # a /\ n <= Len(a)
    BY <1>1
  <2> HIDE DEF a
  <2> QED BY <1>3, <2>1 DEF IsStrictPrefix, IsPrefix
<1>5. ASSUME IsStrictPrefix(a, q) PROVE IsStrictPrefix(p, q)
  <2>1. n + 1 <= Len(q) /\ SubSeq(a, 1, n + 1) = SubSeq(q, 1, n + 1)
    BY <1>1, <1>5 DEF IsStrictPrefix, IsPrefix
  <2>2. \A i \in 1 .. n : q[i] = p[i]
    <3> SUFFICES ASSUME NEW i \in 1 .. n PROVE q[i] = p[i]
      OBVIOUS
    <3>1. SubSeq(a, 1, n + 1)[i] = a[i] /\ SubSeq(q, 1, n + 1)[i] = q[i]
      BY <1>1, <2>1
    <3> QED BY <1>2, <2>1, <3>1
  <2>3. SubSeq(q, 1, n) = p
    BY <1>1, <2>1, <2>2
  <2>4. n <= Len(q) /\ p # q
    BY <1>1, <2>1
  <2> QED BY <1>3, <2>3, <2>4 DEF IsStrictPrefix, IsPrefix
<1> QED BY <1>4, <1>5

\* Once prepared, a DELETE finds no row that another one is below: nothing
\* is left without its parent.
LEMMA RunDelete ==
    ASSUME TypeInv, StraysInv, OrphansInv, NEW s \in sent, s.kind = "delete",
           phase \in {"delete", "failed"}, db' = Effect(s, db), sent' = sent \ {s},
           UNCHANGED <<request, phase, before, start, todo, strays>>
    PROVE  OrphansInv'
<1> HIDE DEF Affected
<1>1. /\ s \in Statements /\ s.path \in Seq(Entities) /\ s.path # <<>>
      /\ todo \cup sent \subseteq Statements /\ IsTable(db)
  BY DEF TypeInv, TypeOK, Statements
<1>2. db' = [id \in DOMAIN db \ Affected(s, db) |-> db[id]]
  BY DEF Effect, Without
<1>3. Part(db', db)
  BY <1>2 DEF Part
<1>4. /\ s \in Planned /\ Part(db, start)
      /\ \A c \in Planned : Child(s, c) => c \in todo \cup sent \/ Affected(c, db) = {}
      /\ \A t \in todo \cup sent : t.kind = "delete" /\ t.ids = s.ids => ~IsStrictPrefix(s.path, t.path)
  BY DEF OrphansInv, DeleteInv
<1>5. Part(db', start)
  BY <1>3, <1>4 DEF Part
<1>6. /\ Payload' = Payload /\ Planned' = Planned
      /\ Created(Payload, before)' = Created(Payload, before)
      /\ WithinDepth' <=> WithinDepth
  BY SameRequest, SameDepth
<1>7. \A t \in Statements : Affected(t, db') \subseteq Affected(t, db)
  BY <1>3, AffectedInPart
<1>8. Planned \subseteq Statements
  BY PlannedType DEF TypeInv
<1>9. DeleteInv'
  <2>1. Affected(s, db') = {}
    <3>1. PICK f \in [1 .. Len(s.path) -> SUBSET DOMAIN db'] :
             Affected(s, db') = f[Len(s.path)]
      BY <1>1, LevelsExist
    <3>2. Affected(s, db') \subseteq DOMAIN db'
      BY <1>1, <3>1
    <3> QED BY <1>1, <1>2, <1>7, <3>2
  <2> SUFFICES ASSUME NEW d \in todo \cup (sent \ {s}), d.kind = "delete"
               PROVE  /\ d \in Planned
                      /\ \A c \in Planned : Child(d, c) =>
                            c \in todo \cup (sent \ {s}) \/ Affected(c, db') = {}
                      /\ d \in sent =>
                            \A t \in todo \cup sent :
                               t.kind = "delete" /\ t.ids = d.ids => ~IsStrictPrefix(d.path, t.path)
    <3>1. Part(db, start)'
      BY <1>5
    <3> QED BY <1>6, <3>1 DEF DeleteInv
  <2>2. /\ d \in Planned
        /\ \A c \in Planned : Child(d, c) => c \in todo \cup sent \/ Affected(c, db) = {}
        /\ d \in sent =>
              \A t \in todo \cup sent :
                 t.kind = "delete" /\ t.ids = d.ids => ~IsStrictPrefix(d.path, t.path)
    BY DEF OrphansInv, DeleteInv
  <2>3. ASSUME NEW c \in Planned, Child(d, c)
        PROVE  c \in todo \cup (sent \ {s}) \/ Affected(c, db') = {}
    BY <1>7, <1>8, <2>1, <2>2, <2>3
  <2> QED BY <2>2, <2>3
<1>10. CreateInv'
  <2>1. ASSUME NEW id, There(id) PROVE id \in DOMAIN db' /\ \A t \in todo \cup (sent \ {s}) : t.kind = "delete" => id \notin Affected(t, db')
    BY <1>1, <1>2, <1>7, <2>1 DEF There
  <2>2. \A id : There(id) => There(id)'
    BY <2>1 DEF There
  <2> QED BY <1>6, <2>2 DEF OrphansInv, CreateInv
<1>11. Whole'
  <2> SUFFICES ASSUME WithinDepth, NEW y \in DOMAIN db' PROVE db'[y].up \in DOMAIN db' \cup {None}
    BY <1>6 DEF Whole, HaveParents
  <2>1. HaveParents(db)
    BY DEF OrphansInv, RowsInv, Whole
  <2>2. y \in DOMAIN db /\ db'[y] = db[y] /\ db[y].up \in DOMAIN db \cup {None}
    BY <1>3, <2>1 DEF Part, HaveParents
  <2>3. db[y].up \notin Affected(s, db)
    <3> SUFFICES ASSUME db[y].up \in Affected(s, db) PROVE FALSE
      OBVIOUS
    <3> DEFINE c == Statement("delete", Append(s.path, y[1]), s.ids)
    <3>1. y[1] \in Entities
      BY <1>1, <2>2 DEF IsTable, Ids
    <3>2. y \in Affected(c, db)
      BY <1>1, <2>2, <3>1, AffectedBelow
    <3>3. y \in DOMAIN start /\ start[y].up \in Affected(s, start)
      <4>1. Affected(s, db) \subseteq Affected(s, start)
        BY <1>1, <1>4, AffectedInPart
      <4> QED BY <1>4, <2>2, <4>1 DEF Part
    <3>4. c \in Planned
      BY <1>4, <3>3 DEF WithinDepth
    <3>5. c.kind = "delete" /\ c.ids = s.ids /\ c.path = Append(s.path, y[1])
      BY DEF Statement
    <3> HIDE DEF c
    <3>6. Child(s, c)
      BY <3>1, <3>5 DEF Child
    <3>7. c \in todo \cup sent
      BY <1>4, <3>2, <3>4, <3>6
    <3>8. IsStrictPrefix(s.path, c.path)
      BY <1>1, <3>1, <3>5, PrefixOfChild
    <3> QED BY <1>4, <3>5, <3>7, <3>8
  <2> QED BY <1>2, <2>2, <2>3
<1> QED BY <1>9, <1>10, <1>11 DEF OrphansInv, RowsInv

\* An UPDATE leaves the parents of all rows.
LEMMA RunUpdate ==
    ASSUME TypeInv, StraysInv, OrphansInv, NEW s \in sent, s.kind = "update",
           phase \in {"update", "failed"}, db' = Effect(s, db), sent' = sent \ {s},
           UNCHANGED <<request, phase, before, start, todo, strays>>
    PROVE  OrphansInv'
<1> HIDE DEF Affected
<1>1. \A t \in todo \cup sent : t.kind = "update"
  BY DEF StraysInv
<1>2. db' = [id \in DOMAIN db |-> IF id \in s.ids THEN [Written(id) EXCEPT !.up = db[id].up]
                                  ELSE db[id]]
  BY DEF Effect
<1>3. /\ DOMAIN db' = DOMAIN db
      /\ \A id \in DOMAIN db : db'[id].up = db[id].up /\ (db[id].modified => db'[id].modified)
  BY <1>2 DEF Written
<1>4. /\ Payload' = Payload /\ Created(Payload, before)' = Created(Payload, before)
      /\ WithinDepth' <=> WithinDepth
  BY SameRequest, SameDepth
<1>5. DeleteInv'
  BY <1>1 DEF DeleteInv
<1>6. CreateInv'
  <2>1. \A id : There(id) => There(id)'
    BY <1>1, <1>3 DEF There
  <2> QED BY <1>4, <2>1 DEF OrphansInv, CreateInv
<1>7. (Whole => Whole') /\ (Modified => Modified')
  BY <1>3, <1>4 DEF Whole, Modified, HaveParents
<1>8. RowsInv'
  BY <1>1, <1>7 DEF OrphansInv, RowsInv
<1> QED BY <1>5, <1>6, <1>8 DEF OrphansInv

\* An INSERT may run before that of its parents.
LEMMA RunInsert ==
    ASSUME TypeInv, StraysInv, OrphansInv, NEW s \in sent, s.kind = "insert",
           phase \in {"insert", "failed"}, db' = Effect(s, db), sent' = sent \ {s},
           UNCHANGED <<request, phase, before, start, todo, strays>>
    PROVE  OrphansInv'
<1> HIDE DEF Affected
<1>1. \A t \in todo \cup sent : t.kind = "insert"
  BY DEF StraysInv
<1>2. db' = [id \in DOMAIN db \cup s.ids |-> IF id \in s.ids THEN Written(id) ELSE db[id]]
  BY DEF Effect
<1>3. /\ DOMAIN db' = DOMAIN db \cup s.ids
      /\ \A id \in s.ids : db'[id].up = Payload[id].up /\ db'[id].modified
      /\ \A id \in DOMAIN db \ s.ids : db'[id] = db[id]
  BY <1>2 DEF Written
<1>4. Payload' = Payload /\ (WithinDepth' <=> WithinDepth)
  BY SameRequest, SameDepth
<1>5. DeleteInv'
  BY <1>1 DEF DeleteInv
<1>6. ASSUME NEW id, id \in DOMAIN db \/ Coming(id) PROVE id \in DOMAIN db' \/ Coming(id)'
  BY <1>3, <1>6 DEF Coming
<1>7. CreateInv'
  <2> SUFFICES ASSUME phase = "insert", NEW c \in Ids, Coming(c)', NEW p, p = Payload[c].up
               PROVE  p = None \/ p \in DOMAIN db' \/ Coming(p)'
    BY <1>4 DEF CreateInv
  <2>1. Coming(c)
    BY DEF Coming
  <2>2. p = None \/ p \in DOMAIN db \/ Coming(p)
    BY <2>1 DEF OrphansInv, CreateInv
  <2> QED BY <1>6, <2>2
<1>8. Whole' \/ Modified'
  <2>1. CASE s.ids = {}
    <3>1. DOMAIN db' = DOMAIN db /\ \A id \in DOMAIN db : db'[id] = db[id]
      BY <1>3, <2>1
    <3>2. Whole \/ Modified
      BY DEF OrphansInv, RowsInv
    <3> QED BY <1>4, <3>1, <3>2 DEF Whole, Modified, HaveParents
  <2>2. CASE s.ids # {}
    BY <1>3, <2>2 DEF Modified
  <2> QED BY <2>1, <2>2
<1>9. ASSUME phase = "insert" PROVE Awaited'
  <2> SUFFICES ASSUME WithinDepth, NEW id \in DOMAIN db', NEW p, p = db'[id].up
               PROVE  p \in DOMAIN db' \cup {None} \/ Coming(p)'
    BY <1>4 DEF Awaited, Coming
  <2>1. CASE id \in s.ids
    <3>1. Coming(id) /\ id \in Ids /\ p = Payload[id].up
      BY <1>3, <2>1 DEF Coming, TypeInv, TypeOK, Statements
    <3>2. p = None \/ p \in DOMAIN db \/ Coming(p)
      BY <1>9, <3>1 DEF OrphansInv, CreateInv
    <3> QED BY <1>6, <3>2
  <2>2. CASE id \notin s.ids
    <3>1. id \in DOMAIN db /\ p = db[id].up
      BY <1>3, <2>2
    <3>2. p \in DOMAIN db \cup {None} \/ Coming(p)
      BY <1>9, <3>1 DEF OrphansInv, RowsInv, Awaited
    <3> QED BY <1>6, <3>2
  <2> QED BY <2>1, <2>2
<1>10. RowsInv'
  BY <1>1, <1>8, <1>9 DEF RowsInv
<1> QED BY <1>5, <1>7, <1>10 DEF OrphansInv

\* Whoever runs before the request computes its statements, or after its
\* COMMIT, does not; after the ROLLBACK no row is spoken of.
LEMMA RunOrphans ==
    ASSUME TypeInv, StraysInv, OrphansInv, Run PROVE OrphansInv'
<1>1. PICK s \in sent : db' = Effect(s, db) /\ sent' = sent \ {s}
  BY DEF Run
<1>2. UNCHANGED <<request, phase, before, start, todo, strays>>
  BY DEF Run
<1>3. s.kind \in {"delete", "update", "insert"}
  BY DEF TypeInv, TypeOK, Statements
<1>4. CASE phase \in {"delete", "update", "insert"}
  <2>1. s.kind = phase
    BY <1>4 DEF StraysInv
  <2> QED BY <1>1, <1>2, <1>4, <2>1, RunDelete, RunUpdate, RunInsert
<1>5. CASE phase = "failed"
  BY <1>1, <1>2, <1>3, <1>5, RunDelete, RunUpdate, RunInsert
<1>6. CASE phase \in {"rolled back", "released"}
  <2>1. Planned' = Planned
    BY <1>2, SameRequest
  <2>2. todo' \cup sent' \subseteq todo \cup sent /\ phase' = phase
    BY <1>1, <1>2
  <2> QED BY <1>6, <2>1, <2>2 DEF OrphansInv, DeleteInv, CreateInv, RowsInv
<1>7. phase \notin {"begin", "read", "committed"}
  BY DEF StraysInv, OrphansInv, RowsInv
<1> QED BY <1>4, <1>5, <1>6, <1>7 DEF TypeInv, TypeOK

\* With a DELETE that fails go those of its parents, none of which was
\* prepared.
LEMMA RunFailsOrphans ==
    ASSUME TypeInv, StraysInv, OrphansInv, RunFails PROVE OrphansInv'
<1> HIDE DEF Affected
<1> DEFINE Parents(s) == {t \in todo : /\ t.kind = "delete" /\ t.ids = s.ids
                                       /\ IsStrictPrefix(t.path, s.path)}
<1>1. PICK s \in sent : sent' = sent \ {s} /\ todo' = todo \ Parents(s)
  BY DEF RunFails
<1>2. /\ UNCHANGED <<request, before, start, db, committed>>
      /\ phase' = IF phase \in {"delete", "update", "insert"} THEN "failed" ELSE phase
  BY DEF RunFails
<1>3. /\ Payload' = Payload /\ Planned' = Planned /\ (WithinDepth' <=> WithinDepth)
  BY <1>2, SameRequest, SameDepth
<1>4. phase \notin {"begin", "read", "committed"}
  BY DEF StraysInv, OrphansInv, RowsInv
<1>5. /\ todo \cup sent \subseteq Statements
      /\ Planned \subseteq {t \in Statements : t.kind = "delete"}
  BY PlannedType DEF TypeInv, TypeOK
<1>6. DeleteInv'
  <2> SUFFICES ASSUME NEW d \in todo' \cup sent', d.kind = "delete"
               PROVE  /\ d \in Planned
                      /\ phase' \in {"delete", "failed"} =>
                            /\ Part(db, start)'
                            /\ \A c \in Planned : Child(d, c) => c \in todo' \cup sent' \/ Affected(c, db) = {}
                            /\ d \in sent' =>
                                  \A t \in todo' \cup sent' :
                                     t.kind = "delete" /\ t.ids = d.ids => ~IsStrictPrefix(d.path, t.path)
    BY <1>2, <1>3 DEF DeleteInv
  <2>1. d \in todo \cup sent /\ d \in Planned /\ (d \in todo' => d \in todo /\ d \notin Parents(s))
    BY <1>1 DEF OrphansInv, DeleteInv
  <2>2. ASSUME phase' \in {"delete", "failed"} PROVE phase \in {"delete", "failed"}
    <3>1. CASE phase \in {"update", "insert"}
      BY <2>1, <3>1 DEF StraysInv
    <3> QED BY <1>2, <2>2, <3>1
  <2> SUFFICES ASSUME phase' \in {"delete", "failed"}
               PROVE  /\ Part(db, start)'
                      /\ \A c \in Planned : Child(d, c) => c \in todo' \cup sent' \/ Affected(c, db) = {}
                      /\ d \in sent' =>
                            \A t \in todo' \cup sent' :
                               t.kind = "delete" /\ t.ids = d.ids => ~IsStrictPrefix(d.path, t.path)
    BY <2>1
  <2>3. /\ Part(db, start)
        /\ \A c \in Planned : Child(d, c) => c \in todo \cup sent \/ Affected(c, db) = {}
        /\ d \in sent =>
              \A t \in todo \cup sent :
                 t.kind = "delete" /\ t.ids = d.ids => ~IsStrictPrefix(d.path, t.path)
    BY <2>1, <2>2 DEF OrphansInv, DeleteInv
  <2>4. Part(db, start)'
    BY <1>2, <2>3 DEF Part
  <2>5. ASSUME NEW c \in Planned, Child(d, c), c \in todo \cup sent PROVE c \in todo' \cup sent'
    <3>1. /\ d.path \in Seq(Entities) /\ s.path \in Seq(Entities)
          /\ c.kind = "delete" /\ c.ids = d.ids
      BY <1>5, <2>1, <2>5 DEF Statements, Child
    <3>2. PICK e \in Entities : c.path = Append(d.path, e)
      BY <2>5 DEF Child
    <3>3. ASSUME s.kind = "delete", s.ids = d.ids, IsStrictPrefix(d.path, s.path) PROVE FALSE
      <4>1. d \notin sent
        BY <2>3, <3>3
      <4>2. d \in todo' /\ d \in Parents(s)
        BY <1>1, <2>1, <3>3, <4>1
      <4> QED BY <2>1, <4>2
    <3>4. c # s
      <4>1. IsStrictPrefix(d.path, c.path)
        BY <3>1, <3>2, PrefixOfChild
      <4> QED BY <3>1, <3>3, <4>1
    <3>5. c \notin Parents(s)
      <4> SUFFICES ASSUME c \in Parents(s) PROVE FALSE
        OBVIOUS
      <4>1. c.ids = s.ids /\ IsStrictPrefix(c.path, s.path)
        OBVIOUS
      <4>2. IsStrictPrefix(d.path, s.path)
        BY <3>1, <3>2, <4>1, PrefixOfChild
      <4>3. s.kind = "delete"
        BY <2>1, <2>2 DEF StraysInv
      <4> QED BY <3>1, <3>3, <4>1, <4>2, <4>3
    <3> QED BY <1>1, <2>5, <3>4, <3>5
  <2> QED BY <1>1, <2>3, <2>4, <2>5
<1>7. phase' \in {"failed", "rolled back", "released"}
  BY <1>2, <1>4 DEF TypeInv, TypeOK
<1>8. CreateInv'
  BY <1>7 DEF CreateInv
<1>9. RowsInv'
  <2>1. Whole' <=> Whole
    BY <1>2, <1>3 DEF Whole, HaveParents
  <2>2. Modified' <=> Modified
    BY <1>2 DEF Modified
  <2>3. ASSUME phase' = "failed", NEW d \in todo' \cup sent', d.kind = "delete" PROVE Whole
    <3>1. d \in todo \cup sent
      BY <1>1
    <3>2. phase \in {"delete", "failed"}
      BY <1>2, <2>3, <3>1 DEF StraysInv
    <3> QED BY <2>3, <3>1, <3>2 DEF OrphansInv, RowsInv
  <2>4. phase' = "failed" => Whole \/ Modified
    BY <1>2 DEF OrphansInv, RowsInv
  <2> QED BY <1>7, <2>1, <2>2, <2>3, <2>4 DEF RowsInv
<1> QED BY <1>6, <1>8, <1>9 DEF OrphansInv

LEMMA EndOrphans ==
    ASSUME TypeInv, StraysInv, OrphansInv, Commit \/ Rollback \/ Release PROVE OrphansInv'
<1> HIDE DEF Affected
<1>1. UNCHANGED <<request, before, start>> /\ todo' \cup sent' \subseteq todo \cup sent
  BY DEF Commit, Rollback, Release
<1>2. Planned' = Planned /\ (WithinDepth' <=> WithinDepth)
  BY <1>1, SameRequest, SameDepth
<1>3. CASE Commit
  <2>1. phase = "insert" /\ phase' = "committed" /\ db' = db /\ todo \cup sent = {}
    BY <1>3 DEF Commit
  <2>2. Whole'
    BY <1>2, <2>1 DEF OrphansInv, RowsInv, Awaited, Coming, Whole, HaveParents
  <2> QED BY <1>1, <2>1, <2>2 DEF OrphansInv, DeleteInv, CreateInv, RowsInv
<1>4. CASE Rollback \/ Release
  <2>1. phase' \in {"rolled back", "released"}
    BY <1>4 DEF Rollback, Release
  <2> QED BY <1>1, <1>2, <2>1 DEF OrphansInv, DeleteInv, CreateInv, RowsInv
<1> QED BY <1>3, <1>4

LEMMA OrphansStep == TypeInv /\ StraysInv /\ OrphansInv /\ [Next]_vars => OrphansInv'
<1> SUFFICES ASSUME TypeInv, StraysInv, OrphansInv, [Next]_vars PROVE OrphansInv'
  OBVIOUS
<1>1. CASE UNCHANGED vars
  <2> HIDE DEF Affected
  <2>1. UNCHANGED <<request, phase, before, start, todo, sent, db>>
    BY <1>1 DEF vars
  <2>2. /\ Payload' = Payload /\ Planned' = Planned
        /\ Created(Payload, before)' = Created(Payload, before)
        /\ WithinDepth' <=> WithinDepth
    BY <2>1, SameRequest, SameDepth
  <2>3. /\ \A id : (There(id)' <=> There(id)) /\ (Coming(id)' <=> Coming(id))
        /\ Part(db, start)' <=> Part(db, start)
    BY <2>1 DEF There, Coming, Part
  <2>4. /\ (Whole' <=> Whole) /\ (Modified' <=> Modified) /\ (Awaited' <=> Awaited)
        /\ (HaveParents(db)' <=> HaveParents(db)) /\ (NoCircle(db)' <=> NoCircle(db))
        /\ ReadFrom(before, db)' <=> ReadFrom(before, db)
    <3>1. (Whole' <=> Whole) /\ (Modified' <=> Modified) /\ (Awaited' <=> Awaited)
      BY <2>1, <2>2 DEF Whole, Modified, Awaited, HaveParents, Coming
    <3> QED BY <2>1, <3>1
  <2>5. DeleteInv'
    BY <2>1, <2>2, <2>3 DEF OrphansInv, DeleteInv
  <2>6. CreateInv'
    BY <2>1, <2>2, <2>3 DEF OrphansInv, CreateInv
  <2>7. RowsInv'
    BY <2>1, <2>2, <2>4 DEF OrphansInv, RowsInv
  <2> QED BY <2>5, <2>6, <2>7 DEF OrphansInv
<1> QED
  BY <1>1, OtherInsertsOrphans, ReadBeforeOrphans, StartDeletesOrphans, StartUpdatesOrphans,
     StartInsertsOrphans, PrepareOrphans, RunOrphans, RunFailsOrphans, EndOrphans DEF Next

\* No DELETE leaves a row without its parent (deep_delete deletes children
\* first, each only when those below it are gone), whatever the document, and
\* whatever fails or was not read, as long as deep_delete reaches all that is
\* below what it deletes: compositions of an entity with itself are nested no
\* deeper than @depth.
THEOREM ChildrenGoFirst == Spec => [](WithinDepth => NoOrphans)
<1>1. ASSUME OrphansInv, WithinDepth PROVE NoOrphans
  <2> SUFFICES ASSUME \/ phase \in {"delete", "update", "committed"}
                      \/ phase = "failed" /\ \A id \in DOMAIN db : ~db[id].modified
               PROVE  HaveParents(db)
    BY DEF NoOrphans
  <2>1. phase = "failed" => Whole \/ Modified
    BY <1>1 DEF OrphansInv, RowsInv
  <2>2. Whole
    BY <1>1, <2>1 DEF OrphansInv, RowsInv, Modified
  <2> QED BY <1>1, <2>2 DEF Whole
<1>2. OrphansInv => (WithinDepth => NoOrphans)
  BY <1>1
<1>3. Init => StraysInv
  BY DEF Init, StraysInv, RollbackLeavesStrays
<1> QED BY <1>2, <1>3, TypeInit, TypeStep, StraysStep, OrphansInit, OrphansStep, PTL DEF Spec

----------------------------------------------------------------------------
(* Chains that were read, matched and deleted                              *)

\* An id is as deep in what was read as in the database.
LEMMA ReadChain ==
    ASSUME NEW old, NEW rows, NoCircle(rows), ReadFrom(old, rows), NEW x \in DOMAIN old
    PROVE  Chain(old, x) = Chain(rows, x)
<1> DEFINE P == {y \in DOMAIN old : Chain(old, y) = Chain(rows, y)}
<1>1. NoCircle(old)
  BY PartNoCircle DEF ReadFrom
<1>2. ASSUME NEW y \in DOMAIN old, old[y].up \in DOMAIN old => old[y].up \in P PROVE y \in P
  <2>1. y \in DOMAIN rows /\ old[y] = rows[y]
    BY DEF ReadFrom, Part
  <2>2. old[y].up \in DOMAIN old <=> rows[y].up \in DOMAIN rows
    BY <2>1 DEF ReadFrom, Part
  <2>3. /\ Chain(old, y) = IF old[y].up \notin DOMAIN old THEN <<y>>
                           ELSE Append(Chain(old, old[y].up), y)
        /\ Chain(rows, y) = IF rows[y].up \notin DOMAIN rows THEN <<y>>
                            ELSE Append(Chain(rows, rows[y].up), y)
    BY <1>1, <2>1, ChainIs
  <2> QED BY <1>2, <2>1, <2>2, <2>3
<1>3. P \in SUBSET DOMAIN old
  OBVIOUS
<1> HIDE DEF P
<1>4. P = DOMAIN old
  BY <1>1, <1>2, <1>3, Induction
<1> QED BY <1>4 DEF P

\* What is above an id of a chain is in the chain.
LEMMA ChainAbove ==
    ASSUME NEW doc, NoCircle(doc), NEW x \in DOMAIN doc, NEW y \in ToSet(Chain(doc, x))
    PROVE  y \in DOMAIN doc /\ ToSet(Chain(doc, y)) \subseteq ToSet(Chain(doc, x))
<1> DEFINE P == {z \in DOMAIN doc : \A w \in ToSet(Chain(doc, z)) :
                    w \in DOMAIN doc /\ ToSet(Chain(doc, w)) \subseteq ToSet(Chain(doc, z))}
<1>1. ASSUME NEW z \in DOMAIN doc, doc[z].up \in DOMAIN doc => doc[z].up \in P PROVE z \in P
  <2>1. CASE doc[z].up \notin DOMAIN doc
    <3>1. ToSet(Chain(doc, z)) = {z}
      BY <2>1, ChainEnds
    <3> QED BY <3>1
  <2>2. CASE doc[z].up \in DOMAIN doc
    <3>1. ToSet(Chain(doc, z)) = ToSet(Chain(doc, doc[z].up)) \cup {z}
      BY <2>2, ChainEnds
    <3> QED BY <1>1, <2>2, <3>1
  <2> QED BY <2>1, <2>2
<1>2. P \in SUBSET DOMAIN doc
  OBVIOUS
<1> HIDE DEF P
<1>3. P = DOMAIN doc
  BY <1>1, <1>2, Induction
<1> QED BY <1>3 DEF P

\* compareJson matches entries below the same entry.
LEMMA MatchedUp ==
    ASSUME NEW new, NEW old, NoCircle(new), NoCircle(old), NEW x \in Matched(new, old)
    PROVE  \/ new[x].up \notin DOMAIN new /\ old[x].up \notin DOMAIN old
           \/ new[x].up \in DOMAIN new /\ old[x].up = new[x].up /\ old[x].up \in Matched(new, old)
<1> DEFINE u == old[x].up
           v == new[x].up
           S == DOMAIN new \cup DOMAIN old
<1>1. x \in DOMAIN new /\ x \in DOMAIN old /\ Chain(new, x) = Chain(old, x)
  BY DEF Matched
<1>2. ASSUME NEW doc, NoCircle(doc), x \in DOMAIN doc, doc[x].up \in DOMAIN doc
      PROVE  Len(Chain(doc, x)) > 1
  <2>1. /\ Chain(doc, x) = Append(Chain(doc, doc[x].up), x)
        /\ Chain(doc, doc[x].up) \in Seq(DOMAIN doc) /\ Chain(doc, doc[x].up) # <<>>
    BY <1>2, ChainIs, ChainEnds
  <2> QED BY <2>1
<1>3. ASSUME NEW doc, NoCircle(doc), x \in DOMAIN doc, doc[x].up \notin DOMAIN doc
      PROVE  Len(Chain(doc, x)) = 1
  <2>1. Chain(doc, x) = <<x>>
    BY <1>3, ChainIs
  <2> QED BY <2>1
<1>4. u \in DOMAIN old <=> v \in DOMAIN new
  BY <1>1, <1>2, <1>3
<1>5. ASSUME u \in DOMAIN old PROVE u = v /\ u \in Matched(new, old)
  <2>1. /\ Chain(old, x) = Append(Chain(old, u), x) /\ Chain(old, u) \in Seq(S)
        /\ Last(Chain(old, u)) = u
    <3>1. Chain(old, u) \in Seq(DOMAIN old)
      BY <1>5, ChainIs
    <3> QED BY SMTT(60), <1>1, <1>5, <3>1, ChainIs, ChainEnds
  <2>2. /\ Chain(new, x) = Append(Chain(new, v), x) /\ Chain(new, v) \in Seq(S)
        /\ Last(Chain(new, v)) = v
    <3>1. Chain(new, v) \in Seq(DOMAIN new)
      BY <1>4, <1>5, ChainIs
    <3>2. Chain(new, x) = Append(Chain(new, v), x)
      BY <1>1, <1>4, <1>5, ChainIs
    <3>3. Last(Chain(new, v)) = v
      BY <1>4, <1>5, ChainEnds
    <3> QED BY <3>1, <3>2, <3>3
  <2>3. Chain(new, v) = Chain(old, u)
    <3>1. x \in S
      BY <1>1
    <3> HIDE DEF S, u, v
    <3> QED BY <1>1, <2>1, <2>2, <3>1, AppendInjective
  <2> QED BY <1>4, <1>5, <2>1, <2>2, <2>3 DEF Matched
<1> QED BY <1>4, <1>5

\* A DELETE finds what is below its rows.
LEMMA AffectedChain ==
    ASSUME NEW s \in Statements, NEW rows, NoCircle(rows), NEW y \in Affected(s, rows)
    PROVE  y \in DOMAIN rows /\ \E x \in s.ids : x \in ToSet(Chain(rows, y))
<1>1. PICK f \in [1 .. Len(s.path) -> SUBSET DOMAIN rows] :
         Levels(s, rows, f) /\ Affected(s, rows) = f[Len(s.path)]
  BY LevelsExist
<1> DEFINE P == {i \in Nat : i \in 1 .. Len(s.path) =>
                    \A z \in f[i] : \E x \in s.ids : x \in ToSet(Chain(rows, z))}
<1>2. 0 \in P
  OBVIOUS
<1>3. ASSUME NEW i \in P PROVE i + 1 \in P
  <2> SUFFICES ASSUME i + 1 \in 1 .. Len(s.path), NEW z \in f[i + 1]
               PROVE  \E x \in s.ids : x \in ToSet(Chain(rows, z))
    OBVIOUS
  <2>1. CASE i = 0
    <3>1. z \in s.ids /\ z \in DOMAIN rows
      BY <1>1, <2>1 DEF Levels
    <3>2. z \in ToSet(Chain(rows, z))
      BY <3>1, ChainEnds
    <3> QED BY <3>1, <3>2
  <2>2. CASE i # 0
    <3>1. i + 1 # 1 /\ (i + 1) - 1 = i /\ i \in 1 .. Len(s.path)
      BY <2>2 DEF Statements
    <3>2. f[i + 1] = {id \in DOMAIN rows : id[1] = s.path[i + 1] /\ rows[id].up \in f[i]}
      BY <1>1, <3>1 DEF Levels
    <3>3. z \in DOMAIN rows /\ rows[z].up \in f[i] /\ rows[z].up \in DOMAIN rows
      BY <3>1, <3>2
    <3>4. PICK x \in s.ids : x \in ToSet(Chain(rows, rows[z].up))
      BY <3>1, <3>3
    <3>5. x \in ToSet(Chain(rows, z))
      BY <3>3, <3>4, ChainEnds
    <3> QED BY <3>5
  <2> QED BY <2>1, <2>2
<1> HIDE DEF P
<1>4. P = Nat
  BY <1>2, <1>3, SetInduction DEF P
<1>5. Len(s.path) \in Nat /\ Len(s.path) \in 1 .. Len(s.path)
  BY DEF Statements
<1> QED BY <1>1, <1>4, <1>5 DEF P

\* As long as rows have their parents, a DELETE finds among them what it would
\* have found among more rows.
LEMMA AffectedStays ==
    ASSUME NEW s \in Statements, NEW some, NEW rows, Part(some, rows), IsTable(rows), HaveParents(some)
    PROVE  Affected(s, rows) \cap DOMAIN some \subseteq Affected(s, some)
<1>1. PICK f \in [1 .. Len(s.path) -> SUBSET DOMAIN some] :
         Levels(s, some, f) /\ Affected(s, some) = f[Len(s.path)]
  BY LevelsExist
<1>2. PICK g \in [1 .. Len(s.path) -> SUBSET DOMAIN rows] :
         Levels(s, rows, g) /\ Affected(s, rows) = g[Len(s.path)]
  BY LevelsExist
<1> DEFINE P == {i \in Nat : i \in 1 .. Len(s.path) => g[i] \cap DOMAIN some \subseteq f[i]}
<1>3. 0 \in P
  OBVIOUS
<1>4. ASSUME NEW i \in P PROVE i + 1 \in P
  <2> SUFFICES ASSUME i + 1 \in 1 .. Len(s.path), NEW z \in g[i + 1], z \in DOMAIN some
               PROVE  z \in f[i + 1]
    OBVIOUS
  <2>1. CASE i = 0
    BY <1>1, <1>2, <2>1 DEF Levels
  <2>2. CASE i # 0
    <3>1. i + 1 # 1 /\ (i + 1) - 1 = i /\ i \in 1 .. Len(s.path)
      BY <2>2 DEF Statements
    <3>2. f[i + 1] = {id \in DOMAIN some : id[1] = s.path[i + 1] /\ some[id].up \in f[i]}
      BY <1>1, <3>1 DEF Levels
    <3>3. g[i + 1] = {id \in DOMAIN rows : id[1] = s.path[i + 1] /\ rows[id].up \in g[i]}
      BY <1>2, <3>1 DEF Levels
    <3>4. z[1] = s.path[i + 1] /\ some[z].up \in g[i]
      BY <3>3 DEF Part
    <3>5. some[z].up # None
      <4>1. g[i] \subseteq Ids
        BY <1>2, <3>1 DEF IsTable
      <4> QED BY <3>4, <4>1, DeepAssumption
    <3>6. some[z].up \in DOMAIN some
      BY <3>5 DEF HaveParents
    <3>7. some[z].up \in f[i]
      BY <3>1, <3>4, <3>6
    <3> QED BY <3>2, <3>4, <3>7
  <2> QED BY <2>1, <2>2
<1> HIDE DEF P
<1>5. P = Nat
  BY <1>3, <1>4, SetInduction DEF P
<1>6. Len(s.path) \in Nat /\ Len(s.path) \in 1 .. Len(s.path)
  BY DEF Statements
<1> QED BY <1>1, <1>2, <1>5, <1>6 DEF P

\* The DELETEs for some ids are for no others, and each id has one.
LEMMA DeletesAre ==
    ASSUME NEW ids \in SUBSET Ids
    PROVE  /\ \A s \in Deletes(ids) : s.ids \subseteq ids
           /\ \A id \in ids : \E s \in Deletes(ids) : s.path = <<id[1]>> /\ id \in s.ids
<1>1. ASSUME NEW s \in Deletes(ids) PROVE s.ids \subseteq ids
  BY DEF Deletes, CascadeOf, Statement
<1>2. ASSUME NEW id \in ids PROVE \E s \in Deletes(ids) : s.path = <<id[1]>> /\ id \in s.ids
  <2> DEFINE rows == {x \in ids : x[1] = id[1]}
             s == Statement("delete", <<id[1]>>, rows)
  <2>1. id[1] \in Entities
    BY DEF Ids
  <2>2. <<id[1]>> \in Cascade(id[1])
    BY <2>1, CascadeType
  <2>3. s \in CascadeOf(id[1], rows)
    BY <2>2 DEF CascadeOf
  <2>4. s \in Deletes(ids)
    BY <2>3 DEF Deletes
  <2>5. s.path = <<id[1]>> /\ s.ids = rows
    BY DEF Statement
  <2> QED BY <2>4, <2>5
<1> QED BY <1>1, <1>2

\* The DELETE of its own entity finds a row.
LEMMA AffectedItself ==
    ASSUME NEW s \in Statements, NEW rows, NEW x \in DOMAIN rows, s.path = <<x[1]>>, x \in s.ids
    PROVE  x \in Affected(s, rows)
<1>1. PICK f \in [1 .. Len(s.path) -> SUBSET DOMAIN rows] :
         Levels(s, rows, f) /\ Affected(s, rows) = f[Len(s.path)]
  BY LevelsExist
<1>2. Len(s.path) = 1
  OBVIOUS
<1> QED BY <1>1, <1>2 DEF Levels

----------------------------------------------------------------------------
(* What counts as a change                                                 *)

\* Entries end somewhere: some entry of any has none of them below it.
NoDescent(new) ==
    \A ids \in (SUBSET DOMAIN new) \ {{}} : \E id \in ids : \A c \in ids : new[c].up # id

LEMMA PayloadEnds == ASSUME request \in Requests PROVE NoDescent(Payload)
<1> DEFINE data == request.data
           nodes == DOMAIN data
           id(i) == IdOf(data, i)
           up(i) == IF data[i].parent = 0 THEN None ELSE id(data[i].parent)
<1>1. DOMAIN Payload = {id(i) : i \in nodes} /\ DOMAIN Payload \subseteq Ids
  BY PayloadType DEF Payload, FillInKeys
<1>2. \A i \in nodes : Payload[id(i)].up = up(i)
  <2> SUFFICES ASSUME NEW i \in nodes PROVE Payload[id(i)].up = up(i)
    OBVIOUS
  <2> DEFINE one(x) == CHOOSE j \in nodes : id(j) = x
  <2>1. \A x \in DOMAIN Payload : Payload[x].up = up(one(x))
    BY DEF Payload, FillInKeys
  <2>2. one(id(i)) \in nodes /\ id(one(id(i))) = id(i)
    OBVIOUS
  <2>3. one(id(i)) = i
    BY <2>2, EntriesAssumption
  <2>4. id(i) \in DOMAIN Payload
    BY <1>1
  <2> HIDE DEF up, id, one
  <2> QED BY <2>1, <2>3, <2>4
<1>3. nodes = 1 .. Len(data) /\ Len(data) \in Nat /\ \A i \in nodes : data[i].parent \in Nat /\ data[i].parent < i
  <2>1. data \in Seq(Entry) /\ \A i \in nodes : data[i].parent < i
    BY DeepAssumption DEF IsRequest
  <2>2. \A i \in nodes : data[i] \in Entry
    BY <2>1
  <2> QED BY <2>1, <2>2 DEF Entry
<1>4. \A i \in nodes : id(i) \in Ids
  BY <1>1
<1>5. None \notin Ids
  BY DeepAssumption
<1> HIDE DEF id, nodes, data
<1>6. ASSUME NEW ids \in (SUBSET DOMAIN Payload) \ {{}}
      PROVE  \E x \in ids : \A c \in ids : Payload[c].up # x
  <2> DEFINE T == {k \in Nat : \E i \in nodes : id(i) \in ids /\ k = Len(data) - i}
  <2>1. T \in SUBSET Nat /\ T # {}
    <3>1. PICK x \in ids : x \in DOMAIN Payload
      OBVIOUS
    <3>2. PICK i \in nodes : id(i) = x
      BY <1>1, <3>1
    <3>3. Len(data) - i \in Nat
      BY <1>3
    <3> QED BY <3>1, <3>2, <3>3
  <2>2. PICK k \in T : \A m \in T : k <= m
    <3> HIDE DEF T
    <3> QED BY <2>1, Least
  <2>3. PICK i \in nodes : id(i) \in ids /\ k = Len(data) - i
    OBVIOUS
  <2>4. ASSUME NEW c \in ids, Payload[c].up = id(i) PROVE FALSE
    <3>1. PICK j \in nodes : id(j) = c
      BY <1>1
    <3>2. up(j) = id(i)
      BY <1>2, <2>4, <3>1
    <3>3. data[j].parent # 0 /\ id(data[j].parent) = id(i)
      BY <1>4, <1>5, <3>2
    <3>4. data[j].parent \in nodes
      BY <1>3, <3>3
    <3>5. data[j].parent = i
      BY <3>3, <3>4, EntriesAssumption DEF id, data, nodes
    <3>6. i < j /\ Len(data) - j \in Nat
      BY <1>3, <3>5
    <3>7. Len(data) - j \in T
      BY <3>1, <3>6
    <3>8. k <= Len(data) - j
      BY <2>2, <3>7
    <3> QED BY <1>3, <2>3, <3>6, <3>8
  <2> QED BY <2>3, <2>4
<1> QED BY <1>6 DEF NoDescent

\* The body of the recursive definition of Dirty, as a set d of what is dirty.
DirtyIn(new, old, x, d) ==
    \/ x \in Created(new, old) \cup Changed(new, old)
    \/ /\ x[1] \in Managed
       /\ \/ x = Root
          \/ \E c \in DOMAIN new : new[c].up = x /\ c \in d
          \/ \E c \in Deleted(new, old) : old[c].up = x

\* d tells the dirty ones among U, which are with all below them.
Told(new, old, U, d) ==
    /\ U \in SUBSET DOMAIN new /\ d \in SUBSET U
    /\ \A c \in DOMAIN new : new[c].up \in U => c \in U
    /\ \A x \in U : x \in d <=> DirtyIn(new, old, x, d)

LEMMA ToldAgree ==
    ASSUME NEW new, NEW old, NoDescent(new), NEW U, NEW V, NEW d, NEW e,
           Told(new, old, U, d), Told(new, old, V, e), NEW x \in U \cap V
    PROVE  x \in d <=> x \in e
<1> DEFINE Bad == {y \in U \cap V : ~(y \in d <=> y \in e)}
<1> SUFFICES ASSUME Bad # {} PROVE FALSE
  OBVIOUS
<1>1. Bad \in (SUBSET DOMAIN new) \ {{}}
  BY DEF Told
<1> HIDE DEF Bad
<1>2. PICK y \in Bad : \A c \in Bad : new[c].up # y
  BY <1>1 DEF NoDescent
<1>3. y \in U /\ y \in V /\ ~(y \in d <=> y \in e)
  BY <1>2 DEF Bad
<1>4. ASSUME NEW c \in DOMAIN new, new[c].up = y PROVE c \in d <=> c \in e
  BY <1>2, <1>3, <1>4 DEF Told, Bad
<1>5. DirtyIn(new, old, y, d) <=> DirtyIn(new, old, y, e)
  BY <1>4 DEF DirtyIn
<1> QED BY <1>3, <1>5 DEF Told

LEMMA ToldAll == ASSUME NEW new, NEW old, NoDescent(new) PROVE \E d : Told(new, old, DOMAIN new, d)
<1> DEFINE P == {x \in DOMAIN new : \E U, d : Told(new, old, U, d) /\ x \in U}
           D == {x \in DOMAIN new : \E U, d : Told(new, old, U, d) /\ x \in d}
<1>1. ASSUME NEW U, NEW d, Told(new, old, U, d), NEW x \in U PROVE x \in D <=> x \in d
  <2>1. x \in d => x \in D
    BY <1>1 DEF Told
  <2>2. ASSUME x \in D PROVE x \in d
    <3>1. PICK V, e : Told(new, old, V, e) /\ x \in e
      BY <2>2
    <3>2. x \in U \cap V
      BY <3>1 DEF Told
    <3> QED BY <1>1, <3>1, <3>2, ToldAgree
  <2> QED BY <2>1, <2>2
<1>2. Told(new, old, P, D)
  <2>1. P \in SUBSET DOMAIN new
    OBVIOUS
  <2>2. D \in SUBSET P
    BY DEF Told
  <2>3. ASSUME NEW c \in DOMAIN new, new[c].up \in P PROVE c \in P
    BY <2>3 DEF Told
  <2>4. ASSUME NEW x \in P PROVE x \in D <=> DirtyIn(new, old, x, D)
    <3>1. PICK U, d : Told(new, old, U, d) /\ x \in U
      OBVIOUS
    <3> HIDE DEF D, P
    <3>2. ASSUME NEW c \in DOMAIN new, new[c].up = x PROVE c \in D <=> c \in d
      <4>1. c \in U
        BY <3>1, <3>2 DEF Told
      <4> QED BY <1>1, <3>1, <4>1
    <3>3. DirtyIn(new, old, x, D) <=> DirtyIn(new, old, x, d)
      BY <3>2 DEF DirtyIn
    <3> QED BY <1>1, <3>1, <3>3 DEF Told
  <2> HIDE DEF D, P
  <2> QED BY <2>1, <2>2, <2>3, <2>4 DEF Told
<1>3. P = DOMAIN new
  <2> SUFFICES ASSUME DOMAIN new \ P # {} PROVE FALSE
    OBVIOUS
  <2> HIDE DEF P, D
  <2>1. PICK x \in DOMAIN new \ P : \A c \in DOMAIN new \ P : new[c].up # x
    BY DEF NoDescent
  <2> DEFINE U == P \cup {x}
             d == IF DirtyIn(new, old, x, D) THEN D \cup {x} ELSE D
  <2>2. \A c \in DOMAIN new : new[c].up = x => c \in P
    BY <2>1
  <2>3. x \notin D /\ x \notin P
    BY <1>2, <2>1 DEF Told
  <2>4. \A c \in DOMAIN new : c \in P => (c \in d <=> c \in D)
    BY <2>3
  <2>5. \A c \in DOMAIN new : new[c].up \in U => c \in P
    BY <1>2, <2>2 DEF Told
  <2>6. ASSUME NEW y \in U PROVE DirtyIn(new, old, y, d) <=> DirtyIn(new, old, y, D)
    <3> HIDE DEF U, d
    <3> QED BY <2>4, <2>5 DEF DirtyIn
  <2>7. ASSUME NEW y \in U PROVE y \in d <=> DirtyIn(new, old, y, d)
    <3>1. CASE y = x
      BY <2>3, <2>6, <3>1
    <3>2. CASE y # x
      <4>1. y \in P /\ (y \in d <=> y \in D)
        BY <1>2, <2>4, <3>2 DEF Told
      <4> HIDE DEF U, d
      <4> QED BY <1>2, <2>6, <4>1 DEF Told
    <3> QED BY <3>1, <3>2
  <2>8. U \in SUBSET DOMAIN new /\ d \in SUBSET U
    BY <1>2 DEF Told
  <2> HIDE DEF U, d
  <2>9. Told(new, old, U, d)
    <3>1. \A c \in DOMAIN new : new[c].up \in U => c \in U
      BY <2>5 DEF U
    <3> QED BY <2>7, <2>8, <3>1 DEF Told
  <2>10. x \in P
    BY <2>1, <2>9 DEF P, U
  <2> QED BY <2>1, <2>10
<1> HIDE DEF P, D
<1> QED BY <1>2, <1>3

\* What the recursive definition of Dirty says.
LEMMA DirtyIs ==
    ASSUME NEW new, NEW old, NoDescent(new), NEW x \in DOMAIN new
    PROVE  Dirty(new, old, x) <=> DirtyIn(new, old, x, {c \in DOMAIN new : Dirty(new, old, c)})
<1> DEFINE Is(f) == f = [y \in DOMAIN new |->
                            LET childrenDirty == \/ \E c \in DOMAIN new : new[c].up = y /\ f[c]
                                                 \/ \E c \in Deleted(new, old) : old[c].up = y
                            IN  \/ y \in Created(new, old) \cup Changed(new, old)
                                \/ y[1] \in Managed /\ (y = Root \/ childrenDirty)]
<1>1. PICK d : Told(new, old, DOMAIN new, d)
  BY ToldAll
<1> DEFINE g == [y \in DOMAIN new |-> y \in d]
<1>2. Is(g)
  <2>1. ASSUME NEW y \in DOMAIN new
        PROVE  (y \in d) = (\/ y \in Created(new, old) \cup Changed(new, old)
                            \/ y[1] \in Managed /\ (y = Root \/ \/ \E c \in DOMAIN new : new[c].up = y /\ g[c]
                                                              \/ \E c \in Deleted(new, old) : old[c].up = y))
    <3>1. \A c \in DOMAIN new : g[c] <=> c \in d
      BY Zenon
    <3> HIDE DEF g
    <3>2. (y \in d) <=> DirtyIn(new, old, y, d)
      BY <1>1 DEF Told
    <3>3. DirtyIn(new, old, y, d) <=>
             (\/ y \in Created(new, old) \cup Changed(new, old)
              \/ y[1] \in Managed /\ (y = Root \/ \/ \E c \in DOMAIN new : new[c].up = y /\ g[c]
                                                \/ \E c \in Deleted(new, old) : old[c].up = y))
      BY Zenon, <3>1 DEF DirtyIn
    <3> DEFINE a == y \in d
               b == \/ y \in Created(new, old) \cup Changed(new, old)
                    \/ y[1] \in Managed /\ (y = Root \/ \/ \E c \in DOMAIN new : new[c].up = y /\ g[c]
                                                      \/ \E c \in Deleted(new, old) : old[c].up = y)
    <3>4. a \in BOOLEAN /\ b \in BOOLEAN
      <4>1. a \in BOOLEAN
        BY SMT
      <4>2. b \in BOOLEAN
        <5> HIDE DEF Created, Changed, Deleted
        <5> QED BY SMT
      <4> QED BY <4>1, <4>2
    <3>5. a <=> b
      BY Zenon, <3>2, <3>3
    <3> HIDE DEF a, b
    <3>6. a = b
      BY SMT, <3>4, <3>5
    <3> QED BY Zenon, <3>6 DEF a, b
  <2> QED BY Zenon, <2>1
<1> DEFINE f == CHOOSE h : Is(h)
<1>3. Is(f)
  <2> HIDE DEF Is, g
  <2> QED BY Zenon, <1>2
<1>4. \A y : Dirty(new, old, y) = f[y]
  BY Zenon DEF Dirty
<1> HIDE DEF f
<1>5. Dirty(new, old, x) = (\/ x \in Created(new, old) \cup Changed(new, old)
                            \/ x[1] \in Managed /\ (x = Root \/ \/ \E c \in DOMAIN new : new[c].up = x /\ f[c]
                                                 \/ \E c \in Deleted(new, old) : old[c].up = x))
  BY ZenonT(60), <1>3, <1>4
<1> QED BY Zenon, <1>4, <1>5 DEF DirtyIn

----------------------------------------------------------------------------
(* What becomes of each row                                                *)

Deep == request.op = "UPDATE" /\ HasDeep
Idle == Deep /\ Root \notin DOMAIN before  \* `return 0` in onDeep
ToUpdate == IF request.op # "UPDATE" THEN {}
            ELSE IF ~HasDeep THEN {Root} ELSE Updated(Payload, before)
ToInsert == IF request.op = "DELETE" \/ (request.op = "UPDATE" /\ ~HasDeep) \/ Idle THEN {}
            ELSE Created(Payload, before)
Gone == UNION {Affected(s, start) : s \in Planned}

\* The document that was read is the one of the root, as the others left it.
Rooted(rows) == RootOnTop(rows) /\ (Deep /\ Root \in DOMAIN rows => Root \in DOMAIN before)
Sound == HaveParents(start) /\ NoCircle(start) /\ ReadFrom(before, start) /\ Rooted(start)
ReadInv ==
    /\ ~Deep \/ Root \notin DOMAIN before => DOMAIN before = {}
    /\ phase = "begin" => RootOnTop(db) /\ DOMAIN before = {}
    /\ phase = "read" => Rooted(db)
    /\ phase \notin {"begin", "read"} => Sound

LEMMA SameChanges ==
    ASSUME UNCHANGED <<request, before, start>>
    PROVE  /\ (Deep' <=> Deep) /\ (Idle' <=> Idle) /\ ToUpdate' = ToUpdate /\ ToInsert' = ToInsert
           /\ Gone' = Gone /\ Planned' = Planned /\ Payload' = Payload
           /\ (Sound' <=> Sound) /\ (WithinDepth' <=> WithinDepth)
           /\ \A id : Written(id)' = Written(id)
<1>1. Payload' = Payload /\ Planned' = Planned /\ Created(Payload, before)' = Created(Payload, before)
  BY SameRequest
<1>2. (HasDeep' <=> HasDeep) /\ (WithinDepth' <=> WithinDepth)
  BY SameDepth DEF HasDeep
<1>3. Updated(Payload, before)' = Updated(Payload, before)
  BY <1>1
<1>4. (Deep' <=> Deep) /\ (Idle' <=> Idle)
  BY <1>2 DEF Deep, Idle
<1>5. ToUpdate' = ToUpdate /\ ToInsert' = ToInsert
  BY <1>1, <1>2, <1>3, <1>4 DEF ToUpdate, ToInsert
<1>6. Gone' = Gone
  BY <1>1 DEF Gone
<1>7. Sound' <=> Sound
  <2>1. Rooted(start)' <=> Rooted(start)
    BY <1>4 DEF Rooted
  <2> QED BY <2>1 DEF Sound
<1>8. \A id : Written(id)' = Written(id)
  BY <1>1 DEF Written
<1> QED BY <1>1, <1>2, <1>4, <1>5, <1>6, <1>7, <1>8

LEMMA ReadInit == Init => ReadInv
<1> SUFFICES ASSUME Init PROVE ReadInv
  OBVIOUS
<1>1. phase = "begin" /\ DOMAIN before = {} /\ RootOnTop(db)
  BY DeepAssumption DEF Init
<1> QED BY <1>1 DEF ReadInv

\* The SELECT finds the root, if it is there, and nothing without it.
LEMMA ReadRoot ==
    ASSUME NEW doc, NoCircle(doc), RootOnTop(doc), IsTable(doc)
    PROVE  /\ Root \in DOMAIN doc => Root \in DOMAIN Read(doc)
           /\ Root \notin DOMAIN Read(doc) => DOMAIN Read(doc) = {}
<1>1. DOMAIN Read(doc) = {id \in DOMAIN doc : /\ Chain(doc, id)[1] = Root
                                              /\ \A n \in 1 .. Len(Path(doc, id)) :
                                                   SubSeq(Path(doc, id), 1, n) \in Expanded(Payload)}
  BY DEF Read
<1>2. ASSUME Root \in DOMAIN doc PROVE Root \in DOMAIN Read(doc)
  <2>1. doc[Root].up \notin DOMAIN doc
    <3>1. doc[Root].up = None /\ None \notin DOMAIN doc
      BY <1>2, DeepAssumption DEF RootOnTop, IsTable
    <3> QED BY <3>1
  <2>2. Chain(doc, Root) = <<Root>>
    BY <1>2, <2>1, ChainIs
  <2>3. Path(doc, Root) = [i \in 1 .. 1 |-> "Root"]
    <3>1. DOMAIN Chain(doc, Root) = 1 .. 1 /\ Chain(doc, Root)[1] = Root
      BY <2>2
    <3>2. \A i \in 1 .. 1 : Chain(doc, Root)[i][1] = "Root"
      BY <3>1 DEF Root
    <3> QED BY <3>1, <3>2 DEF Path
  <2>4. Len(Path(doc, Root)) = 1 /\ SubSeq(Path(doc, Root), 1, 1) = <<"Root">>
    <3>1. [i \in 1 .. 1 |-> "Root"] = <<"Root">>
      OBVIOUS
    <3>2. Len(<<"Root">>) = 1 /\ SubSeq(<<"Root">>, 1, 1) = <<"Root">>
      <4>1. Len(<<"Root">>) = 1
        OBVIOUS
      <4>2. SubSeq(<<"Root">>, 1, 1) = [i \in 1 .. 1 |-> <<"Root">>[i]]
        BY DEF SubSeq
      <4>3. \A i \in 1 .. 1 : <<"Root">>[i] = "Root"
        OBVIOUS
      <4> QED BY <3>1, <4>1, <4>2, <4>3
    <3>3. Path(doc, Root) = <<"Root">>
      BY <2>3, <3>1
    <3> QED BY <3>2, <3>3
  <2>5. <<"Root">> \in Expanded(Payload)
    BY DEF Expanded
  <2>6. \A n \in 1 .. Len(Path(doc, Root)) : SubSeq(Path(doc, Root), 1, n) \in Expanded(Payload)
    <3>1. \A n \in 1 .. 1 : n = 1
      OBVIOUS
    <3> QED BY <2>4, <2>5, <3>1
  <2> QED BY <1>1, <1>2, <2>2, <2>6
<1>3. ASSUME NEW id \in DOMAIN Read(doc) PROVE Root \in DOMAIN doc
  <2>1. id \in DOMAIN doc /\ Chain(doc, id)[1] = Root
    BY <1>1
  <2>2. Chain(doc, id) \in Seq(DOMAIN doc) /\ Chain(doc, id) # <<>>
    BY <2>1, ChainIs, ChainEnds
  <2> QED BY <2>1, <2>2
<1> QED BY <1>2, <1>3

LEMMA ReadStep == TypeInv /\ StraysInv /\ OrphansInv /\ ReadInv /\ [Next]_vars => ReadInv'
<1> SUFFICES ASSUME TypeInv, StraysInv, OrphansInv, ReadInv, [Next]_vars PROVE ReadInv'
  OBVIOUS
<1>1. CASE OtherInserts
  <2>1. UNCHANGED <<request, phase, before, start>> /\ phase \in {"begin", "read"}
    BY <1>1 DEF OtherInserts
  <2>2. PICK row \in Others :
           db' = [id \in DOMAIN db \cup {row.id} |->
                     IF id = row.id
                     THEN [up |-> row.up, val |-> row.val, modified |-> FALSE]
                     ELSE db[id]]
    BY <1>1 DEF OtherInserts
  <2>3. row.id # Root
    BY DeepAssumption
  <2>4. (Root \in DOMAIN db' <=> Root \in DOMAIN db) /\ (Root \in DOMAIN db => db'[Root] = db[Root])
    BY <2>2, <2>3
  <2>5. RootOnTop(db) => RootOnTop(db')
    BY <2>4 DEF RootOnTop
  <2>6. /\ Deep' <=> Deep
        /\ RootOnTop(db)' <=> RootOnTop(db')
    BY <2>1, SameChanges DEF RootOnTop
  <2>7. Rooted(db) => Rooted(db)'
    BY <2>1, <2>4, <2>5, <2>6 DEF Rooted
  <2> QED BY <2>1, <2>5, <2>6, <2>7 DEF ReadInv
<1>2. CASE ReadBefore
  <2>1. /\ phase = "begin" /\ phase' = "read" /\ UNCHANGED <<request, start, db>>
        /\ before' = IF Deep THEN Read(db) ELSE <<>>
    BY <1>2 DEF ReadBefore, Deep
  <2>2. HaveParents(db) /\ NoCircle(db) /\ IsTable(db) /\ RootOnTop(db)
    BY <2>1 DEF OrphansInv, RowsInv, TypeInv, TypeOK, ReadInv
  <2>3. Deep' <=> Deep
    BY <2>1 DEF Deep, HasDeep
  <2>4. ~Deep \/ Root \notin DOMAIN before' => DOMAIN before' = {}
    BY <2>1, <2>2, ReadRoot
  <2>5. Deep /\ Root \in DOMAIN db => Root \in DOMAIN before'
    BY <2>1, <2>2, ReadRoot
  <2>6. RootOnTop(db)'
    BY <2>1, <2>2
  <2> QED BY <2>1, <2>3, <2>4, <2>5, <2>6 DEF ReadInv, Rooted
<1>3. CASE StartDeletes
  <2>1. phase = "read" /\ phase' \in {"delete", "insert"} /\ UNCHANGED <<request, before, db>> /\ start' = db
    BY <1>3 DEF StartDeletes
  <2>2. HaveParents(db) /\ NoCircle(db) /\ ReadFrom(before, db) /\ Rooted(db)
    BY <2>1 DEF OrphansInv, RowsInv, ReadInv
  <2>3. Deep' <=> Deep
    BY <2>1 DEF Deep, HasDeep
  <2>4. RootOnTop(start)' /\ HaveParents(start)' /\ NoCircle(start)' /\ ReadFrom(before, start)'
    BY <2>1, <2>2 DEF Rooted
  <2>5. Sound'
    BY <2>1, <2>2, <2>3, <2>4 DEF Sound, Rooted
  <2> QED BY <2>1, <2>3, <2>5 DEF ReadInv
<1>4. CASE UNCHANGED <<request, before, start>> /\ phase \notin {"begin", "read"} /\ phase' \notin {"begin", "read"}
  BY <1>4, SameChanges DEF ReadInv
<1>5. CASE UNCHANGED vars
  <2>1. UNCHANGED <<request, phase, before, start, db>>
    BY <1>5 DEF vars
  <2>2. RootOnTop(db)' <=> RootOnTop(db)
    BY <2>1 DEF RootOnTop
  <2>3. Rooted(db)' <=> Rooted(db)
    BY <2>1, <2>2, SameChanges DEF Rooted
  <2> QED BY <2>1, <2>2, <2>3, SameChanges DEF ReadInv
<1>6. CASE StartUpdates \/ StartInserts \/ Commit \/ Rollback \/ Release
  <2>1. UNCHANGED <<request, before, start>> /\ phase \notin {"begin", "read"} /\ phase' \notin {"begin", "read"}
    BY <1>6 DEF StartUpdates, StartInserts, Commit, Rollback, Release
  <2> QED BY <1>4, <2>1
<1>7. CASE Prepare \/ Run \/ RunFails
  <2>1. phase \notin {"begin", "read"} /\ UNCHANGED <<request, before, start>>
    BY <1>7 DEF Prepare, Run, RunFails, StraysInv
  <2>2. phase' \in {phase, "failed"}
    BY <1>7 DEF Prepare, Run, RunFails
  <2> QED BY <1>4, <2>1, <2>2
<1> QED BY <1>1, <1>2, <1>3, <1>5, <1>6, <1>7 DEF Next

\* Each entry to be created has its INSERT, and the INSERTs are for no others.
LEMMA InsertsAre ==
    ASSUME NEW ids \in SUBSET Ids
    PROVE  /\ \A s \in Inserts(ids) : s.ids \subseteq ids
           /\ \A id \in ids : \E s \in NonEmpty(Inserts(ids)) : id \in s.ids
<1>1. ASSUME NEW s \in Inserts(ids) PROVE s.ids \subseteq ids
  BY DEF Inserts, Statement
<1>2. ASSUME NEW id \in ids PROVE \E s \in Inserts(ids) : id \in s.ids
  <2>1. id[1] \in Entities
    BY DEF Ids
  <2>2. CASE id = Root
    <3>1. id \in Statement("insert", <<"Root">>, ids \cap {Root}).ids
      BY <2>2 DEF Statement
    <3> QED BY <3>1 DEF Inserts
  <2>3. CASE id # Root
    <3>1. id \in Statement("insert", <<id[1]>>, {x \in ids \ {Root} : x[1] = id[1]}).ids
      BY <2>3 DEF Statement
    <3> QED BY <2>1, <3>1 DEF Inserts
  <2> QED BY <2>2, <2>3
<1> QED BY <1>1, <1>2 DEF NonEmpty

Revised(id) == [Written(id) EXCEPT !.up = start[id].up]
Pending(id) == \E s \in todo \cup sent : id \in s.ids
AsUpdated(id) == id \in DOMAIN start /\ db[id] = IF id \in ToUpdate THEN Revised(id) ELSE start[id]
AsInserted(id) == id \in ToInsert /\ db[id] = Written(id) /\ (id \in DOMAIN start => id \in Gone)
Only(ids) == \A s \in todo \cup sent : s.ids \subseteq ids
Rest == DOMAIN start \ DOMAIN db \subseteq Gone
Settled ==
    \A id \in DOMAIN db : (AsUpdated(id) /\ (WithinDepth => id \notin Gone)) \/ AsInserted(id)

\* What has become of each row: in the first round rows go that a DELETE of the
\* request finds in `start`; when it is over all of these have gone.  Then rows
\* are as they were until they have been updated, and others come.
ChangesInv ==
    /\ phase = "delete" =>
          /\ Part(db, start) /\ Rest /\ ~Idle
          /\ \A s \in Planned : s \in todo \cup sent \/ Affected(s, db) = {}
    /\ phase = "update" =>
          /\ DOMAIN db \subseteq DOMAIN start /\ Rest /\ ~Idle
          /\ WithinDepth => DOMAIN db \cap Gone = {}
          /\ Only(ToUpdate)
          /\ \A id \in DOMAIN db : AsUpdated(id) \/ (id \in ToUpdate /\ Pending(id) /\ db[id] = start[id])
    /\ phase = "insert" =>
          /\ Rest /\ Only(ToInsert) /\ Settled
          /\ \A id \in ToInsert : (id \in DOMAIN db /\ AsInserted(id)) \/ Pending(id)
    /\ phase = "committed" =>
          /\ Rest /\ committed = db /\ Settled
          /\ \A id \in ToInsert : id \in DOMAIN db /\ AsInserted(id)

LEMMA StartDeletesChanges ==
    ASSUME TypeInv, StraysInv, OrphansInv, ReadInv, ReadInv', StartDeletes PROVE ChangesInv'
<1>1. /\ phase = "read" /\ UNCHANGED <<request, before, sent, db>> /\ start' = db
      /\ todo' \cup sent' = todo'
  BY DEF StartDeletes, StraysInv
<1>2. /\ (Deep' <=> Deep) /\ (Idle' <=> Idle)
  BY <1>1 DEF Deep, HasDeep, Idle
<1>3. Planned' = Planned /\ Payload' = Payload
  BY <1>1, SameRequest
<1>4. Rest'
  BY <1>1 DEF Rest
<1>5. CASE phase' = "delete" /\ todo' = Planned /\ ~Idle
  <2>1. Part(db, start)'
    BY <1>1 DEF Part
  <2> QED BY <1>1, <1>2, <1>3, <1>4, <1>5, <2>1 DEF ChangesInv
<1>6. CASE phase' = "insert" /\ todo' = {} /\ Idle
  <2>1. DOMAIN before = {} /\ request.op = "UPDATE" /\ HasDeep
    BY <1>6 DEF ReadInv, Idle, Deep
  <2>2. ToInsert' = {}
    BY <1>2, <1>6 DEF ToInsert
  <2>3. Deleted(Payload, before) = {} /\ Matched(Payload, before) = {}
    BY <2>1 DEF Deleted, Matched
  <2>4. Planned = {}
    BY <2>1, <2>3 DEF Planned, Deletes
  <2>5. Gone' = {}
    BY <1>3, <2>4 DEF Gone
  <2>6. ToUpdate' = {}
    <3>1. request' = request /\ (HasDeep' <=> HasDeep)
      BY <1>1 DEF HasDeep
    <3>2. Updated(Payload, before) = {}
      BY <2>3 DEF Updated
    <3>3. Updated(Payload, before)' = {}
      BY <1>1, <1>3, <3>2
    <3> QED BY <2>1, <3>1, <3>3 DEF ToUpdate
  <2>7. Settled'
    <3> SUFFICES ASSUME NEW id \in DOMAIN db' PROVE AsUpdated(id)' /\ id \notin Gone'
      BY DEF Settled
    <3> QED BY <1>1, <2>5, <2>6 DEF AsUpdated
  <2>8. Only(ToInsert)'
    BY <1>1, <1>6 DEF Only
  <2> QED BY <1>4, <1>6, <2>2, <2>7, <2>8 DEF ChangesInv
<1> QED BY <1>5, <1>6 DEF StartDeletes, Idle, Deep, Planned

LEMMA StartUpdatesChanges ==
    ASSUME TypeInv, StraysInv, OrphansInv, ReadInv, ChangesInv, StartUpdates PROVE ChangesInv'
<1>1. /\ phase = "delete" /\ phase' = "update" /\ UNCHANGED <<request, before, start, sent, db>>
      /\ todo \cup sent = {} /\ todo' \cup sent' = todo'
  BY DEF StartUpdates
<1>2. /\ (Idle' <=> Idle) /\ ToUpdate' = ToUpdate /\ Gone' = Gone /\ (WithinDepth' <=> WithinDepth)
  BY <1>1, SameChanges
<1>3. Part(db, start) /\ Rest /\ ~Idle /\ \A s \in Planned : Affected(s, db) = {}
  BY <1>1 DEF ChangesInv
<1>4. Rest'
  BY <1>1, <1>2, <1>3 DEF Rest
<1>5. ASSUME WithinDepth PROVE DOMAIN db \cap Gone = {}
  <2>1. HaveParents(db) /\ IsTable(start)
    BY <1>1, <1>5 DEF OrphansInv, RowsInv, Whole, TypeInv, TypeOK
  <2>2. ASSUME NEW s \in Planned PROVE Affected(s, start) \cap DOMAIN db = {}
    <3>1. s \in Statements
      BY PlannedType DEF TypeInv
    <3> QED BY <1>3, <2>1, <3>1, AffectedStays
  <2> QED BY <2>2 DEF Gone
<1>6. todo' = IF request.op # "UPDATE" THEN {} ELSE Updates(ToUpdate)
  BY DEF StartUpdates, ToUpdate
<1>7. Only(ToUpdate)'
  BY <1>1, <1>2, <1>6 DEF Only, Updates, Statement
<1>8. ASSUME NEW id \in DOMAIN db
      PROVE  AsUpdated(id)' \/ (id \in ToUpdate /\ Pending(id)' /\ db[id] = start[id])
  <2>1. id \in DOMAIN start /\ db[id] = start[id]
    BY <1>3 DEF Part
  <2>2. CASE id \in ToUpdate
    <3>1. Statement("update", <<id[1]>>, {id}) \in todo'
      BY <1>6, <2>2 DEF Updates, ToUpdate
    <3>2. id \in Statement("update", <<id[1]>>, {id}).ids
      BY DEF Statement
    <3> QED BY <2>1, <2>2, <3>1, <3>2 DEF Pending
  <2>3. CASE id \notin ToUpdate
    BY <1>1, <1>2, <2>1, <2>3 DEF AsUpdated
  <2> QED BY <2>2, <2>3
<1>9. DOMAIN db \subseteq DOMAIN start
  BY <1>3 DEF Part
<1> QED BY <1>1, <1>2, <1>3, <1>4, <1>5, <1>7, <1>8, <1>9 DEF ChangesInv

LEMMA StartInsertsChanges ==
    ASSUME TypeInv, StraysInv, OrphansInv, ReadInv, ChangesInv, StartInserts PROVE ChangesInv'
<1>1. /\ phase = "update" /\ phase' = "insert" /\ UNCHANGED <<request, before, start, sent, db>>
      /\ todo \cup sent = {} /\ todo' \cup sent' = todo'
  BY DEF StartInserts
<1>2. /\ ToUpdate' = ToUpdate /\ ToInsert' = ToInsert /\ Gone' = Gone /\ (WithinDepth' <=> WithinDepth)
      /\ \A id : Written(id)' = Written(id)
  BY <1>1, SameChanges
<1>3. Rest
  BY <1>1 DEF ChangesInv
<1>4. Rest'
  BY <1>1, <1>2, <1>3 DEF Rest
<1>5. Settled'
  <2>1. \A id : AsUpdated(id)' <=> AsUpdated(id)
    BY <1>1, <1>2 DEF AsUpdated, Revised
  <2>2. \A id \in DOMAIN db : AsUpdated(id) /\ (WithinDepth => id \notin Gone)
    BY <1>1 DEF ChangesInv, Pending
  <2> QED BY <1>1, <1>2, <2>1, <2>2 DEF Settled
<1>6. ToInsert \subseteq Ids /\ todo' = NonEmpty(Inserts(ToInsert))
  <2>1. ~Idle
    BY <1>1 DEF ChangesInv
  <2>2. Created(Payload, before) \subseteq Ids
    BY PayloadType DEF Created, TypeInv, TypeOK
  <2>3. NonEmpty(Inserts({})) = {}
    BY DEF NonEmpty, Inserts, Statement
  <2> QED BY <2>1, <2>2, <2>3 DEF StartInserts, ToInsert
<1>7. Only(ToInsert)'
  <2>1. \A s \in todo' : s.ids \subseteq ToInsert
    BY <1>6, InsertsAre DEF NonEmpty
  <2> QED BY <1>1, <1>2, <2>1 DEF Only
<1>8. \A id \in ToInsert : Pending(id)'
  BY <1>1, <1>6, InsertsAre DEF Pending
<1> QED BY <1>1, <1>2, <1>4, <1>5, <1>7, <1>8 DEF ChangesInv

LEMMA RunChanges ==
    ASSUME TypeInv, StraysInv, OrphansInv, ReadInv, ChangesInv, Run PROVE ChangesInv'
<1>1. PICK s \in sent : Clashes(s, db) = {} /\ db' = Effect(s, db) /\ sent' = sent \ {s}
  BY DEF Run
<1>2. UNCHANGED <<request, phase, before, start, todo>>
  BY DEF Run
<1>3. /\ ToUpdate' = ToUpdate /\ ToInsert' = ToInsert /\ Gone' = Gone /\ Planned' = Planned
      /\ (WithinDepth' <=> WithinDepth) /\ (Idle' <=> Idle) /\ \A id : Written(id)' = Written(id)
  BY <1>2, SameChanges
<1>4. phase # "committed"
  BY DEF OrphansInv, RowsInv
<1>5. s \in Statements
  BY DEF TypeInv, TypeOK
<1>6. ASSUME NEW id \in DOMAIN db, db'[id] = db[id]
      PROVE  (AsUpdated(id) => AsUpdated(id)') /\ (AsInserted(id) => AsInserted(id)')
  BY <1>2, <1>3, <1>6 DEF AsUpdated, AsInserted, Revised
<1>7. ASSUME NEW id, Pending(id), id \notin s.ids PROVE Pending(id)'
  BY <1>1, <1>2, <1>7 DEF Pending
<1>8. CASE phase = "delete"
  <2>1. s.kind = "delete" /\ s \in Planned
    BY <1>8 DEF StraysInv, OrphansInv, DeleteInv
  <2>2. Part(db, start) /\ Rest /\ ~Idle
    BY <1>8 DEF ChangesInv
  <2>3. db' = [id \in DOMAIN db \ Affected(s, db) |-> db[id]]
    BY <1>1, <2>1 DEF Effect, Without
  <2>4. Part(db', db) /\ Part(db', start)
    BY <2>2, <2>3 DEF Part
  <2>5. Part(db, start)'
    BY <1>2, <2>4
  <2>6. Rest'
    <3>1. Affected(s, db) \subseteq Affected(s, start)
      BY <1>5, <2>2, AffectedInPart
    <3>2. Affected(s, start) \subseteq Gone
      BY <2>1 DEF Gone
    <3>3. DOMAIN db' = DOMAIN db \ Affected(s, db)
      BY <2>3
    <3> QED BY <1>2, <1>3, <2>2, <3>1, <3>2, <3>3 DEF Rest
  <2>7. ASSUME NEW t \in Planned PROVE t \in todo' \cup sent' \/ Affected(t, db') = {}
    <3>1. t \in Statements
      BY PlannedType DEF TypeInv
    <3>2. Affected(t, db') \subseteq Affected(t, db)
      BY <2>4, <3>1, AffectedInPart
    <3>3. CASE t = s
      <4>1. Affected(t, db') \subseteq DOMAIN db'
        <5>1. PICK f \in [1 .. Len(t.path) -> SUBSET DOMAIN db'] : Affected(t, db') = f[Len(t.path)]
          BY <3>1, LevelsExist
        <5>2. Len(t.path) \in 1 .. Len(t.path)
          BY <3>1 DEF Statements
        <5> QED BY <5>1, <5>2
      <4> QED BY <2>3, <3>2, <3>3, <4>1
    <3>4. CASE t # s
      BY <1>1, <1>2, <1>8, <3>2, <3>4 DEF ChangesInv
    <3> QED BY <3>3, <3>4
  <2> QED BY <1>2, <1>3, <1>8, <2>2, <2>5, <2>6, <2>7 DEF ChangesInv
<1>9. CASE phase = "update"
  <2>1. s.kind = "update" /\ s.ids \subseteq ToUpdate
    BY <1>9 DEF StraysInv, ChangesInv, Only
  <2>2. db' = [id \in DOMAIN db |-> IF id \in s.ids THEN [Written(id) EXCEPT !.up = db[id].up]
                                    ELSE db[id]]
    BY <1>1, <2>1 DEF Effect
  <2>3. DOMAIN db' = DOMAIN db
    BY <2>2
  <2>4. Rest' /\ Only(ToUpdate)'
    BY <1>1, <1>2, <1>3, <1>9, <2>3 DEF ChangesInv, Rest, Only
  <2>5. ASSUME NEW id \in DOMAIN db
        PROVE  AsUpdated(id)' \/ (id \in ToUpdate /\ Pending(id)' /\ db'[id] = start[id])
    <3>1. AsUpdated(id) \/ (id \in ToUpdate /\ Pending(id) /\ db[id] = start[id])
      BY <1>9 DEF ChangesInv
    <3>2. CASE id \in s.ids
      <4>1. db[id].up = start[id].up
        BY <3>1 DEF AsUpdated, Revised, Written
      <4>2. db'[id] = Revised(id)
        BY <2>2, <3>2, <4>1 DEF Revised
      <4>3. id \in DOMAIN start /\ id \in ToUpdate
        BY <1>9, <2>1, <3>2 DEF ChangesInv
      <4> QED BY <1>2, <1>3, <4>2, <4>3 DEF AsUpdated, Revised
    <3>3. CASE id \notin s.ids
      <4>1. db'[id] = db[id]
        BY <2>2, <3>3
      <4> QED BY <1>6, <1>7, <3>1, <3>3, <4>1
    <3> QED BY <3>2, <3>3
  <2>6. /\ DOMAIN db' \subseteq DOMAIN start /\ ~Idle /\ (WithinDepth => DOMAIN db' \cap Gone = {})
    BY <1>9, <2>3 DEF ChangesInv
  <2> QED BY <1>2, <1>3, <1>9, <2>3, <2>4, <2>5, <2>6 DEF ChangesInv
<1>10. CASE phase = "insert"
  <2>1. s.kind = "insert" /\ s.ids \subseteq ToInsert
    BY <1>10 DEF StraysInv, ChangesInv, Only
  <2>2. db' = [id \in DOMAIN db \cup s.ids |-> IF id \in s.ids THEN Written(id) ELSE db[id]]
    BY <1>1, <2>1 DEF Effect
  <2>3. s.ids \cap DOMAIN db = {}
    BY <1>1, <2>1 DEF Clashes
  <2>4. Rest /\ Settled /\ Only(ToInsert)
    BY <1>10 DEF ChangesInv
  <2>5. ASSUME NEW id \in s.ids PROVE id \in DOMAIN db' /\ AsInserted(id)'
    <3>1. id \in ToInsert /\ db'[id] = Written(id) /\ id \in DOMAIN db'
      BY <2>1, <2>2
    <3>2. id \in DOMAIN start => id \in Gone
      BY <2>3, <2>4 DEF Rest
    <3> QED BY <1>2, <1>3, <3>1, <3>2 DEF AsInserted
  <2>6. \A id \in DOMAIN db : id \in DOMAIN db' /\ db'[id] = db[id]
    BY <2>2, <2>3
  <2>7. DOMAIN db' = DOMAIN db \cup s.ids
    BY <2>2
  <2>8. Rest' /\ Only(ToInsert)'
    BY <1>1, <1>2, <1>3, <2>4, <2>7 DEF Rest, Only
  <2>9. Settled'
    <3> SUFFICES ASSUME NEW id \in DOMAIN db'
                 PROVE  (AsUpdated(id)' /\ (WithinDepth => id \notin Gone)) \/ AsInserted(id)'
      BY <1>3 DEF Settled
    <3>1. CASE id \in s.ids
      BY <2>5, <3>1
    <3>2. CASE id \in DOMAIN db
      BY <1>6, <2>4, <2>6, <3>2 DEF Settled
    <3> QED BY <2>7, <3>1, <3>2
  <2>10. ASSUME NEW id \in ToInsert PROVE (id \in DOMAIN db' /\ AsInserted(id)') \/ Pending(id)'
    <3>1. (id \in DOMAIN db /\ AsInserted(id)) \/ Pending(id)
      BY <1>10 DEF ChangesInv
    <3> QED BY <1>6, <1>7, <2>5, <2>6, <3>1
  <2> QED BY <1>2, <1>3, <1>10, <2>8, <2>9, <2>10 DEF ChangesInv
<1> QED BY <1>2, <1>4, <1>8, <1>9, <1>10 DEF ChangesInv

LEMMA ChangesStep ==
    TypeInv /\ StraysInv /\ OrphansInv /\ ReadInv /\ ReadInv' /\ ChangesInv /\ [Next]_vars => ChangesInv'
<1> SUFFICES ASSUME TypeInv, StraysInv, OrphansInv, ReadInv, ReadInv', ChangesInv, [Next]_vars
             PROVE  ChangesInv'
  OBVIOUS
<1>1. CASE OtherInserts \/ ReadBefore \/ RunFails \/ Rollback \/ Release
  <2>1. CASE OtherInserts \/ ReadBefore
    BY <2>1 DEF OtherInserts, ReadBefore, ChangesInv
  <2>2. CASE RunFails
    <3>1. phase # "committed"
      BY <2>2 DEF RunFails, OrphansInv, RowsInv
    <3>2. phase' = "failed" \/ (phase' = phase /\ phase \notin {"delete", "update", "insert"})
      BY <2>2 DEF RunFails
    <3> QED BY <3>1, <3>2 DEF ChangesInv
  <2>3. CASE Rollback \/ Release
    BY <2>3 DEF Rollback, Release, ChangesInv
  <2> QED BY <1>1, <2>1, <2>2, <2>3
<1>2. CASE Prepare \/ UNCHANGED vars
  <2>1. /\ UNCHANGED <<request, phase, before, start, db, committed>>
        /\ todo' \cup sent' = todo \cup sent
    BY <1>2 DEF Prepare, vars
  <2>2. /\ ToUpdate' = ToUpdate /\ ToInsert' = ToInsert /\ Gone' = Gone /\ Planned' = Planned
        /\ (WithinDepth' <=> WithinDepth) /\ (Idle' <=> Idle) /\ \A id : Written(id)' = Written(id)
    BY <2>1, SameChanges
  <2>3. /\ \A id : (AsUpdated(id)' <=> AsUpdated(id)) /\ (AsInserted(id)' <=> AsInserted(id))
        /\ \A id : Pending(id)' <=> Pending(id)
    BY <2>1, <2>2 DEF AsUpdated, AsInserted, Revised, Pending
  <2>4. /\ (Rest' <=> Rest) /\ (Settled' <=> Settled) /\ (Part(db, start)' <=> Part(db, start))
        /\ (Only(ToUpdate)' <=> Only(ToUpdate)) /\ (Only(ToInsert)' <=> Only(ToInsert))
    BY <2>1, <2>2, <2>3 DEF Rest, Settled, Part, Only
  <2> QED BY <2>1, <2>2, <2>3, <2>4 DEF ChangesInv
<1>3. CASE Commit
  <2>1. /\ phase = "insert" /\ phase' = "committed" /\ committed' = db /\ todo \cup sent = {}
        /\ UNCHANGED <<request, before, start, db>>
    BY <1>3 DEF Commit
  <2>2. /\ ToUpdate' = ToUpdate /\ ToInsert' = ToInsert /\ Gone' = Gone
        /\ (WithinDepth' <=> WithinDepth) /\ \A id : Written(id)' = Written(id)
    BY <2>1, SameChanges
  <2>3. \A id : (AsUpdated(id)' <=> AsUpdated(id)) /\ (AsInserted(id)' <=> AsInserted(id))
    BY <2>1, <2>2 DEF AsUpdated, AsInserted, Revised
  <2>4. Rest' /\ Settled'
    BY <2>1, <2>2, <2>3 DEF ChangesInv, Rest, Settled
  <2>5. \A id \in ToInsert : id \in DOMAIN db /\ AsInserted(id)
    BY <2>1 DEF ChangesInv, Pending
  <2> QED BY <2>1, <2>2, <2>3, <2>4, <2>5 DEF ChangesInv
<1> QED BY <1>1, <1>2, <1>3, StartDeletesChanges, StartUpdatesChanges, StartInsertsChanges, RunChanges DEF Next

----------------------------------------------------------------------------
(* What is modified                                                        *)

\* The ids that the DELETEs of the request are for.
Dropped == IF request.op = "DELETE" THEN {Root}
           ELSE IF HasDeep THEN Deleted(Payload, before) ELSE {}

LEMMA PlannedIs == Planned = Deletes(Dropped)
<1>1. Deletes({}) = {}
  BY DEF Deletes
<1> QED BY <1>1 DEF Planned, Dropped

LEMMA DroppedType == ASSUME TypeOK PROVE Dropped \subseteq Ids
<1>1. Root \in Ids
  BY DeepAssumption DEF Ids, Root
<1> QED BY <1>1, DifferenceType DEF Dropped, TypeOK

\* What the DELETEs found was below an id they were for.
LEMMA GoneBelow ==
    ASSUME TypeOK, Sound, NEW y \in Gone
    PROVE  y \in DOMAIN start /\ \E x \in Dropped : x \in ToSet(Chain(start, y))
<1>1. PICK s \in Planned : y \in Affected(s, start)
  BY DEF Gone
<1>2. s \in Statements /\ s.ids \subseteq Dropped
  BY PlannedType, PlannedIs, DroppedType, DeletesAre
<1> QED BY <1>1, <1>2, AffectedChain DEF Sound

\* What compareJson matches is below nothing that is deleted.
LEMMA MatchedNotBelow ==
    ASSUME TypeInv, Sound, request.op # "DELETE", NEW x \in Matched(Payload, before)
    PROVE  /\ Chain(before, x) = Chain(start, x)
           /\ ToSet(Chain(start, x)) \cap Dropped = {}
<1>1. NoCircle(Payload) /\ NoCircle(before) /\ request \in Requests
  BY PayloadIsForest, PartNoCircle DEF Sound, ReadFrom, TypeInv, TypeOK
<1>2. x \in DOMAIN before
  BY DEF Matched
<1>3. Chain(before, x) = Chain(start, x)
  BY <1>2, ReadChain DEF Sound
<1>4. ToSet(Chain(before, x)) \subseteq Matched(Payload, before)
  BY <1>1, MatchedAbove
<1>5. ASSUME NEW z \in Matched(Payload, before) PROVE z \notin Deleted(Payload, before)
  <2>1. ToSet(Chain(before, z)) \subseteq Matched(Payload, before)
    BY <1>1, MatchedAbove
  <2> QED BY <2>1 DEF Deleted
<1> QED BY <1>3, <1>4, <1>5 DEF Dropped

\* A child of an entry that stays is deleted for no other than itself.
LEMMA ChildGone ==
    ASSUME TypeInv, Sound, request.op # "DELETE", NEW x \in Matched(Payload, before),
           NEW c \in Gone, start[c].up = x
    PROVE  c \in Deleted(Payload, before) /\ before[c].up = x
<1>1. PICK y \in Dropped : y \in ToSet(Chain(start, c)) /\ c \in DOMAIN start
  BY GoneBelow DEF TypeInv
<1>2. x \in DOMAIN start
  BY DEF Matched, Sound, ReadFrom, Part
<1>3. ToSet(Chain(start, c)) = ToSet(Chain(start, x)) \cup {c}
  BY <1>1, <1>2, ChainEnds DEF Sound
<1>4. c \in Dropped
  BY <1>1, <1>3, MatchedNotBelow
<1>5. c \in Deleted(Payload, before)
  BY <1>4 DEF Dropped
<1>6. before[c] = start[c]
  BY <1>5 DEF Deleted, Sound, ReadFrom, Part
<1> QED BY <1>5, <1>6

\* A child whose value was updated is in the data below the same entry.
LEMMA ChildChanged ==
    ASSUME TypeInv, Sound, NEW c \in Updated(Payload, before),
           start[c].up \in DOMAIN before, Payload[c].val # start[c].val
    PROVE  /\ c \in DOMAIN Payload /\ Payload[c].up = start[c].up
           /\ Dirty(Payload, before, c)
<1>1. NoCircle(Payload) /\ NoCircle(before) /\ request \in Requests
  BY PayloadIsForest, PartNoCircle DEF Sound, ReadFrom, TypeInv, TypeOK
<1>2. c \in Matched(Payload, before) /\ c \in DOMAIN Payload /\ Dirty(Payload, before, c)
  BY DEF Updated, Matched
<1>3. before[c] = start[c]
  BY <1>2 DEF Matched, Sound, ReadFrom, Part
<1> QED BY <1>1, <1>2, <1>3, MatchedUp

LEMMA NothingWhenIdle ==
    ASSUME TypeInv, ReadInv, ChangesInv, phase = "committed", Idle
    PROVE  committed = db /\ DOMAIN db = DOMAIN start /\ \A id \in DOMAIN db : db[id] = start[id]
<1>1. DOMAIN before = {} /\ request.op = "UPDATE" /\ HasDeep
  BY DEF ReadInv, Idle, Deep
<1>2. Dropped = {} /\ Updated(Payload, before) = {}
  BY <1>1 DEF Dropped, Deleted, Updated, Matched
<1>3. ToInsert = {} /\ ToUpdate = {}
  BY <1>1, <1>2 DEF ToInsert, ToUpdate
<1>4. Gone = {}
  BY <1>2, PlannedIs DEF Deletes, Gone
<1>5. Rest /\ Settled /\ committed = db
  BY DEF ChangesInv
<1> QED BY <1>3, <1>4, <1>5 DEF Rest, Settled, AsUpdated, AsInserted

\* A row of the data is modified if any row right below it came, went or has
\* another value.
LEMMA ModifiedIs == TypeInv /\ ReadInv /\ ChangesInv => ModifiedTellsTrue
<1> DEFINE below(id, rows) == {<<c, rows[c].val>> : c \in {c \in DOMAIN rows : rows[c].up = id}}
<1> SUFFICES ASSUME TypeInv, ReadInv, ChangesInv, phase = "committed", request.op = "UPDATE", HasDeep,
                    NEW id \in DOMAIN committed \cap DOMAIN Payload \cap DOMAIN start,
                    id[1] \in Managed, below(id, start) # below(id, committed)
             PROVE  committed[id].modified
  BY Zenon DEF ModifiedTellsTrue
<1>1. /\ committed = db /\ Rest /\ Settled /\ Sound
      /\ \A x \in ToInsert : x \in DOMAIN db /\ AsInserted(x)
  BY DEF ChangesInv, ReadInv
<1>2. ~Idle
  <2> SUFFICES ASSUME Idle PROVE FALSE
    OBVIOUS
  <2>1. DOMAIN db = DOMAIN start /\ \A x \in DOMAIN db : db[x] = start[x]
    BY NothingWhenIdle
  <2>2. below(id, db) = below(id, start)
    BY <2>1
  <2> QED BY <1>1, <2>2
<1>3. ToInsert = Created(Payload, before) /\ ToUpdate = Updated(Payload, before)
  BY <1>2 DEF ToInsert, ToUpdate
<1>4. CASE id \in ToInsert
  <2>1. db[id] = Written(id)
    BY <1>1, <1>4 DEF AsInserted
  <2> QED BY <1>1, <2>1 DEF Written
<1>5. CASE id \in ToUpdate /\ id \notin ToInsert
  BY <1>1, <1>5 DEF Settled, AsInserted, AsUpdated, Revised, Written
<1>6. CASE id \notin ToUpdate /\ id \notin ToInsert
  <2>1. id \in Matched(Payload, before) /\ id \in DOMAIN before
    BY <1>3, <1>6 DEF Created, Matched
  <2>2. ~Dirty(Payload, before, id)
    BY <1>3, <1>6, <2>1 DEF Updated
  <2>3. NoDescent(Payload)
    BY PayloadEnds DEF TypeInv, TypeOK
  <2>4. ~DirtyIn(Payload, before, id, {c \in DOMAIN Payload : Dirty(Payload, before, c)})
    BY <2>2, <2>3, DirtyIs
  <2>5. /\ \A c \in DOMAIN Payload : Payload[c].up = id => ~Dirty(Payload, before, c)
        /\ \A c \in Deleted(Payload, before) : before[c].up # id
    BY <2>4 DEF DirtyIn
  <2>6. \A c \in Gone : start[c].up # id
    BY <1>1, <2>1, <2>5, ChildGone
  <2>7. \A c \in ToInsert : Payload[c].up # id
    <3> SUFFICES ASSUME NEW c \in Created(Payload, before), Payload[c].up = id PROVE FALSE
      BY <1>3
    <3>1. c \in DOMAIN Payload
      BY DEF Created
    <3>2. Dirty(Payload, before, c)
      BY <2>3, <3>1, DirtyIs DEF DirtyIn
    <3> QED BY <2>5, <3>1, <3>2
  <2>8. \A c \in ToUpdate : start[c].up = id => Payload[c].val = start[c].val
    BY <1>1, <1>3, <2>1, <2>5, ChildChanged
  <2>9. ASSUME NEW c \in DOMAIN db PROVE AsUpdated(c) \/ AsInserted(c)
    BY <1>1 DEF Settled
  <2>10. ASSUME NEW c \in DOMAIN start, start[c].up = id
         PROVE  c \in DOMAIN db /\ db[c].up = id /\ db[c].val = start[c].val
    <3>1. c \in DOMAIN db /\ AsUpdated(c)
      BY <1>1, <2>6, <2>9, <2>10 DEF Rest, AsInserted
    <3> QED BY <2>8, <2>10, <3>1 DEF AsUpdated, Revised, Written
  <2>11. ASSUME NEW c \in DOMAIN db, db[c].up = id
         PROVE  c \in DOMAIN start /\ start[c].up = id /\ db[c].val = start[c].val
    <3>1. ~AsInserted(c)
      BY <2>7, <2>11 DEF AsInserted, Written
    <3>2. c \in DOMAIN start /\ start[c].up = id
      BY <2>9, <2>11, <3>1 DEF AsUpdated, Revised, Written
    <3> QED BY <2>10, <3>2
  <2>12. below(id, start) = below(id, db)
    <3>1. below(id, start) \subseteq below(id, db)
      BY <2>10
    <3>2. below(id, db) \subseteq below(id, start)
      BY <2>11
    <3> QED BY <3>1, <3>2
  <2> QED BY <1>1, <2>12
<1> QED BY <1>4, <1>5, <1>6

LEMMA ChangesInit == Init => ChangesInv
BY DEF Init, ChangesInv

\* A row with @cds.on.update tells of each change of it or of an entry right
\* below it (_getDeepQueries), whatever the document.
THEOREM ModifiedIsTold == Spec => []ModifiedTellsTrue
<1>1. Init => StraysInv
  BY DEF Init, StraysInv, RollbackLeavesStrays
<1> QED BY <1>1, TypeInit, TypeStep, StraysStep, OrphansInit, OrphansStep, ReadInit, ReadStep,
           ChangesInit, ChangesStep, ModifiedIs, PTL DEF Spec

----------------------------------------------------------------------------
(* What is replaced                                                        *)

\* The parts of Meant.
Goes(a) ==
    LET p == start[a].up
    IN  /\ request.op = "DELETE" \/ a \in DOMAIN before
        /\ IF request.op = "DELETE" THEN a = Root
           ELSE /\ p \in DOMAIN Payload /\ p \in DOMAIN before
                /\ a[1] \in Payload[p].given
                /\ Chain(Payload, p) = Chain(start, p)
                /\ a \in DOMAIN Payload => Chain(Payload, a) # Chain(start, a)
Stays == {id \in DOMAIN start : ~\E i \in DOMAIN Chain(start, id) : Goes(Chain(start, id)[i])}
Applies == request.op = "INSERT" \/ (request.op = "UPDATE" /\ Root \in DOMAIN start)
Pair(row) == <<row.up, row.val>>

LEMMA MeantIs ==
    Meant(start) = [id \in IF Applies THEN Stays \cup DOMAIN Payload ELSE Stays |->
                       IF Applies /\ id \in DOMAIN Payload
                       THEN Pair(Payload[id]) ELSE Pair(start[id])]
BY Zenon DEF Meant, Stays, Goes, Applies, Pair

\* An id that goes, for itself, is one that Deleted calls dropped.
LEMMA GoesIs ==
    ASSUME TypeInv, Sound, request.op # "DELETE", NEW a \in DOMAIN start
    PROVE  Goes(a) <=> /\ a \in DOMAIN before \ Matched(Payload, before)
                       /\ before[a].up \in Matched(Payload, before)
                       /\ a[1] \in Payload[before[a].up].given
<1>1. ASSUME NEW x \in DOMAIN before PROVE before[x] = start[x] /\ Chain(before, x) = Chain(start, x)
  BY <1>1, ReadChain DEF Sound, ReadFrom, Part
<1> QED BY <1>1 DEF Goes, Matched

LEMMA DroppedIs ==
    ASSUME TypeInv, ReadInv, Sound, request.op # "DELETE"
    PROVE  Dropped = {x \in DOMAIN before : \E a \in ToSet(Chain(before, x)) : a \in DOMAIN start /\ Goes(a)}
<1>1. Dropped = Deleted(Payload, before)
  <2>1. CASE HasDeep
    BY <2>1 DEF Dropped
  <2>2. CASE ~HasDeep
    <3>1. DOMAIN before = {}
      BY <2>2 DEF ReadInv, Deep
    <3> QED BY <2>2, <3>1 DEF Dropped, Deleted
  <2> QED BY <2>1, <2>2
<1> DEFINE top == {a \in DOMAIN before \ Matched(Payload, before) :
                      /\ before[a].up \in Matched(Payload, before)
                      /\ a[1] \in Payload[before[a].up].given}
<1>2. Deleted(Payload, before) = {x \in DOMAIN before : ToSet(Chain(before, x)) \cap top # {}}
  BY Zenon DEF Deleted
<1>3. top \subseteq DOMAIN start /\ \A a \in DOMAIN start : Goes(a) <=> a \in top
  <2>1. DOMAIN before \subseteq DOMAIN start
    BY DEF Sound, ReadFrom, Part
  <2> QED BY <2>1, GoesIs
<1> HIDE DEF top
<1> QED BY <1>1, <1>2, <1>3

\* If deep_delete reaches all that is below, what the DELETEs found is what the
\* request means to go.
LEMMA GoneIs ==
    ASSUME TypeInv, ReadInv, Sound, WithinDepth, NEW id \in DOMAIN start
    PROVE  id \in Gone <=> \E a \in ToSet(Chain(start, id)) : Goes(a)
<1>1. ASSUME NEW x \in DOMAIN start, NEW a \in ToSet(Chain(start, x))
      PROVE  a \in DOMAIN start /\ ToSet(Chain(start, a)) \subseteq ToSet(Chain(start, x))
             /\ x \in ToSet(Chain(start, x))
  <2>1. x \in ToSet(Chain(start, x))
    BY ChainEnds DEF Sound
  <2> QED BY <1>1, <2>1, ChainAbove DEF Sound
<1>2. ASSUME NEW x \in DOMAIN before PROVE x \in DOMAIN start /\ Chain(before, x) = Chain(start, x)
  BY <1>2, ReadChain DEF Sound, ReadFrom, Part
<1>3. ASSUME NEW x \in Dropped, x \in ToSet(Chain(start, id))
      PROVE  \E a \in ToSet(Chain(start, id)) : Goes(a)
  <2>1. CASE request.op = "DELETE"
    BY <1>3, <2>1 DEF Dropped, Goes
  <2>2. CASE request.op # "DELETE"
    <3>1. PICK a \in ToSet(Chain(before, x)) : Goes(a) /\ x \in DOMAIN before
      BY <2>2, DroppedIs
    <3> QED BY <1>1, <1>2, <1>3, <3>1
  <2> QED BY <2>1, <2>2
<1>4. ASSUME NEW a \in DOMAIN start, Goes(a) PROVE a \in Dropped
  <2>1. CASE request.op = "DELETE"
    BY <1>4, <2>1 DEF Dropped, Goes
  <2>2. CASE request.op # "DELETE"
    <3>1. a \in DOMAIN before
      BY <1>4, <2>2 DEF Goes
    <3>2. a \in ToSet(Chain(before, a))
      <4>1. a \in ToSet(Chain(start, a))
        BY ChainEnds DEF Sound
      <4> QED BY <1>2, <3>1, <4>1
    <3> QED BY <1>4, <2>2, <3>1, <3>2, DroppedIs
  <2> QED BY <2>1, <2>2
<1>5. ASSUME NEW a \in ToSet(Chain(start, id)), Goes(a) PROVE id \in Gone
  <2>1. a \in DOMAIN start /\ a \in Dropped
    BY <1>1, <1>4, <1>5
  <2>2. IsTable(start) /\ NoCircle(start) /\ Dropped \subseteq Ids /\ Planned \subseteq Statements
    BY DroppedType, PlannedType DEF Sound, TypeInv, TypeOK
  <2>3. a \in Gone
    <3>1. PICK s \in Planned : s.path = <<a[1]>> /\ a \in s.ids
      BY <2>1, <2>2, DeletesAre, PlannedIs
    <3> QED BY <2>1, <2>2, <3>1, AffectedItself DEF Gone
  <2> DEFINE P == {y \in DOMAIN start : a \in ToSet(Chain(start, y)) => y \in Gone}
  <2>4. ASSUME NEW y \in DOMAIN start, start[y].up \in DOMAIN start => start[y].up \in P
        PROVE  y \in P
    <3> SUFFICES ASSUME a \in ToSet(Chain(start, y)), y # a PROVE y \in Gone
      BY <2>3
    <3>1. start[y].up \in DOMAIN start /\ a \in ToSet(Chain(start, start[y].up))
      BY <2>2, ChainEnds
    <3>2. start[y].up \in Gone
      BY <2>4, <3>1
    <3>3. PICK s \in Planned : start[y].up \in Affected(s, start)
      BY <3>2 DEF Gone
    <3> DEFINE t == Statement("delete", Append(s.path, y[1]), s.ids)
    <3>4. t \in Planned
      BY <3>3 DEF WithinDepth
    <3>5. y[1] \in Entities
      BY <2>2 DEF IsTable, Ids
    <3>6. y \in Affected(t, start)
      BY <2>2, <3>3, <3>5, AffectedBelow
    <3> HIDE DEF t
    <3> QED BY <3>4, <3>6 DEF Gone
  <2>5. P \in SUBSET DOMAIN start
    OBVIOUS
  <2> HIDE DEF P
  <2>6. P = DOMAIN start
    BY <2>2, <2>4, <2>5, Induction
  <2> QED BY <1>5, <2>6 DEF P
<1>6. ASSUME id \in Gone PROVE \E a \in ToSet(Chain(start, id)) : Goes(a)
  BY <1>3, <1>6, GoneBelow DEF TypeInv
<1> QED BY <1>5, <1>6

LEMMA StaysIs ==
    ASSUME TypeInv, ReadInv, Sound, WithinDepth PROVE Stays = DOMAIN start \ Gone
<1>1. ASSUME NEW id \in DOMAIN start PROVE id \in Stays <=> id \notin Gone
  BY GoneIs DEF Stays, ToSet
<1> QED BY <1>1 DEF Stays

\* An UPDATE that is not deep is of the root alone.
LEMMA PayloadIsRoot ==
    ASSUME request \in Requests, request.op = "UPDATE", ~HasDeep
    PROVE  DOMAIN Payload = {Root} /\ Payload[Root].up = None
<1> DEFINE data == request.data
           nodes == DOMAIN data
<1>1. /\ data \in Seq(Entry) /\ data # <<>> /\ <<data[1].entity, data[1].key>> = Root
      /\ \A i \in nodes : /\ data[i].parent < i
                          /\ data[i].parent = 0 => i = 1
                          /\ data[i].parent # 0 => data[i].entity \in data[data[i].parent].given
  BY DeepAssumption DEF IsRequest
<1>2. nodes = 1 .. Len(data) /\ Len(data) \in Nat \ {0} /\ \A i \in nodes : data[i].parent \in Nat
  <2>1. \A i \in nodes : data[i] \in Entry
    BY <1>1
  <2> QED BY <1>1, <2>1 DEF Entry
<1>3. data[1].given = {}
  BY <1>2 DEF HasDeep
<1> DEFINE T == {i \in Nat : i \in nodes /\ i # 1}
<1>4. T = {}
  <2> SUFFICES ASSUME T # {} PROVE FALSE
    OBVIOUS
  <2>1. PICK i \in T : \A j \in T : i <= j
    <3>1. T \in SUBSET Nat
      OBVIOUS
    <3> HIDE DEF T
    <3> QED BY <3>1, Least
  <2>2. data[i].parent # 0 /\ data[i].parent < i /\ data[i].parent \in nodes
    BY SMTT(60), <1>1, <1>2
  <2>3. data[i].parent = 1
    BY <1>2, <2>1, <2>2
  <2> QED BY <1>1, <1>3, <2>1, <2>3
<1>5. nodes = {1}
  BY <1>2, <1>4
<1>6. data[1].parent = 0
  BY <1>1, <1>2, <1>5
<1>7. IdOf(data, 1) = Root
  <2>1. data[1].key # None
    BY <1>1, DeepAssumption DEF Root
  <2> QED BY <1>1, <2>1 DEF IdOf, KeyOf
<1>8. Payload = [x \in {IdOf(data, i) : i \in nodes} |->
                    LET i == CHOOSE j \in nodes : IdOf(data, j) = x
                    IN  [up    |-> IF data[i].parent = 0 THEN None ELSE IdOf(data, data[i].parent),
                         val   |-> data[i].val,
                         given |-> data[i].given]]
  BY Zenon DEF Payload, FillInKeys
<1>9. DOMAIN Payload = {Root}
  BY <1>5, <1>7, <1>8
<1>10. (CHOOSE j \in nodes : IdOf(data, j) = Root) = 1
  BY <1>5, <1>7
<1> QED BY <1>6, <1>8, <1>9, <1>10

\* A row that stays has its values, and the entry that was matched with it has
\* its place.
LEMMA MatchedPair ==
    ASSUME TypeInv, Sound, NEW id \in Matched(Payload, before)
    PROVE  /\ id \in DOMAIN start /\ Payload[id].up = start[id].up
           /\ id \notin Updated(Payload, before) => Payload[id].val = start[id].val
<1>1. NoCircle(Payload) /\ NoCircle(before) /\ HaveParents(Payload) /\ NoDescent(Payload)
  BY PayloadIsForest, PayloadEnds, PartNoCircle DEF Sound, ReadFrom, TypeInv, TypeOK
<1>2. id \in DOMAIN Payload /\ id \in DOMAIN before /\ id \in DOMAIN start /\ before[id] = start[id]
  BY DEF Matched, Sound, ReadFrom, Part
<1>3. Payload[id].up = start[id].up
  <2>1. CASE Payload[id].up \in DOMAIN Payload
    BY <1>1, <1>2, <2>1, MatchedUp
  <2>2. CASE Payload[id].up \notin DOMAIN Payload
    <3>1. start[id].up \notin DOMAIN before
      BY <1>1, <1>2, <2>2, MatchedUp
    <3>2. Payload[id].up = None /\ start[id].up = None
      BY <1>1, <1>2, <2>2, <3>1 DEF HaveParents, Sound, ReadFrom
    <3> QED BY <3>2
  <2> QED BY <2>1, <2>2
<1>4. ASSUME id \notin Updated(Payload, before) PROVE Payload[id].val = start[id].val
  <2>1. id \notin Changed(Payload, before)
    BY <1>1, <1>2, <1>4, DirtyIs DEF Updated, DirtyIn
  <2> QED BY <1>2, <2>1 DEF Changed
<1> QED BY <1>2, <1>3, <1>4

\* What is committed: the ids that are meant ...
LEMMA CommittedIds ==
    ASSUME TypeInv, ReadInv, ChangesInv, WithinDepth, phase = "committed"
    PROVE  DOMAIN db = (DOMAIN start \ Gone) \cup ToInsert
<1>1. Rest /\ Settled /\ \A id \in ToInsert : id \in DOMAIN db
  BY DEF ChangesInv
<1> QED BY <1>1 DEF Rest, Settled, AsUpdated, AsInserted

\* ... and their rows.
LEMMA CommittedRows ==
    ASSUME TypeInv, ReadInv, ChangesInv, WithinDepth, phase = "committed", NEW id \in DOMAIN db
    PROVE  /\ id \in ToInsert => Pair(db[id]) = Pair(Payload[id])
           /\ id \notin ToInsert /\ id \in ToUpdate =>
                 id \in DOMAIN start /\ Pair(db[id]) = <<start[id].up, Payload[id].val>>
           /\ id \notin ToInsert /\ id \notin ToUpdate => Pair(db[id]) = Pair(start[id])
<1>1. Settled /\ \A x \in ToInsert : AsInserted(x)
  BY DEF ChangesInv
<1>2. CASE id \in ToInsert
  <2>1. db[id] = Written(id)
    BY <1>1, <1>2 DEF AsInserted
  <2> QED BY <1>2, <2>1 DEF Written, Pair
<1>3. CASE id \notin ToInsert
  <2>1. id \in DOMAIN start /\ db[id] = IF id \in ToUpdate THEN Revised(id) ELSE start[id]
    BY <1>1, <1>3 DEF Settled, AsInserted, AsUpdated
  <2> QED BY <1>3, <2>1 DEF Revised, Written, Pair
<1> QED BY <1>2, <1>3

LEMMA NothingToDrop ==
    ASSUME TypeInv, ReadInv, request.op # "DELETE", DOMAIN before = {}
    PROVE  Gone = {} /\ Matched(Payload, before) = {} /\ Updated(Payload, before) = {}
           /\ Created(Payload, before) = DOMAIN Payload
<1>1. Matched(Payload, before) = {} /\ Dropped = {}
  BY DEF Matched, Dropped, Deleted
<1>2. Gone = {}
  BY <1>1, PlannedIs DEF Gone, Deletes
<1> QED BY <1>1, <1>2 DEF Created, Updated

\* The rows that are meant, told by the statements they are for.
LEMMA MeantRows ==
    ASSUME TypeInv, ReadInv, Sound, WithinDepth
    PROVE  Meant(start) = [id \in Stays \cup ToInsert |->
                              IF id \in ToInsert THEN Pair(Payload[id])
                              ELSE IF id \in ToUpdate THEN <<start[id].up, Payload[id].val>>
                              ELSE Pair(start[id])]
<1> DEFINE ids == IF Applies THEN Stays \cup DOMAIN Payload ELSE Stays
           row(id) == IF Applies /\ id \in DOMAIN Payload THEN Pair(Payload[id]) ELSE Pair(start[id])
           told(id) == IF id \in ToInsert THEN Pair(Payload[id])
                       ELSE IF id \in ToUpdate THEN <<start[id].up, Payload[id].val>>
                       ELSE Pair(start[id])
<1>1. request \in Requests /\ request.op \in {"INSERT", "UPDATE", "DELETE"}
  BY DeepAssumption DEF TypeInv, TypeOK, IsRequest
<1> SUFFICES ids = Stays \cup ToInsert /\ \A id \in ids : row(id) = told(id)
  <2>1. Meant(start) = [id \in ids |-> row(id)]
    BY Zenon, MeantIs
  <2>2. Meant(start) = [id \in Stays \cup ToInsert |-> told(id)]
    <3> HIDE DEF ids, row, told
    <3> QED BY <2>1
  <2> QED BY Zenon, <2>2
<1>2. Stays = DOMAIN start \ Gone
  BY StaysIs
<1>4. CASE request.op = "DELETE"
  <2>1. ~Applies /\ ToInsert = {} /\ ToUpdate = {}
    BY <1>4 DEF Applies, ToInsert, ToUpdate
  <2> QED BY <2>1
<1>5. CASE request.op = "INSERT"
  <2>1. DOMAIN before = {} /\ Applies
    BY <1>5 DEF ReadInv, Deep, Applies
  <2>2. ToInsert = DOMAIN Payload /\ ToUpdate = {}
    BY <1>5, <2>1, NothingToDrop DEF ToInsert, ToUpdate, Idle, Deep
  <2> QED BY <2>1, <2>2
<1>6. CASE request.op = "UPDATE" /\ ~HasDeep
  <2>1. DOMAIN before = {} /\ (Applies <=> Root \in DOMAIN start)
    BY <1>6 DEF ReadInv, Deep, Applies
  <2>2. Gone = {} /\ ToInsert = {} /\ ToUpdate = {Root}
    BY <1>6, <2>1, NothingToDrop DEF ToInsert, ToUpdate
  <2>3. DOMAIN Payload = {Root} /\ Payload[Root].up = None
    BY <1>1, <1>6, PayloadIsRoot
  <2>4. Root \in DOMAIN start => start[Root].up = None
    BY DEF Sound, Rooted, RootOnTop
  <2>5. ids = Stays
    BY <1>2, <2>1, <2>2, <2>3
  <2>6. \A id \in ids : row(id) = told(id)
    BY <1>2, <2>1, <2>2, <2>3, <2>4 DEF Pair
  <2> QED BY <2>2, <2>5, <2>6
<1>7. CASE request.op = "UPDATE" /\ HasDeep /\ Root \notin DOMAIN start
  <2>1. Root \notin DOMAIN before
    BY <1>7 DEF Sound, ReadFrom, Part
  <2>2. DOMAIN before = {} /\ Idle /\ ~Applies
    BY <1>7, <2>1 DEF ReadInv, Deep, Idle, Applies
  <2>3. ToUpdate = {} /\ ToInsert = {}
    BY <1>7, <2>2, NothingToDrop DEF ToUpdate, ToInsert
  <2> QED BY <2>2, <2>3
<1>8. CASE request.op = "UPDATE" /\ HasDeep /\ Root \in DOMAIN start
  <2>1. Applies /\ ~Idle
    BY <1>8 DEF Applies, Idle, Sound, Rooted, Deep
  <2>2. ToInsert = Created(Payload, before) /\ ToUpdate = Updated(Payload, before)
    BY <1>8, <2>1 DEF ToInsert, ToUpdate
  <2>3. ASSUME NEW id \in DOMAIN Payload, id \notin ToInsert
        PROVE  /\ id \in DOMAIN start /\ Payload[id].up = start[id].up
               /\ id \notin ToUpdate => Payload[id].val = start[id].val
               /\ id \notin Gone
    <3>1. id \in Matched(Payload, before)
      BY <2>2, <2>3 DEF Created
    <3>2. id \notin Gone
      <4>1. ToSet(Chain(start, id)) \cap Dropped = {}
        BY <1>8, <3>1, MatchedNotBelow
      <4> QED BY <4>1, GoneBelow DEF TypeInv
    <3> QED BY <2>2, <3>1, <3>2, MatchedPair
  <2>4. ToInsert \subseteq DOMAIN Payload /\ ToUpdate \subseteq DOMAIN Payload
    BY <2>2 DEF Created, Updated, Matched
  <2>5. ids = Stays \cup ToInsert
    BY <1>2, <2>1, <2>3, <2>4
  <2>6. \A id \in ids : row(id) = told(id)
    BY <2>1, <2>3, <2>4, <2>5 DEF Pair
  <2> QED BY <2>5, <2>6
<1> QED BY <1>1, <1>4, <1>5, <1>6, <1>7, <1>8

LEMMA ReplacedIs == TypeInv /\ ReadInv /\ ChangesInv /\ WithinDepth => Replaced
<1> DEFINE told(id) == IF id \in ToInsert THEN Pair(Payload[id])
                       ELSE IF id \in ToUpdate THEN <<start[id].up, Payload[id].val>>
                       ELSE Pair(start[id])
<1> SUFFICES ASSUME TypeInv, ReadInv, ChangesInv, WithinDepth, phase = "committed"
             PROVE  Meant(start) = [id \in DOMAIN committed |-> <<committed[id].up, committed[id].val>>]
  BY DEF Replaced
<1>1. committed = db /\ Sound
  BY DEF ChangesInv, ReadInv
<1>2. DOMAIN db = Stays \cup ToInsert
  BY <1>1, StaysIs, CommittedIds
<1>3. \A id \in DOMAIN db : Pair(db[id]) = told(id)
  BY CommittedRows
<1>4. Meant(start) = [id \in Stays \cup ToInsert |-> told(id)]
  BY <1>1, MeantRows
<1> HIDE DEF told
<1>5. Meant(start) = [id \in DOMAIN db |-> Pair(db[id])]
  BY <1>2, <1>3, <1>4
<1> QED BY <1>1, <1>5 DEF Pair

\* What is committed is what the request means, whatever the document: it has
\* replaced the rows it has read by the data, and touched nothing else, in
\* whatever order its statements ran; as long as deep_delete reaches all that
\* is below what it deletes.
THEOREM DocumentReplaced == Spec => [](WithinDepth => Replaced)
<1>1. Init => StraysInv
  BY DEF Init, StraysInv, RollbackLeavesStrays
<1>2. TypeInv /\ ReadInv /\ ChangesInv => (WithinDepth => Replaced)
  BY ReplacedIs
<1> QED BY <1>1, <1>2, TypeInit, TypeStep, StraysStep, OrphansInit, OrphansStep, ReadInit, ReadStep,
           ChangesInit, ChangesStep, PTL DEF Spec

----------------------------------------------------------------------------
(* What is in the way of a statement                                       *)

\* What the request means satisfies the constraints: brothers have different
\* values, and no entry that is to be inserted has the key of a row that stays.
Consistent ==
    /\ \A x, y \in DOMAIN Meant(start) :
          x # y /\ x[1] = y[1] => Meant(start)[x] # Meant(start)[y]
    /\ ToInsert \cap Stays = {}

\* What is inserted is new, and of one INSERT only.
FreshInv ==
    phase = "insert" /\ WithinDepth /\ Consistent =>
        /\ todo \cap sent = {}
        /\ \A s, t \in todo \cup sent : s # t => s.ids \cap t.ids = {}
        /\ \A id \in DOMAIN db : ~Pending(id)

LEMMA SameConsistent ==
    ASSUME UNCHANGED <<request, before, start>> PROVE Consistent' <=> Consistent
<1>1. ToInsert' = ToInsert /\ Payload' = Payload
  BY SameChanges
<1>2. Stays' = Stays
  BY <1>1 DEF Stays, Goes
<1>3. Meant(start)' = Meant(start)
  BY <1>1 DEF Meant
<1> QED BY <1>1, <1>2, <1>3 DEF Consistent

LEMMA FreshStep ==
    TypeInv /\ StraysInv /\ OrphansInv /\ ReadInv /\ ReadInv' /\ ChangesInv /\ FreshInv /\ [Next]_vars
        => FreshInv'
<1> SUFFICES ASSUME TypeInv, StraysInv, OrphansInv, ReadInv, ReadInv', ChangesInv, FreshInv, [Next]_vars,
                    phase' = "insert", WithinDepth', Consistent'
             PROVE  /\ todo' \cap sent' = {}
                    /\ \A s, t \in todo' \cup sent' : s # t => s.ids \cap t.ids = {}
                    /\ \A id \in DOMAIN db' : ~Pending(id)'
  BY DEF FreshInv
<1>1. CASE StartDeletes
  <2>1. todo' \cup sent' = {}
    BY <1>1 DEF StartDeletes, StraysInv
  <2> QED BY <2>1 DEF Pending
<1>2. CASE StartInserts
  <2>1. /\ phase = "update" /\ UNCHANGED <<request, before, start, db>> /\ todo' \cup sent' = todo'
        /\ sent' = {}
        /\ \A id \in DOMAIN db : id \in DOMAIN start /\ id \notin Gone
    <3>1. phase = "update" /\ UNCHANGED <<request, before, start, db>> /\ todo' \cup sent' = todo' /\ sent' = {}
      BY <1>2 DEF StartInserts
    <3>2. WithinDepth
      BY <3>1, SameChanges
    <3> QED BY <3>1, <3>2 DEF ChangesInv
  <2>2. WithinDepth /\ Consistent /\ Sound
    BY <2>1, SameChanges, SameConsistent DEF ReadInv
  <2>3. todo' = {} \/ todo' = NonEmpty(Inserts(ToInsert))
    <3>1. ~Idle
      BY <2>1 DEF ChangesInv
    <3> QED BY <1>2, <3>1 DEF StartInserts, ToInsert
  <2>4. ToInsert \subseteq Ids
    BY PayloadType DEF ToInsert, Created, TypeInv, TypeOK
  <2>5. ASSUME NEW s \in todo', NEW t \in todo', s # t PROVE s.ids \cap t.ids = {}
    <3>1. ASSUME NEW r \in NonEmpty(Inserts(ToInsert))
          PROVE  \/ r = Statement("insert", <<"Root">>, ToInsert \cap {Root})
                 \/ \E e \in Entities :
                       r = Statement("insert", <<e>>, {id \in ToInsert \ {Root} : id[1] = e})
      BY DEF NonEmpty, Inserts
    <3>2. ASSUME NEW id \in s.ids, id \in t.ids PROVE FALSE
      <4>1. CASE id = Root
        <5>1. \A r \in NonEmpty(Inserts(ToInsert)) :
                 Root \in r.ids => r = Statement("insert", <<"Root">>, ToInsert \cap {Root})
          BY <3>1 DEF Statement
        <5> QED BY <2>3, <2>5, <3>2, <4>1, <5>1
      <4>2. CASE id # Root
        <5>1. \A r \in NonEmpty(Inserts(ToInsert)) :
                 id \in r.ids => r = Statement("insert", <<id[1]>>, {x \in ToInsert \ {Root} : x[1] = id[1]})
          BY <3>1, <4>2 DEF Statement
        <5> QED BY <2>3, <2>5, <3>2, <5>1
      <4> QED BY <4>1, <4>2
    <3> QED BY <3>2
  <2>6. ASSUME NEW id \in DOMAIN db, NEW s \in todo', id \in s.ids PROVE FALSE
    <3>1. id \in ToInsert
      BY <2>3, <2>4, <2>6, InsertsAre DEF NonEmpty
    <3>2. id \in Stays
      BY <2>1, <2>2, StaysIs
    <3> QED BY <2>2, <3>1, <3>2 DEF Consistent
  <2> QED BY <2>1, <2>5, <2>6 DEF Pending
<1>3. CASE Run
  <2>1. PICK s \in sent : db' = Effect(s, db) /\ sent' = sent \ {s}
    BY <1>3 DEF Run
  <2>2. UNCHANGED <<request, phase, before, start, todo>>
    BY <1>3 DEF Run
  <2>3. /\ todo \cap sent = {}
        /\ \A x, y \in todo \cup sent : x # y => x.ids \cap y.ids = {}
        /\ \A id \in DOMAIN db : ~Pending(id)
    BY <2>2, SameChanges, SameConsistent DEF FreshInv
  <2>4. s.kind = "insert"
    BY <2>2 DEF StraysInv
  <2>5. DOMAIN db' = DOMAIN db \cup s.ids
    BY <2>1, <2>4 DEF Effect
  <2>6. \A x, y \in todo' \cup sent' : x # y => x.ids \cap y.ids = {}
    BY <2>1, <2>2, <2>3
  <2>7. ASSUME NEW id \in DOMAIN db', NEW r \in todo' \cup sent', id \in r.ids PROVE FALSE
    <3>1. r \in todo \cup sent
      BY <2>1, <2>2
    <3>2. id \in s.ids
      BY <2>3, <2>5, <2>7, <3>1 DEF Pending
    <3>3. r = s
      BY <2>1, <2>3, <2>7, <3>1, <3>2
    <3> QED BY <2>1, <2>2, <2>3, <2>7, <3>3
  <2>8. todo' \cap sent' = {}
    BY <2>1, <2>2, <2>3
  <2> QED BY <2>6, <2>7, <2>8 DEF Pending
<1>4. CASE Prepare \/ UNCHANGED vars
  <2>1. /\ UNCHANGED <<request, phase, before, start, db>>
        /\ todo' \cup sent' = todo \cup sent
        /\ todo \cap sent = {} => todo' \cap sent' = {}
    BY <1>4 DEF Prepare, vars
  <2>2. /\ todo \cap sent = {}
        /\ \A x, y \in todo \cup sent : x # y => x.ids \cap y.ids = {}
        /\ \A id \in DOMAIN db : ~Pending(id)
    BY <2>1, SameChanges, SameConsistent DEF FreshInv
  <2> QED BY <2>1, <2>2 DEF Pending
<1>5. CASE OtherInserts \/ ReadBefore \/ StartUpdates \/ RunFails \/ Commit \/ Rollback \/ Release
  BY <1>5 DEF OtherInserts, ReadBefore, StartUpdates, RunFails, Commit, Rollback, Release
<1> QED BY <1>1, <1>2, <1>3, <1>4, <1>5 DEF Next

\* A row that is what it is meant to be has no value of a brother to be.
LEMMA NoConflictIs ==
    TypeInv /\ StraysInv /\ ReadInv /\ ChangesInv /\ FreshInv => (WithinDepth /\ Consistent => NoConflict)
<1> SUFFICES ASSUME TypeInv, StraysInv, ReadInv, ChangesInv, FreshInv, WithinDepth, Consistent,
                    phase \in {"update", "insert"}, NEW s \in sent, NEW id \in Clashes(s, db)
             PROVE  s.kind = "update" /\ \E t \in todo \cup sent : id \in t.ids
  BY DEF NoConflict
<1>1. Sound /\ s.kind = phase
  BY DEF ReadInv, StraysInv
<1> DEFINE told(x) == IF x \in ToInsert THEN Pair(Payload[x])
                      ELSE IF x \in ToUpdate THEN <<start[x].up, Payload[x].val>>
                      ELSE Pair(start[x])
<1>2. /\ Stays = DOMAIN start \ Gone /\ ToInsert \cap Stays = {}
      /\ \A x, y \in Stays \cup ToInsert : x # y /\ x[1] = y[1] => told(x) # told(y)
  <2>1. Meant(start) = [x \in Stays \cup ToInsert |-> told(x)]
    BY <1>1, MeantRows
  <2> HIDE DEF told
  <2> QED BY SMTT(60), <1>1, <2>1, StaysIs DEF Consistent
<1>3. ASSUME NEW x, AsUpdated(x), x \notin Gone PROVE x \in Stays \cup ToInsert /\ told(x) = Pair(db[x])
  <2>1. x \in Stays /\ x \notin ToInsert
    BY <1>2, <1>3 DEF AsUpdated
  <2>2. CASE x \in ToUpdate
    <3>1. db[x] = Revised(x)
      BY <1>3, <2>2 DEF AsUpdated
    <3>2. db[x].up = start[x].up /\ db[x].val = Payload[x].val
      BY <3>1 DEF Revised, Written
    <3> QED BY <2>1, <2>2, <3>2 DEF Pair
  <2>3. CASE x \notin ToUpdate
    BY <1>3, <2>1, <2>3 DEF AsUpdated
  <2> QED BY <2>2, <2>3
<1>4. CASE phase = "update"
  <2>1. /\ DOMAIN db \subseteq DOMAIN start /\ DOMAIN db \cap Gone = {} /\ s.ids \subseteq ToUpdate
        /\ \A x \in DOMAIN db : AsUpdated(x) \/ (x \in ToUpdate /\ Pending(x) /\ db[x] = start[x])
    BY <1>4 DEF ChangesInv, Only
  <2> DEFINE after == [x \in DOMAIN db |-> IF x \in s.ids THEN [Written(x) EXCEPT !.up = db[x].up]
                                           ELSE db[x]]
  <2>2. Effect(s, db) = after
    BY <1>1, <1>4 DEF Effect
  <2>3. PICK x \in s.ids \cap DOMAIN db :
           /\ id \in DOMAIN db \ s.ids /\ x[1] = id[1]
           /\ after[x].up = after[id].up /\ after[x].val = after[id].val
    <3>1. DOMAIN after = DOMAIN db
      OBVIOUS
    <3> HIDE DEF after
    <3> QED BY <1>1, <1>4, <2>2, <3>1 DEF Clashes
  <2>4. after[x].up = start[x].up /\ after[x].val = Payload[x].val
    <3>1. db[x].up = start[x].up
      BY <2>1, <2>3 DEF AsUpdated, Revised, Written
    <3> QED BY <3>1, <2>3 DEF Written
  <2>5. x \in Stays /\ x \notin ToInsert /\ x \in ToUpdate
    BY <1>2, <2>1, <2>3
  <2>6. told(x) = Pair(db[id])
    <3>1. after[id] = db[id]
      BY <2>3
    <3> QED BY <2>3, <2>4, <2>5, <3>1 DEF Pair
  <2>7. ~AsUpdated(id)
    <3>1. x # id /\ x[1] = id[1] /\ id \notin Gone
      BY <2>1, <2>3
    <3> HIDE DEF told
    <3> QED BY <1>2, <1>3, <2>5, <2>6, <3>1
  <2> QED BY <1>1, <1>4, <2>1, <2>3, <2>7 DEF Pending
<1>5. CASE phase = "insert"
  <2>1. /\ s.ids \subseteq ToInsert /\ s.ids \cap DOMAIN db = {}
        /\ \A x \in DOMAIN db : (AsUpdated(x) /\ x \notin Gone) \/ AsInserted(x)
    BY <1>5 DEF ChangesInv, Only, FreshInv, Pending, Settled
  <2> DEFINE after == [x \in DOMAIN db \cup s.ids |-> IF x \in s.ids THEN Written(x) ELSE db[x]]
  <2>2. Effect(s, db) = after
    BY <1>1, <1>5 DEF Effect
  <2>3. PICK x \in s.ids :
           /\ id \in DOMAIN db \ s.ids /\ x[1] = id[1]
           /\ after[x].up = after[id].up /\ after[x].val = after[id].val
    <3>1. DOMAIN after = DOMAIN db \cup s.ids
      OBVIOUS
    <3> HIDE DEF after
    <3> QED BY <1>1, <1>5, <2>1, <2>2, <3>1 DEF Clashes
  <2>4. told(x) = Pair(db[id])
    <3>1. after[id] = db[id] /\ after[x] = Written(x) /\ x \in ToInsert
      BY <2>1, <2>3
    <3>2. after[x].up = Payload[x].up /\ after[x].val = Payload[x].val
      BY <3>1 DEF Written
    <3> QED BY <2>3, <3>1, <3>2 DEF Pair
  <2>5. id \in Stays \cup ToInsert /\ told(id) = Pair(db[id])
    <3>1. CASE AsUpdated(id) /\ id \notin Gone
      BY <1>3, <3>1
    <3>2. CASE AsInserted(id)
      <4>1. db[id] = Written(id) /\ id \in ToInsert
        BY <3>2 DEF AsInserted
      <4> QED BY <4>1 DEF Written, Pair
    <3> QED BY <2>1, <2>3, <3>1, <3>2
  <2>6. x # id /\ x[1] = id[1] /\ x \in ToInsert
    BY <2>1, <2>3
  <2> HIDE DEF told
  <2> QED BY <1>2, <2>4, <2>5, <2>6
<1> QED BY <1>4, <1>5

\* "first delete, then update, then insert because of potential unique
\* constraints" (onDeep), whatever the document: if the rows the request means
\* satisfy the constraints, none of its statements meets a row that is in its
\* way, in whatever order they run, but an UPDATE one that is to be updated,
\* too; as long as deep_delete reaches all that is below what it deletes.
THEOREM NothingInTheWay == Spec => [](WithinDepth /\ Consistent => NoConflict)
<1>1. Init => StraysInv
  BY DEF Init, StraysInv, RollbackLeavesStrays
<1>2. Init => FreshInv
  BY DEF Init, FreshInv
<1> QED BY <1>1, <1>2, TypeInit, TypeStep, StraysStep, OrphansInit, OrphansStep, ReadInit, ReadStep,
           ChangesInit, ChangesStep, FreshStep, NoConflictIs, PTL DEF Spec
=============================================================================
