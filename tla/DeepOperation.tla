---------------------------- MODULE DeepOperation ----------------------------
(***************************************************************************)
(* Deep INSERT, UPDATE and DELETE: onDeep of db-service/lib/deep-queries.js*)
(* behind fill-in-keys.js, and the handlers onINSERT, onUPDATE, onSIMPLE   *)
(* and deep_delete of SQLService.js it calls, down to the statements these *)
(* prepare and run on the connection of one transaction.                   *)
(*                                                                         *)
(* A document is a function from ids, pairs of an entity and a key, to     *)
(* rows that name their parent.  Statements that Promise.all starts        *)
(* together run in any order, each in two steps, and any may fail; the     *)
(* others of its Promise.all then go on while the request is rolled back.  *)
(* Another transaction may write between the SELECT that reads the         *)
(* document and the first statement computed from it.                      *)
(*                                                                         *)
(* Abstracted: columns other than one value and modifiedAt; compositions   *)
(* to one; entities that are views or have no table; what the diff of the  *)
(* CAP runtime (compareJson) does with columns.                            *)
(***************************************************************************)
EXTENDS Naturals, Sequences, FiniteSets, SequencesExt

CONSTANTS Compositions,   \* the targets of an entity's compositions, in order
          Managed,        \* entities with elements @cds.on.update
          Keys, Values,
          Uuid,           \* the keys fill-in-keys generates
          RecursionDepth, \* cds.env.features.recursion_depth: of the expand
          DepthLimit,     \* @depth of a composition of an entity with itself
          Requests, Databases, \* to start from
          Others,         \* rows the other transaction may insert
          None

Entities == DOMAIN Compositions
Root     == <<"Root", "r">>
Ids      == Entities \X Keys

Row == [up : Ids \cup {None}, val : Values, modified : BOOLEAN]
IsTable(rows) == DOMAIN rows \subseteq Ids /\ rows \in [DOMAIN rows -> Row]

\* An entry of the data names its parent by its place, which comes before, and
\* is in a composition given there; the first is the root, whose key an UPDATE,
\* which has one, takes from its where clause.
Entry == [entity : Entities, key : Keys \cup {None}, parent : Nat,
          val : Values, given : SUBSET Entities]
IsRequest(r) ==
    /\ r.op \in {"INSERT", "UPDATE", "DELETE"}
    /\ r.data \in Seq(Entry)
    /\ \A i \in DOMAIN r.data :
          /\ r.data[i].parent < i
          /\ r.data[i].parent # 0 => r.data[i].entity \in r.data[r.data[i].parent].given
          /\ r.data[i].key = None => i \in DOMAIN Uuid
    /\ r.op = "UPDATE" => /\ r.data # <<>>
                          /\ <<r.data[1].entity, r.data[1].key>> = Root
                          /\ \A i \in DOMAIN r.data : r.data[i].parent = 0 => i = 1

\* Rows that are not below others that are missing, nor below themselves.
HaveParents(rows) == \A id \in DOMAIN rows : rows[id].up \in DOMAIN rows \cup {None}
RootOnTop(rows) == Root \in DOMAIN rows => rows[Root].up = None
NoCircle(rows) == \A ids \in (SUBSET DOMAIN rows) \ {{}} : \E id \in ids : rows[id].up \notin ids

\* deep_delete throws for any other circle of compositions than that of an
\* entity with itself.
NoOtherCircle ==
    \E level \in [Entities -> 1 .. Cardinality(Entities)] :
        \A e \in Entities : \A c \in ToSet(Compositions[e]) \ {e} : level[e] < level[c]

ASSUME DeepAssumption ==
    /\ "Root" \in Entities /\ "r" \in Keys /\ None \notin Ids \cup Keys
    /\ IsFiniteSet(Entities)
    /\ \A e \in Entities : Compositions[e] \in Seq(Entities)
    /\ NoOtherCircle
    /\ Managed \subseteq Entities
    /\ {RecursionDepth, DepthLimit} \subseteq Nat \ {0}
    /\ Uuid \in Seq(Keys)
    /\ \A r \in Requests : IsRequest(r)
    /\ \A rows \in Databases : /\ IsTable(rows) /\ HaveParents(rows) /\ NoCircle(rows)
                               /\ RootOnTop(rows)
    /\ Others \subseteq [id : Ids \ {Root}, up : Ids, val : Values]

VARIABLES request,   \* [op, data]: what the client asked for
          phase,
          before,    \* beforeData: the document as it was read
          start,     \* the database when the first statement was computed
          todo,      \* statements not prepared yet
          sent,      \* statements prepared and not answered
          strays,    \* statements under way when another one failed
          db,        \* what this transaction sees
          committed  \* what the others see

vars == <<request, phase, before, start, todo, sent, strays, db, committed>>

Without(f, ids) == [id \in DOMAIN f \ ids |-> f[id]]

\* The ids from the root of a document to id.
Chain(doc, id) ==
    LET chain[x \in DOMAIN doc] == IF doc[x].up \notin DOMAIN doc THEN <<x>>
                                   ELSE Append(chain[doc[x].up], x)
    IN  chain[id]

Path(doc, id) == [i \in DOMAIN Chain(doc, id) |-> Chain(doc, id)[i][1]]

----------------------------------------------------------------------------
(* fill-in-keys.js: the keys a nested entry lacks, and its parent's key    *)

\* Mutant of KeyOf: no key is generated.
KeyAsGiven(data, i) == data[i].key

\* generateUUIDandPropagateKeys: only the root of an UPDATE is not CREATEd;
\* its key comes from the where clause.
KeyOf(data, i) == IF data[i].key # None THEN data[i].key ELSE Uuid[i]

IdOf(data, i) == <<data[i].entity, KeyOf(data, i)>>

\* The entries of a request have different keys.
ASSUME EntriesAssumption ==
    \A r \in Requests : \A i, j \in DOMAIN r.data : IdOf(r.data, i) = IdOf(r.data, j) => i = j

FillInKeys(data) ==
    LET id(i) == IdOf(data, i)
        nodes == DOMAIN data
    IN  [x \in {id(i) : i \in nodes} |->
            LET i == CHOOSE j \in nodes : id(j) = x
            IN  [up    |-> IF data[i].parent = 0 THEN None ELSE id(data[i].parent),
                 val   |-> data[i].val,
                 given |-> data[i].given]]

Payload == FillInKeys(request.data)

----------------------------------------------------------------------------
(* getExpandForDeep: which compositions the SELECT reads                   *)

Steps(path, e, c) ==
    Cardinality({i \in 1 .. Len(path) - 1 : path[i] = e /\ path[i + 1] = c})

\* _calculateExpandColumns without data: every composition, until one was
\* followed RecursionDepth times; that one ends the loop over its brothers.
ExpandAll(path) ==
    LET expand[p \in Seq(Entities)] ==
            LET comps == Compositions[Last(p)]
                deep(i) == Steps(p, Last(p), comps[i]) >= RecursionDepth
                followed == {i \in DOMAIN comps : \A j \in 1 .. i : ~deep(j)}
            IN  {p} \cup UNION {expand[Append(p, comps[i])] : i \in followed}
    IN  expand[path]

\* With data: the compositions given, in any row, and all below an empty one.
Expanded(doc) ==
    {<<"Root">>} \cup
    UNION {LET comps == Compositions[x[1]]
               here(i) == Append(Path(doc, x), comps[i])
               given(i) == comps[i] \in doc[x].given
               deep(i) == given(i) /\ Steps(Path(doc, x), x[1], comps[i]) >= RecursionDepth
               open == {i \in DOMAIN comps : given(i) /\ \A j \in 1 .. i : ~deep(j)}
               empty(i) == \A id \in DOMAIN doc : doc[id].up = x => id[1] # comps[i]
           IN  {here(i) : i \in open}
               \cup UNION {ExpandAll(here(i)) : i \in {j \in open : empty(j)}}
           : x \in DOMAIN doc}

Read(doc) ==
    LET seen == {id \in DOMAIN doc : /\ Chain(doc, id)[1] = Root
                                     /\ \A n \in 1 .. Len(Path(doc, id)) :
                                          SubSeq(Path(doc, id), 1, n) \in Expanded(Payload)}
    IN  [id \in seen |-> doc[id]]

----------------------------------------------------------------------------
(* getDeepQueries: the statements that turn old into new                   *)

\* compareJson finds an entry among its brothers of the same keys.
Matched(new, old) ==
    {id \in DOMAIN new \cap DOMAIN old : Chain(new, id) = Chain(old, id)}

Created(new, old) == DOMAIN new \ Matched(new, old)
Changed(new, old) == {id \in Matched(new, old) : new[id].val # old[id].val}

Deleted(new, old) ==
    LET dropped == {id \in DOMAIN old \ Matched(new, old) :
                        /\ old[id].up \in Matched(new, old)
                        /\ id[1] \in new[old[id].up].given}
    IN  {id \in DOMAIN old : ToSet(Chain(old, id)) \cap dropped # {}}

\* Mutant of Dirty: a change of a child is not one of its parent.
DirtyAlone(new, old, id) == id \in Created(new, old) \cup Changed(new, old)

\* _getDeepQueries: does the entry, or what it returned for a child, count as
\* a change?  A child without @cds.on.update keeps its children's to itself.
Dirty(new, old, id) ==
    LET dirty[x \in DOMAIN new] ==
            LET childrenDirty == \/ \E c \in DOMAIN new : new[c].up = x /\ dirty[c]
                                 \/ \E c \in Deleted(new, old) : old[c].up = x
            IN  \/ x \in Created(new, old) \cup Changed(new, old)
                \/ x[1] \in Managed /\ (x = Root \/ childrenDirty)
    IN  dirty[id]

Updated(new, old) ==
    {id \in Matched(new, old) : Dirty(new, old, id)}

Statement(kind, path, ids) == [kind |-> kind, path |-> path, ids |-> ids]

\* deep_delete calls itself for the compositions of a path.  `++depth` counts
\* one of the entity with itself; what it has counted is passed to the
\* compositions that follow, too.
Below(call) ==
    LET e == Last(call.path)
        comps == Compositions[e]
        count(i) == call.depth + Cardinality({j \in 1 .. i : comps[j] = e})
        followed == {i \in DOMAIN comps : comps[i] = e => count(i) <= DepthLimit}
    IN  {[path |-> Append(call.path, comps[i]), depth |-> count(i)] : i \in followed}

\* As far as a path goes that no circle but those of `++depth` prolongs.
Longest == Cardinality(Entities) + DepthLimit

\* The paths of the calls for rows of e: each of them ends in a DELETE.
Cascade(e) ==
    LET calls[n \in 1 .. Longest] == IF n = 1 THEN {[path |-> <<e>>, depth |-> 0]}
                                     ELSE UNION {Below(c) : c \in calls[n - 1]}
    IN  {c.path : c \in UNION {calls[n] : n \in 1 .. Longest}}

CascadeOf(e, ids) == {Statement("delete", path, ids) : path \in Cascade(e)}

\* Mutant of Deletes: a later row of an entity replaces the DELETE of an
\* earlier one, where the code adds its keys to it.
DeletesOneRow(ids) ==
    UNION {CascadeOf(e, {CHOOSE id \in ids : id[1] = e}) : e \in {id[1] : id \in ids}}

Deletes(ids) ==
    UNION {CascadeOf(e, {id \in ids : id[1] = e}) : e \in {id[1] : id \in ids}}

Updates(ids) == {Statement("update", <<id[1]>>, {id}) : id \in ids}

\* One INSERT for each entity, and one for the root.
Inserts(ids) ==
    {Statement("insert", <<"Root">>, ids \cap {Root})}
    \cup {Statement("insert", <<e>>, {id \in ids \ {Root} : id[1] = e}) : e \in Entities}

NonEmpty(stmts) == {s \in stmts : s.ids # {}}

\* hasDeep: otherwise the request goes on to onINSERT or onUPDATE.
HasDeep == \E i \in DOMAIN request.data : i = 1 /\ request.data[i].given # {}

----------------------------------------------------------------------------
(* What a statement does to the rows it finds when it runs                 *)

Affected(s, rows) ==
    LET level[i \in 1 .. Len(s.path)] ==
            IF i = 1 THEN s.ids \cap DOMAIN rows
            ELSE {id \in DOMAIN rows : id[1] = s.path[i] /\ rows[id].up \in level[i - 1]}
    IN  level[Len(s.path)]

Written(id) == [up |-> Payload[id].up, val |-> Payload[id].val, modified |-> TRUE]

Effect(s, rows) ==
    CASE s.kind = "delete" -> Without(rows, Affected(s, rows))
      [] s.kind = "update" -> [id \in DOMAIN rows |->
                                  IF id \in s.ids THEN [Written(id) EXCEPT !.up = rows[id].up]
                                  ELSE rows[id]]
      [] s.kind = "insert" -> [id \in DOMAIN rows \cup s.ids |->
                                  IF id \in s.ids THEN Written(id) ELSE rows[id]]

\* The key is unique, and so is the value among the children of a row.
Clashes(s, rows) ==
    LET after == Effect(s, rows)
    IN  (IF s.kind = "insert" THEN s.ids \cap DOMAIN rows ELSE {})
        \cup {id \in DOMAIN after \ s.ids : s.kind # "delete" /\
                \E x \in s.ids \cap DOMAIN after :
                    /\ x[1] = id[1] /\ after[x].up = after[id].up
                    /\ after[x].val = after[id].val}

----------------------------------------------------------------------------
Init ==
    /\ request \in Requests
    /\ db \in Databases
    /\ committed = db
    /\ phase = "begin"
    /\ before = <<>> /\ start = <<>>
    /\ todo = {} /\ sent = {} /\ strays = {}

\* Another transaction inserts a row and commits.
OtherInserts ==
    /\ phase \in {"begin", "read"}
    /\ \E row \in Others :
         /\ row.id \notin DOMAIN db /\ row.up \in DOMAIN db
         /\ LET add(rows) == [id \in DOMAIN rows \cup {row.id} |->
                                 IF id = row.id
                                 THEN [up |-> row.up, val |-> row.val, modified |-> FALSE]
                                 ELSE rows[id]]
            IN  db' = add(db) /\ committed' = add(committed)
    /\ UNCHANGED <<request, phase, before, start, todo, sent, strays>>

\* onDeep: `await this.run(getExpandForDeep(...))`; an INSERT reads nothing.
ReadBefore ==
    /\ phase = "begin"
    /\ before' = IF request.op = "UPDATE" /\ HasDeep THEN Read(db) ELSE <<>>
    /\ phase' = "read"
    /\ UNCHANGED <<request, start, todo, sent, strays, db, committed>>

\* onDeep: getDeepQueries, and the first of the three Promise.all.
StartDeletes ==
    /\ phase = "read"
    /\ start' = db
    /\ IF request.op = "UPDATE" /\ HasDeep /\ Root \notin DOMAIN before
       THEN todo' = {} /\ phase' = "insert"        \* `return 0`
       ELSE /\ phase' = "delete"
            /\ todo' = IF request.op = "DELETE" THEN Deletes({Root})
                       ELSE IF ~HasDeep THEN {}
                       ELSE Deletes(Deleted(Payload, before))
    /\ UNCHANGED <<request, before, sent, strays, db, committed>>

\* Mutant of StartUpdates: INSERTs are started with the UPDATEs.
StartUpdatesAndInserts ==
    /\ phase = "delete" /\ todo = {} /\ sent = {}
    /\ phase' = "update"
    /\ todo' = IF request.op # "UPDATE" THEN {}
               ELSE IF ~HasDeep THEN Updates({Root})
               ELSE Updates(Updated(Payload, before))
                    \cup NonEmpty(Inserts(Created(Payload, before)))
    /\ UNCHANGED <<request, before, start, sent, strays, db, committed>>

StartUpdates ==
    /\ phase = "delete" /\ todo = {} /\ sent = {}
    /\ phase' = "update"
    /\ todo' = IF request.op # "UPDATE" THEN {}
               ELSE IF ~HasDeep THEN Updates({Root}) ELSE Updates(Updated(Payload, before))
    /\ UNCHANGED <<request, before, start, sent, strays, db, committed>>

StartInserts ==
    /\ phase = "update" /\ todo = {} /\ sent = {}
    /\ phase' = "insert"
    /\ todo' = IF request.op = "DELETE" \/ (request.op = "UPDATE" /\ ~HasDeep) THEN {}
               ELSE NonEmpty(Inserts(Created(Payload, before)))
    /\ UNCHANGED <<request, before, start, sent, strays, db, committed>>

\* Mutant of Waits: a DELETE does not wait for those of its compositions.
WaitsNever(s) == FALSE

\* `await Promise.all(compositions)` before a DELETE of their parent.
Waits(s) == \E t \in todo \cup sent : /\ t.kind = "delete" /\ t.ids = s.ids
                                      /\ IsStrictPrefix(s.path, t.path)

\* `await this.prepare(sql)`
Prepare ==
    /\ phase # "released"
    /\ \E s \in todo :
         /\ ~Waits(s)
         /\ todo' = todo \ {s}
         /\ sent' = sent \cup {s}
    /\ UNCHANGED <<request, phase, before, start, strays, db, committed>>

\* `await ps.run(values)`: once ROLLBACK was executed it commits by itself.
Run ==
    /\ \E s \in sent :
         /\ Clashes(s, db) = {}
         /\ db' = Effect(s, db)
         /\ committed' = IF phase \in {"rolled back", "released"} THEN db' ELSE committed
         /\ sent' = sent \ {s}
    /\ UNCHANGED <<request, phase, before, start, todo, strays>>

\* The statement is rejected, for its rows or for any other reason: the
\* DELETEs of its parents are, too, and the request fails.
RunFails ==
    /\ \E s \in sent :
         LET parents == {t \in todo : t.kind = "delete" /\ t.ids = s.ids
                                      /\ IsStrictPrefix(t.path, s.path)}
         IN  /\ sent' = sent \ {s}
             /\ todo' = todo \ parents
             /\ IF phase \in {"delete", "update", "insert"}
                THEN phase' = "failed" /\ strays' = todo' \cup sent'
                ELSE UNCHANGED <<phase, strays>>
    /\ UNCHANGED <<request, before, start, db, committed>>

Commit ==
    /\ phase = "insert" /\ todo = {} /\ sent = {}
    /\ phase' = "committed"
    /\ committed' = db
    /\ UNCHANGED <<request, before, start, todo, sent, strays, db>>

\* Mutant of Rollback: COMMIT is sent for ROLLBACK.
RollbackCommits ==
    /\ phase = "failed"
    /\ phase' = "rolled back"
    /\ committed' = db
    /\ UNCHANGED <<request, before, start, todo, sent, strays, db>>

\* onEVENT ROLLBACK
Rollback ==
    /\ phase = "failed"
    /\ phase' = "rolled back"
    /\ db' = committed
    /\ UNCHANGED <<request, before, start, todo, sent, strays, committed>>

\* release(): from here on this.prepare() throws for there is no this.dbc.
Release ==
    /\ phase = "rolled back"
    /\ phase' = "released"
    /\ todo' = {}
    /\ UNCHANGED <<request, before, start, sent, strays, db, committed>>

Next ==
    \/ OtherInserts \/ ReadBefore
    \/ StartDeletes \/ StartUpdates \/ StartInserts
    \/ Prepare \/ Run \/ RunFails
    \/ Commit \/ Rollback \/ Release

Spec == Init /\ [][Next]_vars

----------------------------------------------------------------------------
Statements == [kind : {"delete", "update", "insert"},
               path : Seq(Entities) \ {<<>>}, ids : SUBSET Ids]

\* The variables have the types of the code's data (onDeep).
TypeOK ==
    /\ request \in Requests
    /\ phase \in {"begin", "read", "delete", "update", "insert",
                  "committed", "failed", "rolled back", "released"}
    /\ IsTable(before) /\ IsTable(start) /\ IsTable(db) /\ IsTable(committed)
    /\ todo \cup sent \cup strays \subseteq Statements

\* What a request means for a document old, whatever statements it takes:
\* entries that are not in the data go with all below them, as far as the
\* request has seen them; the data's entries are there with its values; what
\* the data does not mention stays.
Meant(old) ==
    LET new == Payload
        seen(id) == request.op = "DELETE" \/ id \in DOMAIN before
        gone(id) == \E i \in DOMAIN Chain(old, id) :
                       LET a == Chain(old, id)[i]
                           p == old[a].up
                       IN  /\ seen(a)
                           /\ IF request.op = "DELETE" THEN a = Root
                              ELSE /\ p \in DOMAIN new /\ p \in DOMAIN before
                                   /\ a[1] \in new[p].given
                                   /\ Chain(new, p) = Chain(old, p)
                                   /\ a \in DOMAIN new => Chain(new, a) # Chain(old, a)
        stays == {id \in DOMAIN old : ~gone(id)}
        applies == request.op = "INSERT" \/ (request.op = "UPDATE" /\ Root \in DOMAIN old)
        ids == IF applies THEN stays \cup DOMAIN new ELSE stays
    IN  [id \in ids |-> IF applies /\ id \in DOMAIN new
                        THEN <<new[id].up, new[id].val>> ELSE <<old[id].up, old[id].val>>]

\* A deep operation that succeeds has replaced the document by the data, and
\* nothing else: whatever it deleted on the way (onDeep, deep_delete), in
\* whatever order its statements ran.
Replaced ==
    phase = "committed" =>
        Meant(start) = [id \in DOMAIN committed |-> <<committed[id].up, committed[id].val>>]

\* "first delete, then update, then insert because of potential unique
\* constraints" (onDeep): unless the client inserts a root that is there, an
\* INSERT never meets a row that is in its way, and an UPDATE none but one
\* that is to be updated, too.
NoConflict ==
    phase \in {"update", "insert"} /\ ~(request.op = "INSERT" /\ Root \in DOMAIN start) =>
        \A s \in sent :
            \A id \in Clashes(s, db) :
                s.kind = "update" /\ \E t \in todo \cup sent : id \in t.ids

\* A DELETE never leaves a row without its parent, also if the request has
\* not read that row, and also while another statement has failed: deep_delete
\* deletes children first.  (After the ROLLBACK it may: a child it restored
\* stays when a statement still under way deletes the parent.)
NoOrphans ==
    phase \in {"delete", "update", "committed"}
    \/ (phase = "failed" /\ \A id \in DOMAIN db : ~db[id].modified)
    => HaveParents(db)

\* A request that fails leaves the rows it found, but for those of the
\* statements that were under way when another one failed: these may run
\* after the ROLLBACK, and then commit on their own (Promise.all in onDeep).
RollbackLeavesStrays ==
    phase \in {"rolled back", "released"} =>
        \A id \in DOMAIN start \cup DOMAIN committed :
            \/ /\ id \in DOMAIN start \cap DOMAIN committed
               /\ start[id] = committed[id]
            \/ \E s \in strays : id \in s.ids \cup Affected(s, start)

\* A row with @cds.on.update tells of each change of it or of an entry right
\* below it (_getDeepQueries: `op === undefined && (root || childrenDirty)`).
ModifiedTellsTrue ==
    phase = "committed" /\ request.op = "UPDATE" /\ HasDeep =>
        \A id \in DOMAIN committed \cap DOMAIN Payload \cap DOMAIN start :
            LET below(rows) == {<<c, rows[c].val>> : c \in {c \in DOMAIN rows : rows[c].up = id}}
            IN  /\ id[1] \in Managed
                /\ below(start) # below(committed)
                => committed[id].modified
=============================================================================
