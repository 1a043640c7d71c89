------------------------------- MODULE Service --------------------------------
(***************************************************************************)
(* The SQL service as its callers see it: a query is translated by infer   *)
(* and cqn4sql, rendered by cqn2sql and run on the database.  Reads do not *)
(* change the tables; `answer` is what the last one returned, with its     *)
(* $count.  Writes are numbered by the clock, which is $now.  `request` is *)
(* the statement a query has been translated to and that is to run.        *)
(***************************************************************************)
EXTENDS Writes

CONSTANTS
    Reads,          \* the queries by name
    Counted,        \* those of them that ask for $count
    Changes,        \* UPDATE and DELETE by name
    Entries,        \* what INSERT and UPSERT are given: [entity, entry]
    Tables,         \* the tables at the start
    MaxWrites

ASSUME ServiceAssumption == MaxWrites \in Nat /\ Counted \subseteq DOMAIN Reads

VARIABLES db, clock, request, answer, stamps
vars == <<db, clock, request, answer, stamps>>

NoRequest == [name |-> "", sql |-> <<>>, count |-> <<>>]
NoAnswer == [read |-> "", rows |-> <<>>, count |-> 0]
TopEnv == [rows |-> <<>>, group |-> {}]
(* count(): the rows of the query without its columns, unless they are     *)
(* needed, and without its limit; a SELECT.one stays one.                  *)
CountQuery(q) ==
    LET needed == q.having # NoTokens \/ q.groupBy # <<>>
        columns == SelectSeq(q.columns, LAMBDA c : c.expand = <<>>)
    IN [q EXCEPT !.columns = IF needed /\ columns # <<>> THEN columns
                             ELSE <<[Val(1) EXCEPT !.as = <<"1">>]>>,
                 !.limit = 0, !.offset = 0, !.orderBy = <<>>]
(* What the requests are translated to, and the counts of those that read. *)
Requests == Reads @@ Changes
StatementOf(q, isCount) == Statement(IF isCount THEN CountQuery(q) ELSE q, {}, <<>>)
Statements ==
    [n \in (DOMAIN Requests) \X BOOLEAN |->
        IF n[2] /\ n[1] \notin Counted THEN <<>> ELSE StatementOf(Requests[n[1]], n[2])]
\* Mutant of Count: every page is taken for the last one.
CountOfPage(q, sql, n) == n + q.offset
Count(q, sql, n) ==
    LET max == IF q.one THEN 1 ELSE q.limit
    IN IF n > 0 /\ (max = 0 \/ n < max) THEN n + q.offset ELSE Len(Answer(sql, TopEnv, db))

(* The rows at the start were inserted at 0. *)
Init ==
    /\ db = Tables
    /\ clock = 0
    /\ request = NoRequest
    /\ answer = NoAnswer
    /\ stamps = UNION {{[table |-> t, key |-> KeyOfRow(Definitions[t], r), created |-> 0, written |-> 0]
                            : r \in Tables[t]} : t \in DOMAIN Tables}

(* cqn2sql(): a request is taken once the one before has been answered.    *)
Idle == request.name = "" /\ answer.read = ""
Translate(n) ==
    LET taken(statements) ==
            [name |-> n, sql |-> statements[<<n, FALSE>>], count |-> statements[<<n, TRUE>>]]
    IN /\ Idle
       /\ n \in DOMAIN Changes => clock < MaxWrites
       /\ request' = taken(Statements)
       /\ UNCHANGED <<db, clock, answer, stamps>>

(* onSELECT *)
Read(n) ==
    LET answered(rows) ==
            [read |-> n, rows |-> rows,
             count |-> IF n \in Counted THEN Count(Reads[n], request.count, Len(rows)) ELSE Null]
    IN /\ request.name = n
       /\ answer' = answered(Answer(request.sql, TopEnv, db))
       /\ request' = NoRequest
       /\ UNCHANGED <<db, clock, stamps>>

Return ==
    /\ answer.read # ""
    /\ answer' = NoAnswer
    /\ UNCHANGED <<db, clock, request, stamps>>

Write(table, rows) ==
    /\ clock < MaxWrites
    /\ clock' = clock + 1
    /\ db' = [db EXCEPT ![table] = rows]
    /\ request' = NoRequest
    /\ UNCHANGED answer

(* When a row was inserted and last written, as far as it was said so. *)
Stamp(table, row, created) == [table |-> table, key |-> KeyOfRow(Definitions[table], row),
                               created |-> created, written |-> clock + 1]
Stamped(table, rows) ==
    {s \in stamps : ~(s.table = table /\ \E r \in rows : s.key = KeyOfRow(Definitions[table], r))}
StampOf(table, row) ==
    LET own == {s \in stamps : s.table = table /\ s.key = KeyOfRow(Definitions[table], row)}
    IN IF own = {} THEN Null ELSE (CHOOSE s \in own : TRUE).created

IsNew(table, entity, row) == OldRow(db[table], entity, KeyOfRow(entity, row)) = NoOld

Insert(e) ==
    LET insert(row) ==
            /\ IsNew(e.entity, Definitions[e.entity], row)
            /\ Write(e.entity, db[e.entity] \cup {row})
            /\ stamps' = stamps \cup {Stamp(e.entity, row, clock + 1)}
    IN Idle /\ insert(InsertEntry(Definitions[e.entity], e.entry, clock + 1))

InsertListed(e) ==
    LET insert(row) ==
            /\ IsNew(e.entity, Definitions[e.entity], row)
            /\ Write(e.entity, db[e.entity] \cup {row})
    IN Idle /\ insert(InsertRow(Definitions[e.entity], e.entry)) /\ UNCHANGED stamps

Upsert(e) ==
    LET entity == Definitions[e.entity]
        written(table) ==
            OldRow(table, entity, KeyOfRow(entity, InsertEntry(entity, e.entry, clock + 1)))
        stamped(row) ==
            Stamped(e.entity, {row})
            \cup {Stamp(e.entity, row, IF IsNew(e.entity, entity, row) THEN clock + 1
                                       ELSE StampOf(e.entity, row))}
        upsert(table) == Write(e.entity, table) /\ stamps' = stamped(written(table))
    IN Idle /\ upsert(UpsertEntry(db[e.entity], entity, e.entry, clock + 1))

(* onUPDATE and onDELETE *)
Change(c) ==
    LET q == request.sql
        table == q.from[1].entity
        isUpdate == q.kind = "UPDATE"
        change(rows) ==
            /\ Write(table, IF isUpdate THEN Update(q, rows, db, clock + 1) ELSE db[table] \ rows)
            /\ stamps' = Stamped(table, rows)
                         \cup {Stamp(table, r, StampOf(table, r)) : r \in IF isUpdate THEN rows ELSE {}}
    IN request.name = c /\ change(Touched(q, db))

Next ==
    \/ \E n \in DOMAIN Requests : Translate(n)
    \/ \E n \in DOMAIN Reads : Read(n)
    \/ Return
    \/ \E e \in Entries : Insert(e)
    \/ \E e \in Entries : InsertListed(e)
    \/ \E e \in Entries : Upsert(e)
    \/ \E c \in DOMAIN Changes : Change(c)

Spec == Init /\ [][Next]_vars
=============================================================================
