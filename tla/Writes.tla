-------------------------------- MODULE Writes --------------------------------
(***************************************************************************)
(* What INSERT, UPSERT, UPDATE and DELETE do to a table, once cqn2sql.js   *)
(* has rendered them.  `entry` is a function from the columns that are     *)
(* given to their values; `now` is $now of the session.                    *)
(***************************************************************************)
EXTENDS Cqn4sql

NoOld == <<>>
Physical(entity) == Range(Columns(entity))
ElementOfColumn(entity, c) == FlatElement(ElementOf(entity, c[1]), c)
KeyColumns(entity) == {c \in Physical(entity) : Len(c) = 1 /\ ElementOfColumn(entity, c).key}
KeyOfRow(entity, row) == [c \in KeyColumns(entity) |-> row[c]]
(* Managed are elements of the entity; a foreign key is none. *)
Managed(entity, c) == IF Len(c) = 1 THEN ElementOfColumn(entity, c) ELSE Elem

(* managed(): what is given counts, NULL too. *)
InsertValue(entity, c, entry, now) ==
    LET e == Managed(entity, c)
    IN IF c \in DOMAIN entry THEN entry[c] ELSE IF e.onInsert THEN now ELSE e.default
UpsertValue(entity, c, entry, old, now) ==
    LET e == Managed(entity, c)
    IN IF e.key \/ old = NoOld \/ (e.onInsert /\ e.onUpdate) THEN InsertValue(entity, c, entry, now)
       ELSE IF c \in DOMAIN entry THEN entry[c] ELSE IF e.onUpdate THEN now ELSE old[c]

(* With entries every column is written, with rows those that are listed:  *)
(* for the others it is the database that knows a default.                 *)
InsertEntry(entity, entry, now) ==
    [c \in Physical(entity) |-> InsertValue(entity, c, entry, now)]
InsertRow(entity, entry) ==
    [c \in Physical(entity) |-> IF c \in DOMAIN entry THEN entry[c] ELSE Managed(entity, c).default]

(* The row with a key. *)
OldRow(table, entity, key) ==
    LET old == {r \in table : KeyOfRow(entity, r) = key}
    IN IF old = {} THEN NoOld ELSE CHOOSE r \in old : TRUE
\* Mutant of UpsertEntry: an INSERT without ON CONFLICT.
UpsertEntryBesideOld(table, entity, entry, now) ==
    table \cup {InsertEntry(entity, entry, now)}
(* `c.onInsert || c.sql`: the key OLD is joined on has the default of an    *)
(* element that has one, even where another value is given.                *)
\* Mutant of JoinedValue: without the default.
JoinedAsGiven(entity, c, entry, now) == IF c \in DOMAIN entry THEN entry[c] ELSE Null
JoinedValue(entity, c, entry, now) ==
    LET e == Managed(entity, c)
    IN IF e.onInsert THEN now ELSE IF e.default # Null THEN e.default
       ELSE InsertValue(entity, c, entry, now)
(* The row that is written over is the one with the key that is written:   *)
(* ON CONFLICT.                                                            *)
UpsertEntry(table, entity, entry, now) ==
    LET old == OldRow(table, entity,
                      [c \in KeyColumns(entity) |-> JoinedValue(entity, c, entry, now)])
        new == [c \in Physical(entity) |-> UpsertValue(entity, c, entry, old, now)]
    IN (table \ {OldRow(table, entity, KeyOfRow(entity, new))}) \cup {new}

(* UPDATE sets what is given, and what is managed and not given. *)
UpdatedRow(entity, q, env, row, db, now) ==
    [c \in Physical(entity) |->
        LET set == {i \in DOMAIN q.data : q.data[i].name = c}
        IN IF set # {} THEN Value(q.data[CHOOSE i \in set : TRUE].value, env, db)
           ELSE IF Managed(entity, c).onUpdate THEN now ELSE row[c]]
RowEnv(q, row) == [rows |-> q.from[1].alias :> row, group |-> {}]
Touched(q, db) ==
    {row \in db[q.from[1].entity] : Truth(q.where, RowEnv(q, row), db) = "T"}
Update(q, rows, db, now) ==
    LET entity == Definitions[q.from[1].entity]
    IN (db[q.from[1].entity] \ rows)
       \cup {UpdatedRow(entity, q, RowEnv(q, row), row, db, now) : row \in rows}
=============================================================================
