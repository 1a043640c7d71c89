--------------------------- MODULE ServiceProperties ---------------------------
(***************************************************************************)
(* What callers rely on, whatever way the service takes to the tables.     *)
(***************************************************************************)
EXTENDS Service, PathSemantics

(* Tables hold rows with all columns of their entity, and one per key. *)
TypeOK ==
    /\ clock \in 0..MaxWrites
    /\ answer.read \in DOMAIN Reads \cup {""}
    /\ \A t \in DOMAIN db :
        /\ \A r \in db[t] : DOMAIN r = Physical(Definitions[t])
        /\ \A r, s \in db[t] : KeyOfRow(Definitions[t], r) = KeyOfRow(Definitions[t], s) => r = s

(* Rows without an order are compared as a bag.                            *)
SameRows(q, rows, meant) ==
    IF q.orderBy = <<>> /\ q.limit = 0 /\ ~q.one THEN BagOf(rows) = BagOf(meant) ELSE rows = meant

(* The answer to a query along associations is what the paths mean: each   *)
(* row once for every way its paths can be followed, NULL where they end,  *)
(* nested what an expand leads to.  Joins, aliases, foreign keys read in   *)
(* place of a join, and the nesting of EXISTS do not show.  (cqn4sql.js,   *)
(* infer, join-tree.js)                                                    *)
SameAnswer ==
    answer.read # "" =>
        SameRows(Reads[answer.read], answer.rows, Meant(Reads[answer.read], <<>>, {}, <<>>, db))

(* `!=` holds where one side is NULL and the other is not: it is rendered   *)
(* as IS DISTINCT FROM "unless both operands cannot be NULL".  A foreign   *)
(* key is taken for the key it points to, which is never NULL.             *)
(* (operator() and _not_null() in cqn2sql.js)                              *)
UnequalOrNull ==
    (answer.read # "" /\ \E i \in DOMAIN Reads[answer.read].where :
                            IsOp(Reads[answer.read].where[i], "!="))
        => SameAnswer

(* $count is the number of rows there are without the limit, also if it is *)
(* not counted but derived from a page that is not full; of a SELECT.one   *)
(* it is that of its one row, or none.  (count() in SQLService.js)         *)
CountTellsTrue ==
    answer.read \in Counted =>
        answer.count = Len(Meant([Reads[answer.read] EXCEPT !.limit = 0, !.offset = 0], <<>>, {}, <<>>, db))

(* The keys of the rows the paths lead to, and of those the step writes.   *)
KeysMeant(q) ==
    LET pk == PrimaryKey(EntityOf(q))
        keys == [i \in DOMAIN pk |-> Ref(<<Step(pk[i][1])>>)]
    IN Range(Meant([q EXCEPT !.columns = keys], <<>>, {}, <<>>, db))
KeysTouched(entity) ==
    {KeyOfRow(entity, r) : r \in db[Name(entity)] \ db'[Name(entity)]}

(* UPDATE and DELETE along associations write or remove the rows their     *)
(* paths lead to, and no others.  (cqn4sql.js, the subquery by primary     *)
(* keys; every row an UPDATE of the model writes differs from before)      *)
TouchesMeant ==
    [][(request.name \in DOMAIN Changes /\ request'.name = "") =>
            KeysTouched(EntityOf(Changes[request.name])) = KeysMeant(Changes[request.name])]_vars

(* A part of a key that has a default was left to it, or given as it is.   *)
KeyOfDefaults(s) ==
    \A c \in DOMAIN s.key : Managed(Definitions[s.table], c).default \in {Null, s.key[c]}

(* Managed elements tell when a row was made and last written: an upsert   *)
(* of an existing row keeps the first and sets the second, an update too;  *)
(* also where the key it is found by is not given, but a default.  (Where  *)
(* another value is given for such a key, an upsert does not find the row  *)
(* it writes over: only the second is told then.)                          *)
(* (managed() and UPSERT() in cqn2sql.js)                                  *)
StampsTellTrue ==
    \A s \in stamps : \A r \in db[s.table] :
        KeyOfRow(Definitions[s.table], r) = s.key =>
            \A e \in Range(Definitions[s.table].elements) :
                /\ (e.onInsert /\ ~e.onUpdate /\ s.created # Null /\ KeyOfDefaults(s))
                      => r[<<Name(e)>>] = s.created
                /\ e.onUpdate => r[<<Name(e)>>] = s.written
=============================================================================
