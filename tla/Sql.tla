-------------------------------- MODULE Sql ---------------------------------
(***************************************************************************)
(* What a statement means once cqn2sql.js has rendered it: SQL over tables *)
(* that are sets of rows, with the three truth values.  A row is a         *)
(* function from column names to values; an environment maps every table   *)
(* alias in scope to a row, the inner ones first.                          *)
(*                                                                         *)
(* The tokens of CQN that still hold paths are evaluated by the same       *)
(* connectives, through env.bind: see PathSemantics, the reference.        *)
(***************************************************************************)
EXTENDS Cqn, FiniteSets, Bags

Or3(a, b) == IF "T" \in {a, b} THEN "T" ELSE IF "U" \in {a, b} THEN "U" ELSE "F"
And3(a, b) == IF "F" \in {a, b} THEN "F" ELSE IF "U" \in {a, b} THEN "U" ELSE "T"
Not3(a) == CASE a = "T" -> "F" [] a = "F" -> "T" [] OTHER -> "U"
Plus3(a, b) == IF Null \in {a, b} THEN Null ELSE a + b
Bool3(b) == IF b THEN "T" ELSE "F"

(* `=` becomes `is` before a literal NULL.  `!=` becomes `is distinct      *)
(* from`, unless neither operand is taken for one that can be NULL: a      *)
(* literal, or an element that is a key or not null.                       *)
NeverNull(token) == (token.t = "val" /\ token.val # Null) \/ token.notNull
IsNullLiteral(token) == token.t = "val" /\ token.val = Null
Compare(op, lhs, rhs, a, b) ==
    IF op \in {"=", "==", "!="} /\ IsNullLiteral(rhs) THEN Bool3((a = Null) = (op # "!="))
    ELSE IF op \in {"!=", "=="} /\ ~(NeverNull(lhs) /\ NeverNull(rhs))
    THEN Bool3((a = b) = (op = "=="))
    ELSE IF Null \in {a, b} THEN "U"
    ELSE CASE op \in {"=", "=="} -> Bool3(a = b)
           [] op = "!=" -> Bool3(a # b)
           [] op = "<" -> Bool3(a < b)
           [] op = ">" -> Bool3(a > b)

(* Whether a tuple equals one of a set of tuples. *)
EqualTuple(s, t) ==
    IF \E i \in DOMAIN s : s[i] # Null /\ t[i] # Null /\ s[i] # t[i] THEN "F"
    ELSE IF \E i \in DOMAIN s : Null \in {s[i], t[i]} THEN "U" ELSE "T"
Among(s, tuples) ==
    IF \E t \in tuples : EqualTuple(s, t) = "T" THEN "T"
    ELSE IF \E t \in tuples : EqualTuple(s, t) = "U" THEN "U" ELSE "F"

FirstOp(tokens, o) ==
    LET at == {i \in DOMAIN tokens : IsOp(tokens[i], o)}
    IN IF at = {} THEN 0 ELSE CHOOSE i \in at : \A j \in at : i <= j
Before(tokens, i) == SubSeq(tokens, 1, i - 1)
After(tokens, i) == SubSeq(tokens, i + 1, Len(tokens))

Largest(set) == IF set \ {Null} = {} THEN Null
                ELSE CHOOSE v \in set \ {Null} : \A w \in set \ {Null} : w <= v

NullRow(columns) == [c \in Range(columns) |-> Null]

(* The rows of a query, in the order of ORDER BY, which is total in the    *)
(* queries that have a limit.  NULL comes first.                           *)
Precedes(r, s, keys) ==
    \E i \in DOMAIN keys :
        /\ \A j \in 1..(i - 1) : r[j] = s[j]
        /\ r[i] # s[i]
        /\ (r[i] < s[i]) = ~keys[i].desc
RECURSIVE Sorted(_, _)
Sorted(set, keys) ==
    IF set = {} THEN <<>>
    ELSE LET first == CHOOSE x \in set : \A y \in set : ~Precedes(y.place, x.place, keys)
         IN <<first>> \o Sorted(set \ {first}, keys)
RowsOf(entries) == [i \in DOMAIN entries |-> entries[i].row]
Page(rows, limit, offset) ==
    SubSeq(rows, offset + 1, IF limit = 0 \/ offset + limit > Len(rows) THEN Len(rows) ELSE offset + limit)
BagOf(rows) ==
    [r \in Range(rows) |-> Cardinality({i \in DOMAIN rows : rows[i] = r})]

(* The value of a subquery: an expand has rows, another one a value. *)
Nested(query, rows) ==
    IF query.expand THEN IF query.orderBy = <<>> THEN BagOf(rows) ELSE rows
    ELSE IF rows = <<>> THEN Null ELSE rows[1][query.columns[1].as]

(* A condition, a value and a query are evaluated by one recursion: each is *)
(* found in the others.                                                    *)
RECURSIVE Evaluate(_, _, _, _)
Truth(tokens, env, db) == Evaluate("truth", tokens, env, db)
Value(token, env, db) == Evaluate("value", token, env, db)
Answer(q, env, db) == Evaluate("answer", q, env, db)

Values(tokens, env, db) == [i \in DOMAIN tokens |-> Value(tokens[i], env, db)]

(* A token as a tuple, and what stands right of IN as a set of tuples. *)
Tuple(token, env, db) ==
    Values(IF token.t = "list" THEN token.xpr ELSE <<token>>, env, db)
Tuples(token, env, db) ==
    IF token.t = "query"
    THEN LET columns == token.query.columns
         IN {[i \in DOMAIN columns |-> r[columns[i].as]] : r \in Range(Answer(token.query, env, db))}
    ELSE {Tuple(token.xpr[i], env, db) : i \in DOMAIN token.xpr}

TruthOf(tokens, env, db) ==
    LET or == FirstOp(tokens, "or")
        and == FirstOp(tokens, "and")
    IN IF tokens = NoTokens THEN "T"
       ELSE IF or > 0 THEN Or3(Truth(Before(tokens, or), env, db), Truth(After(tokens, or), env, db))
       ELSE IF and > 0 THEN And3(Truth(Before(tokens, and), env, db), Truth(After(tokens, and), env, db))
       ELSE IF IsOp(Head(tokens), "not") THEN Not3(Truth(Tail(tokens), env, db))
       ELSE IF IsOp(Head(tokens), "exists") THEN Bool3(Answer(tokens[2].query, env, db) # <<>>)
       ELSE IF Len(tokens) = 1 /\ tokens[1].t = "xpr" THEN Truth(tokens[1].xpr, env, db)
       ELSE IF Len(tokens) = 1
       THEN Bool3(\E c \in Range(Tuple(tokens[1].xpr[1], env, db)) :    \* search(columns, term)
                    c = tokens[1].xpr[2].val)
       ELSE IF IsOp(tokens[2], "in") \/ IsOp(tokens[2], "not")
       THEN LET found == Among(Tuple(tokens[1], env, db), Tuples(Last(tokens), env, db))
            IN IF IsOp(tokens[2], "in") THEN found ELSE Not3(found)
       ELSE IF IsOp(tokens[2], "is")                                    \* is not null
       THEN Bool3(Value(tokens[1], env, db) # Null)
       ELSE Compare(tokens[2].op, tokens[1], tokens[3],
                    Value(tokens[1], env, db), Value(tokens[3], env, db))

ValueOf(token, env, db) ==
    CASE token.t = "val" -> token.val
      [] token.t = "col" -> env.rows[token.alias][token.name]
      [] token.t = "query" ->
            Nested(token.query, Answer(token.query, env, db))
      [] token.t = "func" /\ token.op = "count" -> Cardinality(env.group)
      [] token.t = "func" /\ token.op = "max" -> Largest({Value(token.xpr[1], [env EXCEPT !.rows = g], db) : g \in env.group})
      [] token.t = "xpr" /\ Len(token.xpr) = 1 -> Value(token.xpr[1], env, db)
      [] token.t = "xpr" /\ Len(token.xpr) = 3 ->                        \* a + b
            Plus3(Value(token.xpr[1], env, db), Value(token.xpr[3], env, db))

(* The environments of FROM: the rows of the first table, each joined to   *)
(* the tables that follow.                                                 *)
Table(source, env, db) ==
    IF source.query = <<>> THEN db[source.entity] ELSE Range(Answer(source.query, env, db))
OrNullRow(source, matches) ==
    IF matches = {} /\ source.join = "left"
    THEN {NullRow(Columns(Definitions[source.entity]))} ELSE matches
Extended(source, env, db) ==
    LET bound(row) == [env EXCEPT !.rows = (source.alias :> row) @@ @]
    IN {bound(row) : row \in OrNullRow(source,
            {row \in Table(source, env, db) : Truth(source.on, bound(row), db) = "T"})}
Joined(from, env, db) ==
    FoldLeft(LAMBDA envs, source : UNION {Extended(source, e, db) : e \in envs}, {env}, from)

Aggregates(q) == \E i \in DOMAIN q.columns : q.columns[i].t = "func"

(* The rows an expand of a grouped query returns come from the group: its  *)
(* subquery has no FROM.                                                   *)
Matches(q, env, db) ==
    {e.rows : e \in {e \in Joined(q.from, env, db) : Truth(q.where, e, db) = "T"}}
ByKeys(matches, keys) == {{s \in matches : keys[s] = keys[r]} : r \in matches}
Groups(q, matches, env, db) ==
    IF q.groupBy # <<>>
    THEN ByKeys(matches, [r \in matches |-> Values(q.groupBy, [env EXCEPT !.rows = r], db)])
    ELSE IF Aggregates(q) THEN {matches}
    ELSE {{r} : r \in matches}
(* A group is represented by one of its rows. *)
Scope(env, g) == [env EXCEPT !.group = g, !.rows = IF g = {} THEN @ ELSE CHOOSE r \in g : TRUE]
ResultRow(q, env, db) ==
    [a \in {q.columns[i].as : i \in DOMAIN q.columns} |->
        Value(q.columns[CHOOSE i \in DOMAIN q.columns : q.columns[i].as = a], env, db)]
Place(q, env, row, db) ==
    IF q.orderBy = <<>> THEN <<>>
    ELSE Values(q.orderBy, [env EXCEPT !.rows = (<<>> :> row) @@ @], db)
Entry(q, env, row, db) == [place |-> Place(q, env, row, db), row |-> row, group |-> env.group]
Answers(q, groups, env, db) ==
    {Entry(q, Scope(env, g), ResultRow(q, Scope(env, g), db), db) :
        g \in {g \in groups : Truth(q.having, Scope(env, g), db) = "T"}}
AnswerOf(q, env, db) ==
    Page(RowsOf(Sorted(Answers(q, Groups(q, Matches(q, env, db), env, db), env, db), q.orderBy)),
         IF q.one THEN 1 ELSE q.limit, q.offset)

Evaluate(what, of, env, db) ==
    CASE what = "truth" -> TruthOf(of, env, db)
      [] what = "value" -> ValueOf(of, env, db)
      [] what = "answer" -> AnswerOf(of, env, db)
=============================================================================
