---------------------------- MODULE PathSemantics -----------------------------
(***************************************************************************)
(* The reference: what a query along paths means, without joins, aliases   *)
(* or EXISTS.  A row has for every association that a path of the query    *)
(* leaves one row it leads to: a choice maps the paths of associations     *)
(* (with their filters) to rows, the empty path to the row itself, and     *)
(* equal paths share one choice.  If there is nothing, it is NoRow.        *)
(*                                                                         *)
(* A condition has the truth of its tokens with the paths replaced by the  *)
(* values they lead to.  Foreign keys point to rows: following an          *)
(* association to its key gives the foreign key.                           *)
(***************************************************************************)
EXTENDS Sql, Search

NoRow == <<>>
Known(v) == Xpr(<<Val(v)>>)     \* a value that is no literal
NoEnv == [rows |-> <<>>, group |-> {}]
Tree(path, i) == SubSeq(path, 1, i)
Greatest(set) == IF set = {} THEN 0 ELSE CHOOSE i \in set : \A j \in set : j <= i
LastAssoc(entity, path) ==
    Greatest({i \in 1..(Len(path) - 1) : IsAssoc(Linked(entity, path)[i])})
In(row, column) == IF row = NoRow THEN Null ELSE row[column]
AtEnd(entity, path, choice) ==
    LET from(i) == In(choice[Tree(path, i)], Ids(SubSeq(path, i + 1, Len(path))))
    IN from(LastAssoc(entity, path))

IsOuter(scope, path) == Len(path) > 1 /\ path[1].id \in DOMAIN scope
(* The paths of a condition; those of a calculated element are below it. *)
RECURSIVE PathsOf(_, _, _, _)
PathsOf(entity, base, tokens, scope) ==
    UNION {LET token == tokens[i]
               path == base \o token.ref
           IN CASE token.t \in {"xpr", "list", "func"} -> PathsOf(entity, base, token.xpr, scope)
                [] token.t = "ref" /\ ~(i > 1 /\ IsOp(tokens[i - 1], "exists"))
                   /\ ~IsOuter(scope, token.ref) ->
                        IF IsCalculated(Leaf(entity, path))
                        THEN PathsOf(entity, Front(path), Leaf(entity, path).value, scope)
                        ELSE {path}
                [] OTHER -> {} : i \in DOMAIN tokens}

(* Paths may start with the alias of their own query. *)
RECURSIVE Stripped(_, _)
Stripped(tokens, alias) ==
    [i \in DOMAIN tokens |->
        IF tokens[i].t = "ref" /\ Len(tokens[i].ref) > 1 /\ Head(tokens[i].ref).id = alias
        THEN [tokens[i] EXCEPT !.ref = Tail(@)]
        ELSE [tokens[i] EXCEPT !.xpr = Stripped(@, alias)]]

(* What the tokens of a condition, a path and a query mean is one          *)
(* recursion: each is found in the others.                                 *)
RECURSIVE Means(_, _, _)
GroundFrom(tokens, ctx, i, db) == Means("tokens", [tokens |-> tokens, ctx |-> ctx, from |-> i], db)
Ground(tokens, ctx, db) == GroundFrom(tokens, ctx, 1, db)
Reach(entity, row, path, scope, db) ==
    Means("path", [entity |-> entity, row |-> row, path |-> path, scope |-> scope], db)
Meant(q, given, rows, scope, db) ==
    Means("query", [q |-> q, given |-> given, rows |-> rows, scope |-> scope], db)

(* Whether the association leads from one row to the other. *)
Agree(e, own, other) ==
    \A flat \in Range(FlatNames(e)) :
        /\ own[Front(e.full) \o flat] # Null
        /\ own[Front(e.full) \o flat] = other[Tail(flat)]
Follows(assoc, row, target) ==
    LET side(token) == IF token.t = "val" THEN token
                       ELSE Known(IF Head(token.ref).id = Name(assoc) THEN target[Tail(Ids(token.ref))]
                                ELSE IF Head(token.ref).id = "$self" THEN row[Tail(Ids(token.ref))]
                                ELSE row[Ids(token.ref)])
        back(token) == token.t = "ref" /\ Ids(token.ref) = <<"$self">>
        ons == assoc.on
        backs == {i \in DOMAIN ons : back(ons[i])}
        other(j) == IF j > 1 /\ IsOp(ons[j - 1], "=") THEN j - 2 ELSE j + 2
        isOn(i) == \A j \in backs : i \notin {j, other(j)}
    IN IF IsManaged(assoc) THEN Agree(assoc, row, target)
       ELSE /\ \A j \in backs :
                    Agree(Leaf(Definitions[assoc.target], Tail(ons[other(j)].ref)), target, row)
            /\ Truth([i \in DOMAIN ons |-> IF ons[i].t = "op" THEN ons[i]
                                          ELSE IF isOn(i) THEN side(ons[i]) ELSE Val(1)],
                     NoEnv, <<>>) = "T"

(* The entity a path of the entity leads to. *)
EntityAt(entity, path) == TargetOf(Last(<<entity>> \o Linked(entity, path)))
Leads(entity, choice, path, i, scope, db) ==
    IF choice[Tree(path, i)] = NoRow THEN {}
    ELSE Reach(EntityAt(entity, Tree(path, i)), choice[Tree(path, i)], SubSeq(path, i + 1, Len(path)),
               scope, db)
Choose(tree, choice, rows) ==
    {(tree :> r) @@ choice : r \in IF rows = {} THEN {NoRow} ELSE rows}
Trees(entity, path) ==
    {Tree(path, i) : i \in {i \in 1..(Len(path) - 1) : IsAssoc(Linked(entity, path)[i])}}
Navigations(entity, row, paths, scope, db) ==
    FoldLeft(LAMBDA choices, tree :
                UNION {Choose(tree, c, Leads(entity, c, tree, LastAssoc(entity, tree), scope, db))
                        : c \in choices},
             {<<>> :> row},
             SetToSortSeq(UNION {Trees(entity, p) : p \in paths}, LAMBDA t, u : Len(t) < Len(u)))

(* A condition on one row: for some choice it is true. *)
Context(entity, choice, scope, group) ==
    [entity |-> entity, choice |-> choice, scope |-> scope, group |-> group, at |-> <<>>]
Holds(entity, row, where, scope, db) ==
    IF Len(where) = 1 /\ where[1].t = "val" THEN row[PrimaryKey(entity)[1]] = where[1].val
    ELSE \E c \in Navigations(entity, row, PathsOf(entity, <<>>, where, scope), scope, db) :
            Truth(Ground(where, Context(entity, c, scope, {}), db), NoEnv, db) = "T"

(* The rows an association leads to. *)
Led(link, row, step, scope, db) ==
    {r \in db[link.target] : Follows(link, row, r) /\ Holds(TargetOf(link), r, step.where, scope, db)}

(* The rows a path of associations leads to from a row. *)
RowsOfPath(row, path, links, scope, db) ==
    LET i == CHOOSE i \in DOMAIN links : IsAssoc(links[i]) /\ \A j \in 1..(i - 1) : ~IsAssoc(links[j])
        rest == SubSeq(path, i + 1, Len(path))
    IN UNION {IF rest = <<>> THEN {r} ELSE Reach(TargetOf(links[i]), r, rest, scope, db)
                : r \in Led(links[i], row, path[i], scope, db)}

(* A structure or an association stands for its columns. *)
Leaves(ctx, token) ==
    LET path == ctx.at \o token.ref
        columns(flat, i) ==
            [k \in DOMAIN flat |-> In(ctx.choice[Tree(path, i)],
                                      Ids(SubSeq(path, i + 1, Len(path))) \o Tail(flat[k]))]
    IN IF token.t # "ref" THEN <<token.val>>
       ELSE columns(FlatNames(Leaf(ctx.entity, path)), LastAssoc(ctx.entity, path))
IsTuple(ctx, token) ==
    token.t = "ref" /\ ~IsOuter(ctx.scope, token.ref)
    /\ Leaf(ctx.entity, ctx.at \o token.ref).kind \in {"struct", "assoc"}
OneByOne(left, op, right) ==
    LET at(values, i) == values[IF Len(values) = 1 THEN 1 ELSE i]
        width == IF Len(left) > Len(right) THEN Len(left) ELSE Len(right)
    IN Xpr(Between([i \in 1..width |-> <<Known(at(left, i)), op, Known(at(right, i))>>],
                   Op(IF op.op = "!=" THEN "or" ELSE "and")))
Leafwise(ctx, lhs, op, rhs) == OneByOne(Leaves(ctx, lhs), op, Leaves(ctx, rhs))
Decided(b) == Xpr(<<Val(1), Op("="), Val(IF b THEN 1 ELSE 0)>>)

GroundRef(ctx, token, db) ==
    LET path == ctx.at \o token.ref
        leaf == Leaf(ctx.entity, path)
    IN IF IsOuter(ctx.scope, token.ref) THEN Known(ctx.scope[token.ref[1].id][Tail(Ids(token.ref))])
       ELSE IF IsCalculated(leaf) THEN Xpr(Ground(leaf.value, [ctx EXCEPT !.at = Front(path)], db))
       ELSE Known(AtEnd(ctx.entity, path, ctx.choice))
GroundFunc(ctx, token, db) ==
    CASE token.op = "count" -> Known(Cardinality(ctx.group))
      [] token.op = "max" ->
            Known(Largest({Value(Ground(token.xpr, [ctx EXCEPT !.choice = c], db)[1], NoEnv, db) :
                            c \in ctx.group}))
(* Where a symbol stands with an element, it is its value. *)
Symbol(ctx, tokens, token) ==
    LET with == CHOOSE i \in DOMAIN tokens : tokens[i].t = "ref"
    IN Val(Leaf(ctx.entity, ctx.at \o tokens[with].ref).enum[token.op])
GroundedFrom(tokens, ctx, i, db) ==
    LET token == tokens[i]
        rest(n) == GroundFrom(tokens, ctx, i + n, db)
        sub == Meant(token.query, <<>>, <<>>, ctx.scope, db)
        inner(t) == [t EXCEPT !.xpr = [j \in DOMAIN t.xpr |->
                        IF t.xpr[j].t = "enum" THEN Symbol(ctx, tokens, t.xpr[j])
                        ELSE Ground(<<t.xpr[j]>>, ctx, db)[1]]]
        host == ctx.choice[Tree(ctx.at, LastAssoc(ctx.entity, Append(ctx.at, Step("ID"))))]
    IN IF i > Len(tokens) THEN <<>>
       ELSE IF IsOp(token, "exists") /\ tokens[i + 1].t = "ref"
       THEN <<Decided(Reach(EntityAt(ctx.entity, ctx.at), host,
                            tokens[i + 1].ref, ctx.scope, db) # {})>> \o rest(2)
       ELSE IF i + 2 <= Len(tokens) /\ tokens[i + 1].op \in {"=", "!="} /\ tokens[i + 2].t \in {"ref", "val"}
               /\ (IsTuple(ctx, token) \/ IsTuple(ctx, tokens[i + 2]))
       THEN <<Leafwise(ctx, token, tokens[i + 1], tokens[i + 2])>> \o rest(3)
       ELSE CASE token.t = "ref" -> <<GroundRef(ctx, token, db)>> \o rest(1)
              [] token.t = "func" -> <<GroundFunc(ctx, token, db)>> \o rest(1)
              [] token.t = "xpr" -> <<Xpr(Ground(token.xpr, ctx, db))>> \o rest(1)
              [] token.t = "list" -> <<inner(token)>> \o rest(1)
              [] token.t = "enum" -> <<Symbol(ctx, tokens, token)>> \o rest(1)
              [] token.t = "query" ->
                    <<IF i > 1 /\ IsOp(tokens[i - 1], "in")
                      THEN List([j \in DOMAIN sub |-> Known(sub[j][CHOOSE a \in DOMAIN sub[j] : TRUE])])
                      ELSE Known(IF sub = <<>> THEN Null
                               ELSE sub[1][CHOOSE a \in DOMAIN sub[1] : TRUE])>> \o rest(1)
              [] OTHER -> <<token>> \o rest(1)

(* The columns of a query by name: a wildcard stands for the elements that *)
(* no other column has the name of.                                        *)
NameIn(col) == IF col.as # <<>> THEN col.as ELSE IF col.t = "ref" THEN Ids(col.ref) ELSE <<col.op>>
Flats(path, name, flats) ==
    {[as |-> name \o Tail(flats[i]), token |-> Ref(path \o Each(Tail(flats[i]), Step))] : i \in DOMAIN flats}
WantedElement(path, name, e) ==
    IF IsCalculated(e) THEN {[as |-> name, token |-> Ref(path)]} ELSE Flats(path, name, FlatNames(e))
StarColumns(elements, base, as, others) ==
    UNION {WantedElement(Append(base, Step(Name(e))), Append(as, Name(e)), e)
            : e \in {e \in Range(elements) : <<Name(e)>> \notin others}}
RECURSIVE Wanted(_, _, _, _)
WantedPath(entity, path, name, leaf, c) ==
    IF c.inline # <<>> THEN Wanted(entity, path, name, c.inline)
    ELSE IF c.expand = <<>> THEN WantedElement(path, name, leaf)
    ELSE IF IsAssoc(leaf) THEN {[as |-> name, token |-> [c EXCEPT !.ref = path]]}
    ELSE Wanted(entity, path, name, c.expand)
WantedColumn(entity, base, as, others, c) ==
    LET path == base \o c.ref
        name == as \o NameIn(c)
    IN IF c.t = "star"
       THEN StarColumns(IF base = <<>> THEN entity.elements ELSE ElementsOf(Leaf(entity, base)),
                        base, as, others)
       ELSE IF c.t = "ref" THEN WantedPath(entity, path, name, Leaf(entity, path), c)
       ELSE {[as |-> name, token |-> [c EXCEPT !.ref = path]]}
Wanted(entity, base, as, columns) ==
    UNION {WantedColumn(entity, base, as, {NameIn(columns[i]) : i \in DOMAIN columns}, c)
            : c \in Range(columns)}

(* What a query returns from `rows` of its entity, or from those its FROM  *)
(* leads to.  One in the columns of a grouped query has one row, of what   *)
(* the group has.                                                          *)
FromRows(q, scope, db) ==
    LET entity == Definitions[q.from[1].id]
        rows == {r \in db[q.from[1].id] : Holds(entity, r, q.from[1].where, scope, db)}
    IN IF Len(q.from) = 1 THEN rows
       ELSE UNION {Reach(entity, r, Tail(q.from), scope, db) : r \in rows}
EntityOf(q) == EntityAt(Definitions[q.from[1].id], Tail(q.from))
Expanded(c) ==
    [(IF c.query = <<>> THEN Query ELSE c.query) EXCEPT !.columns = c.expand, !.expand = TRUE]
FoundIn(entity, row, paths, term, scope, db) ==
    paths = <<>> \/ \E path \in Range(paths) :
                        \E c \in Navigations(entity, row, {path}, scope, db) : AtEnd(entity, path, c) = term
Searched(q, entity, row, scope, db) ==
    q.search # NoTokens /\ q.groupBy = <<>> =>
        FoundIn(entity, row, SearchPaths(entity), q.search[1].val, scope, db)

(* What is known of a query: m has the query, its entity, the columns that *)
(* are wanted, its WHERE and ORDER BY, and the rows of the queries around. *)
InScope(m, r) == IF m.q.alias = "" \/ r = NoRow THEN m.scope ELSE (m.q.alias :> r) @@ m.scope
RootOf(choice) == IF choice = NoRow THEN NoRow ELSE choice[<<>>]
Grounded(m, tokens, choice, group, db) ==
    Ground(tokens, Context(m.entity, choice, InScope(m, RootOf(choice)), group), db)
ValuesFor(m, tokens, choice, group, db) == Values(Grounded(m, tokens, choice, group, db), NoEnv, db)
IsTrueFor(m, tokens, choice, group, db) == Truth(Grounded(m, tokens, choice, group, db), NoEnv, db) = "T"

PathsFor(m) ==
    LET lists == {<<w.token>> : w \in {w \in m.wanted : w.token.expand = <<>>}}
                 \cup {m.where, m.q.groupBy \o m.q.having \o m.orderBy}
    IN {w.token.ref : w \in {w \in m.wanted : w.token.expand # <<>>}}
       \cup UNION {PathsOf(m.entity, <<>>, list, InScope(m, NoRow)) : list \in lists}
ChoicesFor(m, rows, paths, db) ==
    UNION {{c \in Navigations(m.entity, r, paths, InScope(m, r), db) : IsTrueFor(m, m.where, c, {}, db)}
            : r \in {r \in rows : Searched(m.q, m.entity, r, InScope(m, r), db)}}

(* The value of a column: the rows an expand leads to, which in a grouped  *)
(* query is one row of what the group has.                                 *)
Unordered(q, rows) == IF q.orderBy = <<>> THEN BagOf(rows) ELSE rows
Nest(m, query, path, choice, db) ==
    Unordered(query, Meant(query, EntityAt(m.entity, path),
                           Leads(m.entity, choice, path, LastAssoc(m.entity, path),
                                 InScope(m, RootOf(choice)), db),
                           InScope(m, RootOf(choice)), db))
GroupNest(m, wanted, choice, db) ==
    BagOf(<<[a \in {w.as : w \in wanted} |->
                ValuesFor(m, <<(CHOOSE w \in wanted : w.as = a).token>>, choice, {}, db)[1]]>>)
Cell(m, token, choice, group, db) ==
    IF token.expand = <<>> THEN ValuesFor(m, <<token>>, choice, group, db)[1]
    ELSE IF m.q.groupBy # <<>> THEN GroupNest(m, Wanted(m.entity, token.ref, <<>>, token.expand), choice, db)
    ELSE Nest(m, Expanded(token), token.ref, choice, db)
MeantRow(m, choice, group, db) ==
    [a \in {w.as : w \in m.wanted} |->
        Cell(m, (CHOOSE w \in m.wanted : w.as = a).token, choice, group, db)]

(* The answer, from all choices for the rows of the query. *)
MeantEntry(m, choice, group, db) ==
    [place |-> IF m.orderBy = <<>> THEN <<>> ELSE ValuesFor(m, m.orderBy, choice, group, db),
     row |-> MeantRow(m, choice, group, db), group |-> group]
MeantGroups(m, choices, db) ==
    IF m.q.groupBy # <<>>
    THEN ByKeys(choices, [c \in choices |-> ValuesFor(m, m.q.groupBy, c, {}, db)])
    ELSE IF \E w \in m.wanted : w.token.t = "func" THEN {choices}
    ELSE {{c} : c \in choices}
MeantAnswer(m, groups, db) ==
    LET one(g) == IF g = {} THEN NoRow ELSE CHOOSE c \in g : TRUE
    IN Page(RowsOf(Sorted({MeantEntry(m, one(g), g, db) :
                            g \in {g \in groups : IsTrueFor(m, m.q.having, one(g), g, db)}}, m.q.orderBy)),
            IF m.q.one THEN 1 ELSE m.q.limit, m.q.offset)

(* What $self.x, and a name of a column in ORDER BY, stand for. *)
SelfWanted(wanted, token) ==
    IF token.t = "ref" /\ Head(token.ref).id = "$self"
    THEN (CHOOSE w \in wanted : w.as = <<token.ref[2].id>>).token ELSE token
SortedWanted(wanted, token) ==
    LET named == {w \in wanted : w.as = Ids(token.ref)}
    IN IF token.t = "ref" /\ named # {}
       THEN [(CHOOSE w \in named : TRUE).token EXCEPT !.desc = token.desc] ELSE token
SelfOf(columns, c) ==
    IF c.t = "ref" /\ Head(c.ref).id = "$self"
    THEN [columns[CHOOSE i \in DOMAIN columns : NameIn(columns[i]) = <<c.ref[2].id>>] EXCEPT !.as = c.as]
    ELSE c
ColumnsOf(columns) ==
    IF columns = <<>> THEN <<Star>> ELSE Each(columns, LAMBDA c : SelfOf(columns, c))
Meaning(q, entity, scope, wanted) ==
    [q |-> q, entity |-> entity, scope |-> scope, wanted |-> wanted,
     where |-> Each(Stripped(q.where, q.alias), LAMBDA token : SelfWanted(wanted, token)),
     orderBy |-> Each(q.orderBy, LAMBDA token : SortedWanted(wanted, token))]
MeantFrom(m, rows, db) ==
    MeantAnswer(m, MeantGroups(m, ChoicesFor(m, rows, PathsFor(m), db), db), db)
MeantBy(q, entity, rows, scope, db) ==
    MeantFrom(Meaning(q, entity, scope,
                      Wanted(entity, <<>>, <<>>, ColumnsOf(Stripped(q.columns, q.alias)))), rows, db)

Means(what, of, db) ==
    CASE what = "tokens" -> GroundedFrom(of.tokens, of.ctx, of.from, db)
      [] what = "path" -> RowsOfPath(of.row, of.path, Linked(of.entity, of.path), of.scope, db)
      [] what = "query" ->
            MeantBy(of.q, IF of.given = <<>> THEN EntityOf(of.q) ELSE of.given,
                    IF of.given = <<>> THEN FromRows(of.q, of.scope, db) ELSE of.rows, of.scope, db)
=============================================================================
