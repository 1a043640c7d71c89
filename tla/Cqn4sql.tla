------------------------------ MODULE Cqn4sql -------------------------------
(***************************************************************************)
(* cqn4sql.js: a query with paths becomes one with tables, joins and       *)
(* subqueries only.  Every alias that is given out is remembered in cx, so *)
(* the operators below take cx and return it with their result: the order  *)
(* they are applied in is that of the code.                                *)
(*                                                                         *)
(* `base` is what a path is relative to, when it is not the query:         *)
(*   link    the association whose filter is translated                    *)
(*   alias   the table alias of the rows the path starts from              *)
(*   at      the path of a calculated element, for its value               *)
(***************************************************************************)
EXTENDS Infer, Search

Result(cx, out) == [cx |-> cx, out |-> out]
Mapped(result, F(_)) == Result(result.cx, F(result.out))
Added(acc, result) == Result(result.cx, acc.out \o result.out)
NoBase == [host |-> <<>>, alias |-> <<>>, at |-> <<>>, isCalc |-> FALSE]
HasBase(base) == base.alias # <<>>
HostOf(cx, base) == IF base.host = <<>> THEN cx.source ELSE base.host

(* The associations of a path that are joined, and the first one that is   *)
(* only followed to its foreign keys.                                      *)
NodeAt(cx, base, path, i) == base.at \o SubSeq(path, 1, i)
IsForeignKeyAccess(cx, base, path, i) ==
    /\ NodeAt(cx, base, path, i) \in DOMAIN cx.nodes
    /\ cx.nodes[NodeAt(cx, base, path, i)].fk
AssocSteps(links) == {i \in DOMAIN links : IsAssoc(links[i])}
LastOf(set) == IF set = {} THEN 0 ELSE CHOOSE i \in set : \A j \in set : j <= i
FirstOf(set) == IF set = {} THEN 0 ELSE CHOOSE i \in set : \A j \in set : i <= j
ForeignKeyStep(cx, base, path, links) ==
    FirstOf({i \in AssocSteps(links) : IsForeignKeyAccess(cx, base, path, i)})

RefRelevant(cx, base, path) ==
    /\ base.isCalc \/ ~HasBase(base)
    /\ IsJoinRelevant(cx.source, base.at \o path, FALSE)

JoinedAlias(cx, base, path, links) ==
    LET joined == {i \in AssocSteps(links) : ~IsForeignKeyAccess(cx, base, path, i)}
    IN cx.nodes[NodeAt(cx, base, path, LastOf(joined))].alias

(* getTableAlias, and in expressions the last association if it is joined. *)
TableAlias(cx, base, path, links) ==
    LET last == LastOf(AssocSteps(links))
        own == IF HasBase(base) THEN base.alias ELSE cx.alias
    IN IF ~RefRelevant(cx, base, path) THEN own
       ELSE IF last > 0 /\ ~IsForeignKeyAccess(cx, base, path, last)
       THEN cx.nodes[NodeAt(cx, base, path, last)].alias
       ELSE IF HasBase(base) THEN own ELSE JoinedAlias(cx, base, path, links)

(* calculateElementName: from the foreign key on, or the leaf. *)
ElementName(cx, base, path, links) ==
    LET fk == ForeignKeyStep(cx, base, path, links)
    IN IF fk > 0 THEN SubSeq(Ids(path), fk, Len(path)) ELSE Last(links).full

Column(alias, name, e) == [Col(alias, name) EXCEPT !.notNull = e.key]
As(column, as) == [column EXCEPT !.as = as]

(* The element behind a flat name of e, for what is known of its values:   *)
(* a foreign key is the key it points to.                                  *)
RECURSIVE FlatElement(_, _)
FlatElement(e, flat) ==
    IF Len(flat) = 1 THEN e ELSE FlatElement(ElementOf(e, flat[2]), Tail(flat))

(* getFlatColumnsFor: the columns of the table behind a path, and their    *)
(* names in the result, of which `as` is the first part if there is one.   *)
NamePrefix(cx, base, path, links) ==
    IF ~RefRelevant(cx, base, path) THEN Ids(path)
    ELSE IF IsManaged(Last(links)) /\ ForeignKeyStep(cx, base, path, links) = 0 THEN <<>>
    ELSE ElementName(cx, base, path, links)
LeafColumns(leaf, alias, prefix, as) ==
    Each(FlatNames(leaf), LAMBDA flat :
         As(Column(alias, prefix \o Tail(flat), FlatElement(leaf, flat)), as \o Tail(flat)))
FlatColumns(cx, base, path, links, alias, as) ==
    LeafColumns(Last(links), alias, NamePrefix(cx, base, path, links), IF as # <<>> THEN as ELSE Ids(path))

(* The name of a column that follows a joined path to a foreign key starts *)
(* one step in front of the association that has it.                       *)
ScalarAlias(cx, path, links) ==
    LET fk == ForeignKeyStep(cx, NoBase, path, links)
    IN IF fk = 0 THEN Ids(path) ELSE SubSeq(Ids(path), IF fk = 1 THEN 1 ELSE fk - 1, Len(path))

(* handleRef: one path among the columns. *)
ColumnsOfPath(cx, path, links, as) ==
    FlatColumns(cx, NoBase, path, links, TableAlias(cx, NoBase, path, links),
                IF as = <<>> /\ Last(links).kind = "scalar" /\ RefRelevant(cx, NoBase, path)
                THEN ScalarAlias(cx, path, links) ELSE as)
RefColumns(cx, col) ==
    LET path == Unqualified(cx, col.ref)
    IN ColumnsOfPath(cx, path, Linked(cx.source, path), col.as)

(* An alias for the rows of an EXISTS or of a subquery. *)
TakeAlias(cx, name) ==
    LET alias == NextAlias(cx, TechnicalAlias[name])
    IN Result([cx EXCEPT !.used = @ \cup {alias}], alias)

Source(entity, alias, join, on) ==
    [entity |-> entity, query |-> <<>>, alias |-> alias, join |-> join, on |-> on]

(* getParentKeyForeignKeyPairs and onCondFor: the condition that links the *)
(* rows `target` of an association to the rows `host` that have it.        *)
KeyPair(assoc, host, target, names, key) ==
    <<Column(target, Tail(names), key), Op("="), Column(host, Front(assoc.full) \o names, key)>>
KeyPairs(assoc, host, target) ==
    Between(Each(FlatNames(assoc), LAMBDA names :
                 KeyPair(assoc, host, target, names, FlatElement(assoc, names))), Op("and"))
RECURSIVE OnCondition(_, _, _, _)
OnToken(assoc, token, host, target) ==
    LET ids == Ids(token.ref)
    IN IF token.t # "ref" THEN token
       ELSE IF ids[1] = Name(assoc)
       THEN Column(target, Tail(ids), Leaf(Definitions[assoc.target], Tail(token.ref)))
       ELSE Col(host, IF ids[1] = "$self" THEN Tail(ids) ELSE ids)
IsSelf(token) == token.t = "ref" /\ Ids(token.ref) = <<"$self">>
(* A comparison with $self is replaced by the condition of the association *)
(* back, in parentheses if there is more.                                  *)
Backlink(assoc, tokens, i) ==
    LET other == IF IsSelf(tokens[i]) THEN tokens[i + 2] ELSE tokens[i]
    IN Leaf(Definitions[assoc.target], Tail(other.ref))
OnCondition(assoc, tokens, host, target) ==
    IF tokens = NoTokens THEN NoTokens
    ELSE IF Head(tokens).t = "xpr"
    THEN <<Xpr(OnCondition(assoc, Head(tokens).xpr, host, target))>>
            \o OnCondition(assoc, Tail(tokens), host, target)
    ELSE IF Len(tokens) > 2 /\ (IsSelf(tokens[1]) \/ IsSelf(tokens[3]))
    THEN LET back == KeyPairs(Backlink(assoc, tokens, 1), target, host)
             more == Len(tokens) > 3 \/ Len(assoc.on) > Len(tokens)
         IN (IF more THEN <<Xpr(back)>> ELSE back)
            \o OnCondition(assoc, SubSeq(tokens, 4, Len(tokens)), host, target)
    ELSE <<OnToken(assoc, Head(tokens), host, target)>>
            \o OnCondition(assoc, Tail(tokens), host, target)

OnCondFor(assoc, host, target) ==
    IF IsManaged(assoc) THEN KeyPairs(assoc, host, target)
    ELSE OnCondition(assoc, assoc.on, host, target)

(* expandComparison: structures and associations are compared column by    *)
(* column, and in parentheses if anything stands beside.  What is not      *)
(* equal differs in one of them.                                           *)
IsFlat(cx, base, token) ==
    token.t = "ref" /\ ~InOuter(cx, token.ref) /\ ~OfSelf(token.ref)
    /\ (IF HasBase(base) THEN Leaf(base.host, token.ref)
        ELSE Leaf(cx.source, Unqualified(cx, token.ref))).kind \in {"struct", "assoc"}
OperandColumns(cx, base, path, links) ==
    FlatColumns(cx, base, path, links, TableAlias(cx, base, path, links), <<>>)
Operand(cx, base, token) ==
    LET path == Unqualified(cx, token.ref)
    IN IF token.t = "ref" THEN OperandColumns(cx, base, path, Linked(HostOf(cx, base), path))
       ELSE <<token>>
ColumnByColumn(left, op, right) ==
    LET width == IF Len(left) > Len(right) THEN Len(left) ELSE Len(right)
        at(columns, i) == columns[IF Len(columns) = 1 THEN 1 ELSE i]
    IN Between([i \in 1..width |-> <<at(left, i), op, at(right, i)>>],
               Op(IF op.op = "!=" THEN "or" ELSE "and"))
ExpandComparison(cx, base, lhs, op, rhs) ==
    ColumnByColumn(Operand(cx, base, lhs), op, Operand(cx, base, rhs))

(* assignQueryModifiers: the filter of the last step of FROM. *)
AndWhere(filter, where) ==
    IF filter = NoTokens THEN where ELSE IF where = NoTokens THEN filter
    ELSE Wrapped(filter) \o <<Op("and")>> \o Wrapped(where)
WithModifiers(q) ==
    LET last == Last(q.from)
        isKey == Len(last.where) = 1 /\ last.where[1].t = "val"
    IN [q EXCEPT !.where = IF isKey THEN @ ELSE AndWhere(last.where, @)]

(* A filter that leaves its entity for more than a foreign key. *)
RECURSIVE PathInFilter(_, _)
PathInFilter(host, tokens) ==
    \E i \in DOMAIN tokens :
        \/ tokens[i].t \in {"xpr", "list", "func"} /\ PathInFilter(host, tokens[i].xpr)
        \/ /\ tokens[i].t = "ref"
           /\ LET path == tokens[i].ref
                  links == Linked(host, path)
              IN \E j \in DOMAIN links :
                    \/ /\ j < Len(path)
                       /\ IsAssoc(links[j])
                       /\ \/ links[j].on # NoTokens
                          \/ ~Contains(links[j].keys, path[j + 1].id)
                    \/ /\ path[j].where # NoTokens
                       /\ j = 1 \/ j < Len(path)

(* An expression, the columns of a query and a query are translated by one *)
(* recursion: a query is found in expressions and columns, an expression   *)
(* in columns and queries.                                                 *)
RECURSIVE Transform(_, _, _), Exists(_, _, _, _, _)
TokensFrom(cx, tokens, i, out, base) ==
    Transform("tokens", cx, [tokens |-> tokens, from |-> i, out |-> out, base |-> base])
Tokens(cx, tokens, base) == TokensFrom(cx, tokens, 1, NoTokens, base)
ColumnsFor(cx, columns) == Transform("columns", cx, columns)
Statement(query, outer, unique) == Transform("query", query, [outer |-> outer, unique |-> unique])

(* transformSubquery: its FROM gets an alias no query around has taken. *)
Subquery(cx, q) ==
    LET sub(taken) ==
            Result(taken.cx, Statement(q, taken.cx.outer \cup taken.cx.used, taken.out))
    IN sub(IF q.alias = "" /\ q.from # <<>> THEN TakeAlias(cx, Last(q.from).id)
           ELSE Result(cx, <<>>))

(* getWhereExistsSubquery: the rows `to` of one step, linked to the rows   *)
(* in front.  A filter with paths is translated as the WHERE of a query of *)
(* its own, whose joins are inner ones.                                    *)
WhereExistsSubquery(cx, link, entity, to, on, filter) ==
    LET body == [Query EXCEPT !.from = <<Step(entity)>>, !.where = filter, !.inner = TRUE,
                              !.columns = <<[Val(1) EXCEPT !.as = <<"1">>]>>]
        own == Statement(body, (cx.outer \cup cx.used) \ {to}, to)
        base == [NoBase EXCEPT !.host = Definitions[entity], !.alias = to]
        wrapped == IF filter # NoTokens /\ ~IsManaged(link) THEN Wrapped(on) ELSE on
        plain == [own EXCEPT !.from = <<Source(entity, to, "left", NoTokens)>>]
    IN IF filter = NoTokens THEN Result(cx, [plain EXCEPT !.where = on])
       ELSE IF PathInFilter(Definitions[entity], filter)
       THEN Result(cx, [own EXCEPT !.where = wrapped \o <<Op("and")>> \o Wrapped(own.where)])
       ELSE Mapped(Tokens(cx, filter, base), LAMBDA tokens :
                   [plain EXCEPT !.where = wrapped \o <<Op("and")>> \o Wrapped(tokens)])

(* The path behind EXISTS, step by step; a structure is skipped, and with  *)
(* it the filter of the association behind it.                             *)
AfterStructure(links, i) ==
    LET behind == {k \in AssocSteps(links) : k >= i + 2}
    IN IF ~IsStructured(links[i]) THEN i
       ELSE IF behind = {} THEN 2 ELSE FirstOf(behind) - i + 1
AndExists(query, rest) ==
    Result(rest.cx, [query EXCEPT !.where = @ \o <<Op("and"), Op("exists"), Sub(rest.out)>>])
Exists(cx, base, path, i, from) ==
    LET links == Linked(HostOf(cx, base), path)
        at == AfterStructure(links, i)
        taken == TakeAlias(cx, path[at].id)
        on == OnCondFor(links[at], from, taken.out)
        behind(here) == IF at = Len(path) THEN here
                        ELSE AndExists(here.out, Exists(here.cx, base, path, at + 1, taken.out))
    IN behind(WhereExistsSubquery(taken.cx, links[at], links[at].target, taken.out, on,
                                  path[i].where))

(* resolveCalculatedElement: the value of the element, relative to the     *)
(* last association of the path in front of it.                            *)
CalculatedBase(cx, base, path, links) ==
    LET last == LastOf(AssocSteps(links))
        e == Last(links)
    IN [host |-> IF last = 0 THEN HostOf(cx, base) ELSE Definitions[links[last].target],
        alias |-> IF last = 0 THEN base.alias
                  ELSE cx.nodes[NodeAt(cx, base, path, last)].alias,
        at |-> cx.calcAt[e], isCalc |-> TRUE]
Calculated(cx, base, path, links) ==
    Mapped(Tokens(cx, Last(links).value, CalculatedBase(cx, base, path, links)), LAMBDA value :
           IF Len(value) = 1 THEN value[1] ELSE Xpr(value))

(* calculateDollarSelfColumn: $self.x stands for what column x stands for. *)
RECURSIVE SelfColumn(_, _)
SelfColumn(q, token) ==
    IF token.t # "ref" \/ ~OfSelf(token.ref) THEN token
    ELSE LET named == {i \in DOMAIN q.columns :
                        q.columns[i].t # "star" /\ q.columns[i].as # <<>> /\
                        ColumnName(q.columns[i]) = token.ref[2].id}
                      \cup {i \in DOMAIN q.columns :
                        q.columns[i].t = "ref" /\ q.columns[i].as = <<>> /\
                        ColumnName(q.columns[i]) = token.ref[2].id /\ q.columns[i] # token}
             column == q.columns[FirstOf(named)]
         IN SelfColumn(q, IF column.t = "ref"
                          THEN [token EXCEPT !.ref = column.ref \o SubSeq(@, 3, Len(@))]
                          ELSE [column EXCEPT !.as = token.as])

(* One path in an expression. *)
TransformPath(cx, base, path, links) ==
    IF IsCalculated(Last(links))
    THEN Mapped(Calculated(cx, base, path, links), LAMBDA value : <<value>>)
    ELSE Result(cx, OperandColumns(cx, base, path, links))
TransformRef(cx, base, token) ==
    LET path == IF HasBase(base) THEN token.ref ELSE Unqualified(cx, token.ref)
    IN IF InOuter(cx, token.ref)
       THEN Result(cx, <<Col(<<token.ref[1].id, 1>>, Tail(Ids(token.ref)))>>)
       ELSE IF OfSelf(token.ref) THEN Tokens(cx, <<SelfColumn(cx.q, token)>>, base)
       ELSE TransformPath(cx, base, path, Linked(HostOf(cx, base), path))

(* findEnumDefinition: the symbol #s of the nearest element in front, or   *)
(* else behind.  In a list it is that of the list.                         *)
EnumOf(cx, base, tokens, i) ==
    LET refs == {j \in DOMAIN tokens : tokens[j].t = "ref"}
        enum(j) == Leaf(HostOf(cx, base), Unqualified(cx, tokens[j].ref)).enum
        before == LastOf({j \in refs : j < i})
        after == FirstOf({j \in refs : j > i})
    IN IF before > 0 /\ enum(before) # <<>> THEN enum(before) ELSE enum(after)
Resolved(enum, token) == IF token.t = "enum" THEN Val(enum[token.op]) ELSE token

HasEnum(tokens) == \E i \in DOMAIN tokens : tokens[i].t = "enum"

Comparisons == {"=", "==", "!=", "<", ">"}
(* getTransformedTokenStream.  `x in ()` becomes a comparison with NULL,   *)
(* spliced into what is translated so far at the place it has in the       *)
(* source.                                                                 *)
TransformTokens(cx, tokens, i, out, base) ==
    LET token == tokens[i]
        emit(result, n) == TokensFrom(result.cx, tokens, i + n, out \o result.out, base)
        precedes(n, o) == i > n /\ IsOp(tokens[i - n], o)
    IN IF i > Len(tokens) THEN Result(cx, out)
       ELSE IF IsOp(token, "exists") /\ tokens[i + 1].t = "ref"
       THEN LET path == tokens[i + 1].ref
                from == IF HasBase(base) THEN base.alias ELSE cx.alias
            IN emit(Mapped(Exists(cx, base, Unqualified(cx, path), 1, from),
                           LAMBDA sub : <<token, Sub(sub)>>), 2)
       ELSE IF token.t = "list" /\ token.xpr = <<>> /\ precedes(2, "not")
       THEN TokensFrom(cx, tokens, i + 1,
                SubSeq(out, 1, i - 3) \o <<Op("is"), Op("not"), Op("null")>>
                    \o SubSeq(out, i, Len(out)), base)
       ELSE IF token.t = "list" /\ token.xpr = <<>> /\ precedes(1, "in")
       THEN TokensFrom(cx, tokens, i + 1,
                SubSeq(out, 1, i - 2) \o <<Op("="), Val(Null)>> \o SubSeq(out, i, Len(out)), base)
       ELSE IF Len(tokens) = 1 /\ token.t = "val" /\ token.val > 0 /\ HasBase(base) /\ ~base.isCalc
       THEN emit(Result(cx, <<[Col(base.alias, PrimaryKey(base.host)[1]) EXCEPT !.notNull = TRUE],
                              Op("="), token>>), 1)
       ELSE IF /\ i + 2 <= Len(tokens) /\ tokens[i + 1].op \in Comparisons
               /\ \/ IsFlat(cx, base, token)
                  \/ IsFlat(cx, base, tokens[i + 2])
       THEN LET among(expanded) == IF i > 1 \/ i + 2 < Len(tokens) THEN <<Xpr(expanded)>> ELSE expanded
            IN emit(Result(cx, among(ExpandComparison(cx, base, token, tokens[i + 1], tokens[i + 2]))), 3)
       ELSE CASE token.t = "ref" -> emit(TransformRef(cx, base, token), 1)
              [] token.t = "query" ->
                    emit(Mapped(Subquery(cx, token.query), LAMBDA sub : <<[token EXCEPT !.query = sub]>>), 1)
              [] token.t = "enum" ->
                    emit(Result(cx, <<Resolved(EnumOf(cx, base, tokens, i), token)>>), 1)
              [] token.t = "list" /\ HasEnum(token.xpr) ->
                    LET enum == EnumOf(cx, base, tokens, i)
                    IN emit(Result(cx, <<List([j \in DOMAIN token.xpr |->
                                                 Resolved(enum, token.xpr[j])])>>), 1)
              [] token.t \in {"xpr", "func"} \/ (token.t = "list" /\ ~HasEnum(token.xpr)) ->
                    emit(Mapped(Tokens(cx, token.xpr, base), LAMBDA xpr : <<[token EXCEPT !.xpr = xpr]>>), 1)
              [] OTHER -> emit(Result(cx, <<token>>), 1)

(* translateAssocsToJoins: a table for every node that is not only a       *)
(* foreign key, in the order of the tree.  The join of the first child of  *)
(* the root is that of the root, and that of the next children is the one  *)
(* of the child before.                                                    *)
Children(cx, key) ==
    SelectSeq(cx.order, LAMBDA k : Len(k) = Len(key) + 1 /\ Front(k) = key)
RECURSIVE NextAssoc(_, _), Branch(_, _, _)
NextAssoc(cx, key) ==
    IF IsAssoc(cx.nodes[key].elem) /\ ~cx.nodes[key].fk THEN key
    ELSE LET below == Children(cx, key)
             found == {i \in DOMAIN below : NextAssoc(cx, below[i]) # <<>>}
         IN IF found = {} THEN <<>> ELSE NextAssoc(cx, below[FirstOf(found)])
Branch(result, key, join) ==
    LET cx == result.cx
        next == NextAssoc(cx, key)
        node == cx.nodes[next]
        host == IF Len(key) = 1 THEN cx.alias ELSE cx.nodes[Front(key)].alias
        on == OnCondFor(node.elem, host, node.alias)
        filter == Tokens(cx, Last(next).where, [NoBase EXCEPT !.host = TargetOf(node.elem),
                                                              !.alias = node.alias])
        table == Source(node.elem.target, node.alias, join,
                        IF Last(next).where = NoTokens THEN on ELSE AndWhere(on, filter.out))
    IN IF next = <<>> \/ \E i \in DOMAIN result.out : result.out[i].alias = node.alias
       THEN result
       ELSE FoldLeft(LAMBDA acc, child : Branch(acc, child, acc.cx.nodes[child].join),
                     Result(filter.cx, Append(result.out, table)), Children(cx, key))
WithJoins(cx, from) ==
    LET roots == Children(cx, <<>>)
    IN FoldLeftDomain(LAMBDA acc, i :
            Branch(acc, roots[i], IF i = 1 THEN cx.join ELSE cx.nodes[roots[i - 1]].join),
            Result(cx, from), roots)

(* getTransformedFrom: only the rows of the last step are selected, those  *)
(* a row of the step in front leads to.                                    *)
BeforeStructure(links, i) ==
    IF ~IsStructured(links[i - 1]) THEN i - 1
    ELSE Len(links) - i + LastOf({k \in 1..(i - 2) : k = 1 \/ IsAssoc(links[k])})
RECURSIVE FromExists(_, _, _, _)
FromExists(cx, links, i, alias) ==
    LET path == cx.q.from
        next == BeforeStructure(links, i)
        technical == TechnicalAlias[path[next].id]
        taken == IF cx.q.expand /\ alias[1] # technical THEN Result(cx, <<technical, 1>>)
                 ELSE TakeAlias(cx, path[next].id)
        before(here) == IF next = 1 THEN here
                        ELSE AndExists(here.out, FromExists(here.cx, links, next, taken.out))
    IN before(WhereExistsSubquery(taken.cx, links[i], Name(TargetOf(links[next])), taken.out,
                                  OnCondFor(links[i], taken.out, alias), path[i - 1].where))

IsKeyShortcut(where) == Len(where) = 1 /\ where[1].t = "val" /\ where[1].val # 0
IsLong(f) == Len(f) > 3 \/ \E i \in DOMAIN f : f[i].op \in {"or", "and", "in"}
(* The condition on the rows of FROM, in front of the WHERE of the query. *)
Glued(filters, IsWrapped(_)) ==
    [i \in DOMAIN filters |-> IF Len(filters) > 1 \/ IsWrapped(filters[i])
                              THEN <<Xpr(filters[i])>> ELSE filters[i]]
FromCondition(cx, links, filters) ==
    IF Len(links) = 1
    THEN Result(cx, Between(Reverse(Glued(filters, LAMBDA f : FALSE)), Op("and")))
    ELSE Mapped(FromExists(cx, links, Len(links), cx.alias), LAMBDA exists :
            Between(<<<<Op("exists"), Sub(exists)>>>> \o Glued(filters, IsLong), Op("and")))
From(cx, where) ==
    LET path == cx.q.from
        base == [NoBase EXCEPT !.host = cx.source, !.alias = cx.alias]
        key == IF IsKeyShortcut(Last(path).where)
               THEN <<Tokens(cx, Last(path).where, base).out>> ELSE <<>>
    IN FromCondition(cx, Linked([Elem EXCEPT !.elements = <<Definitions[path[1].id]>>], path),
                     key \o (IF where = NoTokens THEN <<>> ELSE <<where>>))

(* Columns.  `later` are those that are translated after all others.       *)
NameOf(cx, col) == IF col.as # <<>> THEN col.as
                   ELSE IF col.t = "ref" THEN Ids(Unqualified(cx, col.ref)) ELSE <<col.op>>
LastName(col) == IF col.as # <<>> THEN Last(col.as)
                 ELSE IF col.t = "ref" THEN Last(col.ref).id ELSE col.op
LastNames(columns) == {LastName(columns[i]) : i \in DOMAIN columns}
Placed(columns, as) == SelectInSeq(columns, LAMBDA c : c.as = as)
AddColumn(columns, column) ==
    IF Placed(columns, column.as) = 0 THEN Append(columns, column) ELSE columns
PutColumn(columns, column) ==
    IF Placed(columns, column.as) = 0 THEN Append(columns, column)
    ELSE ReplaceAt(columns, Placed(columns, column.as), column)
Later(col) == [Token EXCEPT !.t = "later", !.query = col]

(* getFlatColumnsFor for a wildcard: a name in front of it is left out,    *)
(* one behind it takes the place of the element, however deep.             *)
RECURSIVE WildcardOf(_, _, _, _, _, _)
Replacement(cx, col) ==
    IF col.t = "ref" /\ col.expand = <<>> THEN RefColumns(cx, col) ELSE <<[col EXCEPT !.as = NameOf(cx, col)]>>
WildcardLeaf(cx, base, links, alias, as, exclude, replace) ==
    LET e == Last(links)
        replacement == SelectInSeq(replace, LAMBDA c : LastName(c) = Name(e))
    IN IF (IsAssoc(e) /\ ~IsManaged(e)) \/ Name(e) \in LastNames(exclude) THEN <<>>
       ELSE IF replacement > 0 THEN Replacement(cx, replace[replacement])
       ELSE IF IsStructured(e)
       THEN FlattenSeq(Each(e.elements, LAMBDA part :
                WildcardOf(cx, Append(base, Step(Name(part))), alias,
                           IF as = <<>> THEN <<>> ELSE Append(as, Name(part)), exclude, replace)))
       ELSE FlatColumns(cx, NoBase, base, links, alias, as)
WildcardOf(cx, base, alias, as, exclude, replace) ==
    WildcardLeaf(cx, base, Linked(cx.source, base), alias, as, exclude, replace)

(* The value of a calculated element without a path to it. *)
Unreached(cx, e) == Calculated(cx, NoBase, <<Step(Name(e))>>, <<e>>)

(* getColumnsForWildcard *)
WildcardColumn(acc, e, exclude, replace) ==
    IF IsCalculated(e)
    THEN Added(acc, Mapped(Unreached(acc.cx, e), LAMBDA value : <<As(value, <<Name(e)>>)>>))
    ELSE Result(acc.cx, acc.out \o WildcardOf(acc.cx, <<Step(Name(e))>>, acc.cx.alias, <<>>,
                                              exclude, replace))
WildcardColumns(cx, exclude, replace) ==
    FoldLeft(LAMBDA acc, e : WildcardColumn(acc, e, exclude, replace), Result(cx, <<>>),
             cx.source.elements)

RECURSIVE Settle(_, _), GroupByExpand(_, _, _, _)

(* expandAssociationWildcard: the foreign keys from the table in front,    *)
(* everything else from the joined table.                                  *)
JoinedColumns(e, joined, as) ==
    Each(FlatNames(e), LAMBDA flat : As(Column(joined, flat, FlatElement(e, flat)), as \o flat))
JoinedElement(acc, e, keys, joined, as, exclude, replace) ==
    LET replacement == SelectInSeq(replace, LAMBDA c : LastName(c) = Name(e))
    IN IF Contains(keys, Name(e)) \/ (IsAssoc(e) /\ ~IsManaged(e)) \/ Name(e) \in LastNames(exclude)
       THEN acc
       ELSE IF replacement > 0
       THEN Added(acc, ColumnsFor(acc.cx, <<[replace[replacement] EXCEPT !.as = Append(as, Name(e))]>>))
       ELSE IF IsCalculated(e)
       THEN Added(acc, Mapped(Unreached(acc.cx, e), LAMBDA value : <<As(value, Append(as, Name(e)))>>))
       ELSE Result(acc.cx, acc.out \o JoinedColumns(e, joined, as))
AssociationWildcard(cx, base, as, exclude, replace) ==
    LET links == Linked(cx.source, base)
        assoc == Last(links)
    IN FoldLeft(LAMBDA acc, e : JoinedElement(acc, e, assoc.keys, cx.nodes[base].alias, as,
                                              exclude, replace),
                Result(cx, WildcardOf(cx, base, TableAlias(cx, NoBase, base, links), <<>>,
                                      exclude, replace)),
                ElementsOf(assoc))

(* nestedProjectionOnStructure, for inline and for an expand of a          *)
(* structure.                                                              *)
Absolute(base, col) == IF col.t = "ref" THEN [col EXCEPT !.ref = base \o @] ELSE col
RECURSIVE AbsoluteTokens(_, _)
AbsoluteTokens(base, tokens) ==
    [i \in DOMAIN tokens |->
        IF tokens[i].t = "xpr" THEN [tokens[i] EXCEPT !.xpr = AbsoluteTokens(base, @)]
        ELSE Absolute(base, tokens[i])]
InlinedStar(cx, base, as, exclude, replace) ==
    IF IsAssoc(Leaf(cx.source, base))
    THEN AssociationWildcard(cx, base, as, exclude, replace)
    ELSE Result(cx, WildcardOf(cx, base, TableAlias(cx, NoBase, base, Linked(cx.source, base)),
                               IF as = Ids(base) THEN <<>> ELSE as, exclude, replace))
InlinedColumn(acc, base, as, nested, i) ==
    LET col == nested[i]
        name == as \o NameOf(acc.cx, col)
    IN CASE col.t = "star" ->
                Added(acc, InlinedStar(acc.cx, base, as, Before(nested, i),
                                       AbsoluteTokens(base, After(nested, i))))
         [] col.t = "ref" ->
                Mapped(ColumnsFor(acc.cx, <<[Absolute(base, col) EXCEPT !.as = name]>>),
                       LAMBDA columns : FoldLeft(AddColumn, acc.out, columns))
         [] col.t = "xpr" ->
                Mapped(Tokens(acc.cx, AbsoluteTokens(base, col.xpr), NoBase),
                       LAMBDA xpr : AddColumn(acc.out, [col EXCEPT !.as = name, !.xpr = xpr]))
         [] OTHER -> Result(acc.cx, AddColumn(acc.out, As(col, name)))
Inlined(cx, base, as, nested) ==
    FoldLeftDomain(LAMBDA acc, i : InlinedColumn(acc, base, as, nested, i), Result(cx, <<>>), nested)

(* expandColumn: a query from the entity along the path, whose condition   *)
(* on the rows in front becomes one on the row of this query.              *)
RECURSIVE Replaced(_, _, _)
Replaced(tokens, old, new) ==
    [i \in DOMAIN tokens |->
        IF tokens[i].t = "col" /\ tokens[i].alias = old THEN [tokens[i] EXCEPT !.alias = new]
        ELSE [tokens[i] EXCEPT !.xpr = Replaced(@, old, new)]]
RECURSIVE Correlated(_, _)
Correlated(where, outer) ==
    LET at == FirstOp(where, "exists")
        inner == where[at + 1].query
        last == FirstOp(inner.where, "exists") = 0
    IN Before(where, at)
       \o (IF last THEN Replaced(inner.where, inner.from[1].alias, outer)
           ELSE <<where[at], [where[at + 1] EXCEPT !.query.where = Correlated(@, outer)]>>)
       \o After(where, at + 1)

ExpandColumn(cx, col) ==
    LET path == Unqualified(cx, col.ref)
        links == Linked(cx.source, path)
        relevant == IsJoinRelevant(cx.source, path, TRUE)
        joined == LastOf(AssocSteps(Front(links)))
        outer == IF relevant THEN cx.nodes[SubSeq(path, 1, joined)].alias ELSE cx.alias
        from == IF relevant
                THEN <<Step(links[joined].target)>> \o SubSeq(path, joined + 1, Len(path))
                ELSE <<Step(Name(cx.source))>> \o path
        as == IF col.as # <<>> THEN col.as ELSE Ids(path)
        taken == TakeAlias(cx, Head(as))
        modifiers == IF col.query = <<>> THEN Query ELSE col.query
        query == Statement([modifiers EXCEPT !.from = from, !.columns = col.expand,
                                                  !.expand = TRUE, !.one = Last(links).one],
                                taken.cx.outer \cup taken.cx.used, taken.out)
    IN Result(taken.cx, <<As(Sub([query EXCEPT !.where = Correlated(@, outer)]), as)>>)

(* _subqueryForGroupBy: the columns of the expand must be in GROUP BY; no  *)
(* table is read for them.                                                 *)
GroupByExpand(cx, col, base, as) ==
    LET path(c) == base \o c.ref
        column(c) ==
            IF c.t # "ref" THEN <<c>>
            ELSE IF c.expand # <<>> THEN GroupByExpand(cx, c, path(c), NameOf(cx, c))
            ELSE RefColumns(cx, [Ref(path(c)) EXCEPT !.as = NameOf(cx, c)])
        sub(columns) == IF columns = <<>> THEN <<>>
                        ELSE <<As(Sub([Query EXCEPT !.columns = columns, !.expand = TRUE,
                                                    !.one = Leaf(cx.source, base).one]), as)>>
    IN IF Contains(col.expand, Star) THEN <<>>
       ELSE sub(FlattenSeq([i \in DOMAIN col.expand |-> column(col.expand[i])]))

(* A column that is put off: an expand, or a subquery. *)
Postponed(cx, col) ==
    LET base == Unqualified(cx, col.ref)
        as == IF col.as # <<>> THEN col.as ELSE Ids(base)
    IN IF col.t = "query" THEN Mapped(Subquery(cx, col.query), LAMBDA sub : <<[col EXCEPT !.query = sub]>>)
       ELSE IF ~IsAssoc(Leaf(cx.source, base)) THEN Inlined(cx, base, as, col.expand)
       ELSE IF cx.q.groupBy # <<>> THEN Result(cx, GroupByExpand(cx, col, base, as))
       ELSE ExpandColumn(cx, col)
(* They take the place of a column of the same name. *)
Settle(acc, i) ==
    LET columns == acc.out
        place(result) ==
            LET at == Placed(columns, result.out[1].as)
            IN IF Len(result.out) # 1
               THEN Settle(Result(result.cx, Before(columns, i) \o result.out \o After(columns, i)),
                           i + Len(result.out))
               ELSE IF at = 0
               THEN Settle(Result(result.cx, ReplaceAt(columns, i, result.out[1])), i + 1)
               ELSE Settle(Result(result.cx, RemoveAt(ReplaceAt(columns, at, result.out[1]), i)), i)
    IN IF i > Len(columns) THEN acc
       ELSE IF columns[i].t # "later" THEN Settle(acc, i + 1)
       ELSE place(Postponed(acc.cx, columns[i].query))

(* getTransformedColumns *)
TransformColumnPath(acc, col, path, links) ==
    LET as == IF col.as # <<>> THEN col.as ELSE Ids(path)
    IN IF OfSelf(col.ref) THEN Added(acc, ColumnsFor(acc.cx, <<SelfColumn(acc.cx.q, col)>>))
       ELSE IF col.expand # <<>> THEN Result(acc.cx, Append(acc.out, Later(col)))
       ELSE IF col.inline # <<>> THEN Added(acc, Inlined(acc.cx, path, as, col.inline))
       ELSE IF ~IsCalculated(Last(links))
       THEN Result(acc.cx, FoldLeft(AddColumn, acc.out, ColumnsOfPath(acc.cx, path, links, col.as)))
       ELSE IF Placed(acc.out, <<LastName(col)>>) > 0 THEN acc
       ELSE Added(acc, Mapped(Calculated(acc.cx, NoBase, path, links), LAMBDA value : <<As(value, as)>>))
TransformColumn(acc, columns, i) ==
    LET col == columns[i]
        path == Unqualified(acc.cx, col.ref)
    IN CASE col.t = "star" ->
                Added(acc, WildcardColumns(acc.cx, Before(columns, i), After(columns, i)))
         [] col.t = "query" -> Result(acc.cx, Append(acc.out, Later(col)))
         [] col.t = "ref" -> TransformColumnPath(acc, col, path, Linked(acc.cx.source, path))
         [] OTHER -> Mapped(Tokens(acc.cx, <<[col EXCEPT !.as = NameOf(acc.cx, col)]>>, NoBase),
                            LAMBDA other : PutColumn(acc.out, other[1]))
TransformColumns(cx, columns) ==
    Settle(FoldLeftDomain(LAMBDA acc, i : TransformColumn(acc, columns, i), Result(cx, <<>>), columns), 1)

(* getTransformedOrderByGroupBy: what names a column of the query is that  *)
(* column, without a table.                                                *)
TransformKey(acc, col, self, inOrderBy) ==
    LET path == Unqualified(acc.cx, self.ref)
        scalar == self.t = "ref" /\ ~IsCalculated(Leaf(acc.cx.source, path))
        keys == IF scalar THEN Result(acc.cx, RefColumns(acc.cx, self))
                ELSE Tokens(acc.cx, <<self>>, NoBase)
    IN IF inOrderBy /\ OfColumns(acc.cx.q, col)
       THEN Result(acc.cx, Append(acc.out, [Col(<<>>, Ids(col.ref)) EXCEPT !.desc = col.desc]))
       ELSE Added(acc, Mapped(keys, LAMBDA columns : Each(columns, LAMBDA c : [c EXCEPT !.desc = col.desc])))
TransformKeys(cx, keys, inOrderBy) ==
    FoldLeft(LAMBDA acc, col : TransformKey(acc, col, SelfColumn(acc.cx.q, col), inOrderBy),
             Result(cx, <<>>), keys)

(* In a grouped query the columns are searched, and aggregates too. *)
SearchColumns(q, entity) ==
    LET column(c) == IF c.t \in {"func", "xpr"} THEN <<[c EXCEPT !.as = <<>>]>>
                     ELSE IF TextOf(entity, c.ref) THEN <<Ref(c.ref)>> ELSE <<>>
        paths == SearchPaths(entity)
    IN IF q.groupBy # <<>> THEN FlattenSeq([i \in DOMAIN q.columns |-> column(q.columns[i])])
       ELSE [i \in DOMAIN paths |-> Ref(paths[i])]

(* getSearch: a search along associations selects the keys in a subquery. *)
IsPlainSearch(q, entity, columns) ==
    q.groupBy # <<>> \/ PrimaryKey(entity) = <<>> \/ \A i \in DOMAIN columns : Len(columns[i].ref) = 1
SearchTerm(q, entity, columns) ==
    LET func == Func("search", <<IF Len(columns) = 1 THEN columns[1] ELSE List(columns)>> \o q.search)
        pk == PrimaryKey(entity)
        keys == [i \in DOMAIN pk |-> Ref(<<Step(pk[i][1])>>)]
        sub == [Query EXCEPT !.from = <<Step(Name(entity))>>, !.columns = keys, !.where = <<func>>]
    IN IF IsPlainSearch(q, entity, columns) THEN <<func>>
       ELSE <<IF Len(keys) = 1 THEN keys[1] ELSE List(keys), Op("in"), Sub(sub)>>
(* transformSearch: one in aggregates goes to HAVING. *)
Searching(q, entity, columns) ==
    LET term == SearchTerm(q, entity, columns)
        with(tokens) == IF tokens = NoTokens THEN term
                        ELSE <<Xpr(q.where), Op("and")>>
                             \o (IF IsPlainSearch(q, entity, columns) THEN term ELSE <<Xpr(term)>>)
    IN IF columns = <<>> THEN q
       ELSE IF q.groupBy # <<>> /\ \E i \in DOMAIN columns : columns[i].t # "ref"
       THEN [q EXCEPT !.having = with(@)]
       ELSE [q EXCEPT !.where = with(@)]
WithSearch(q, entity) ==
    IF q.search = NoTokens THEN q ELSE Searching(q, entity, SearchColumns(q, entity))

\* Mutant of ByKey: the keys are not matched.
ByKeyOfAll(cx, q) ==
    LET alias == NextAlias(cx, cx.alias[1])
    IN [q EXCEPT !.from = <<Source(Name(cx.source), alias, "", NoTokens)>>, !.where = <<>>]
(* UPDATE and DELETE along associations: by the keys of the rows a query   *)
(* of its own finds.  It may use the alias again that they are given.      *)
ByKey(cx, q) ==
    LET alias == NextAlias(cx, cx.alias[1])
        pk == PrimaryKey(cx.source)
        keys == [i \in DOMAIN pk |-> Ref(<<Step(pk[i][1])>>)]
        sub == [Query EXCEPT !.from = q.from, !.alias = q.alias, !.where = q.where, !.columns = keys]
    IN [q EXCEPT !.from = <<Source(Name(cx.source), alias, "", NoTokens)>>,
                 !.where = <<List([i \in DOMAIN pk |-> Col(alias, pk[i])]),
                             Op("in"), Sub(Statement(sub, {}, <<>>))>>]

(* The clauses of a SELECT one after the other; `from` has its condition. *)
TransformClause(acc, name, table) ==
    Mapped(CASE name = "columns" ->
                    ColumnsFor(acc.cx, IF acc.out.columns = <<>> THEN <<Star>> ELSE acc.out.columns)
             [] name = "having" -> Tokens(acc.cx, acc.out.having, NoBase)
             [] name \in {"groupBy", "orderBy"} -> TransformKeys(acc.cx, acc.out[name], name = "orderBy")
             [] name = "from" -> WithJoins(acc.cx, table),
           LAMBDA transformed : [acc.out EXCEPT ![name] = transformed])
TransformSelect(from, table) ==
    FoldLeft(LAMBDA acc, name : TransformClause(acc, name, table),
             Mapped(from, LAMBDA where : [from.cx.q EXCEPT !.where = where, !.search = <<>>]),
             <<"columns", "having", "groupBy", "orderBy", "from">>).out

(* cqn4sql itself, on what is inferred.  INSERT and UPSERT only name their *)
(* table.                                                                  *)
TransformModified(from, table) ==
    [from.cx.q EXCEPT !.from = table, !.where = from.out,
                      !.data = Each(@, LAMBDA d : [d EXCEPT !.value = Tokens(from.cx, <<@>>, NoBase).out[1]])]
TransformFrom(where, table) ==
    LET from == From(where.cx, where.out)
    IN IF where.cx.q.kind = "SELECT" THEN TransformSelect(from, table) ELSE TransformModified(from, table)
Transformed(cx) ==
    LET table == <<Source(Name(cx.source), cx.alias, "", NoTokens)>>
    IN IF cx.q.kind \in {"INSERT", "UPSERT"} THEN [cx.q EXCEPT !.from = table]
       ELSE IF cx.q.kind # "SELECT" /\ cx.nodes # <<>> THEN ByKey(cx, cx.q)
       ELSE TransformFrom(Tokens(cx, cx.q.where, NoBase), table)
TransformQuery(query, outer, unique) ==
    LET source == InferTarget(query, outer, unique).source
    IN Transformed(Inferred(WithModifiers(WithSearch(query, source)), outer, unique))

Transform(what, cx, in) ==
    CASE what = "tokens" -> TransformTokens(cx, in.tokens, in.from, in.out, in.base)
      [] what = "columns" -> TransformColumns(cx, in)
      [] what = "query" -> TransformQuery(cx, in.outer, in.unique)
=============================================================================
