------------------------------- MODULE Infer --------------------------------
(***************************************************************************)
(* infer/index.js and infer/join-tree.js: the source of a query, the       *)
(* elements it returns, and the tree of the associations it navigates.     *)
(*                                                                         *)
(* A node of the tree is the path that leads to it, with its filters, so   *)
(* that equal paths share one node.  An association whose node has `fk` is *)
(* only followed to its foreign keys, which the table in front of it has:  *)
(* no join is made for it.  cx is a query with what is inferred of it:     *)
(*   source, alias  the entity and the table alias of FROM                 *)
(*   nodes, order   the nodes, and the order they were merged in           *)
(*   join           the join of the root                                   *)
(*   used, outer    the aliases taken here, and in the queries around      *)
(*   seen           the calculated elements linked so far                  *)
(*   calcAt         the path the references in such an element point to:   *)
(*                  there is one per element, the last one merged          *)
(* An alias is <<name, n>>, n > 1 for the suffix, and names that differ in *)
(* case only are the same.                                                 *)
(***************************************************************************)
EXTENDS Sql

CONSTANT TechnicalAlias     \* the first letter of a name, in one case: "$b"

(* The first free alias for a name.  The names of outer queries are taken. *)
NextAlias(cx, name) ==
    LET free == {n \in 1..(Cardinality(cx.used \cup cx.outer) + 1) :
                    <<name, n>> \notin cx.used \cup cx.outer}
    IN <<name, CHOOSE n \in free : \A m \in free : n <= m>>

(* A path without the table alias in front. *)
Unqualified(cx, path) ==
    IF Len(path) > 1 /\ <<path[1].id, 1>> = cx.alias THEN Tail(path) ELSE path
Qualified(cx, path) == Unqualified(cx, path) # path
OfSelf(path) == Len(path) > 1 /\ path[1].id = "$self"

(* Whether a path needs a join: it leaves an association for something     *)
(* that is not one of its foreign keys.                                    *)
RECURSIVE Relevant(_, _, _, _, _, _)
Relevant(path, links, i, assoc, fk, expand) ==
    IF i > Len(path) THEN assoc # <<>> /\ ~fk
    ELSE LET e == links[i]
             leaf == i = Len(path)
         IN IF IsAssoc(e) /\ e.on # NoTokens THEN IF leaf THEN expand /\ assoc # <<>> ELSE TRUE
            ELSE IF assoc # <<>>
            THEN IF path[i].where = NoTokens /\ Contains(assoc[1].keys, path[i].id)
                 THEN IF \E j \in i..Len(path) : path[j].where # NoTokens
                      THEN Relevant(path, links, i + 1, assoc, fk, expand)
                      ELSE Relevant(path, links, i + 1, <<>>, TRUE, expand)
                 ELSE TRUE
            ELSE IF ~IsAssoc(e) THEN Relevant(path, links, i + 1, assoc, fk, expand)
            ELSE IF path[i].where # NoTokens THEN ~(expand /\ leaf)
            ELSE Relevant(path, links, i + 1, <<e>>, leaf, expand)
IsJoinRelevant(source, path, expand) ==
    Relevant(path, Linked(source, path), 1, <<>>, FALSE, expand)

(* JoinTree.mergeColumn: one step of a path that needs a join.  A filter,  *)
(* an ON condition, or a step that is no foreign key makes joins of all    *)
(* associations in front of it.                                            *)
MergeStep(cx, path, links, i, use) ==
    LET parent == SubSeq(path, 1, i - 1)
        key == SubSeq(path, 1, i)
        e == links[i]
        isForeignKey == i > 1 /\ IsManaged(links[i - 1]) /\ Contains(links[i - 1].keys, Name(e))
        joined == IsAssoc(e) /\ (path[i].where # NoTokens \/ e.on # NoTokens \/ use.inline)
        inner == IF ~use.inner THEN cx
                 ELSE IF i = 1 THEN [cx EXCEPT !.join = "inner"]
                 ELSE [cx EXCEPT !.nodes[parent].join = "inner"]
        node == [elem |-> e, fk |-> IsAssoc(e) /\ ~joined, join |-> "left",
                 alias |-> IF IsAssoc(e) THEN NextAlias(cx, path[i].id) ELSE <<path[i].id, 1>>]
        above == {k \in DOMAIN inner.nodes : Len(k) < i /\ k = SubSeq(path, 1, Len(k))}
        nodes == [k \in DOMAIN inner.nodes |->
                    IF k \in above /\ (joined \/ ~isForeignKey)
                    THEN [inner.nodes[k] EXCEPT !.fk = FALSE] ELSE inner.nodes[k]]
    IN IF key \in DOMAIN inner.nodes THEN inner
       ELSE IF use.expand /\ i = Len(path) THEN [inner EXCEPT !.nodes[parent].fk = FALSE]
       ELSE [inner EXCEPT !.nodes = (key :> node) @@ nodes, !.order = Append(@, key),
                          !.used = IF IsAssoc(e) THEN @ \cup {node.alias} ELSE @]

MergeColumn(cx, path, use) ==
    LET links == Linked(cx.source, path)
    IN FoldLeftDomain(LAMBDA acc, i : MergeStep(acc, path, links, i, use), cx, path)

MergeIfRelevant(cx, path, use) ==
    IF IsJoinRelevant(cx.source, path, use.expand) THEN MergeColumn(cx, path, use) ELSE cx

(* How a path is used: at the end of an expand or an inline, after EXISTS, *)
(* in a filter that joins (see WhereExistsSubquery).                       *)
Plain == [expand |-> FALSE, inline |-> FALSE, exists |-> FALSE, inner |-> FALSE]

(* The paths of the value of a calculated element, below the path of the   *)
(* element.                                                                *)
RECURSIVE MergeValue(_, _, _), LinkCalculated(_, _, _, _)
Pointing(cx, e, base) == [cx EXCEPT !.calcAt = (e :> base) @@ @]
MergePath(cx, path, e) ==
    IF IsCalculated(e)
    THEN MergeIfRelevant(MergeValue(Pointing(cx, e, Front(path)), e.value, Front(path)), Front(path), Plain)
    ELSE MergeIfRelevant(cx, path, Plain)
MergeToken(cx, token, base) ==
    IF token.t \in {"xpr", "func"} THEN MergeValue(cx, token.xpr, base)
    ELSE IF token.t # "ref" THEN cx
    ELSE MergePath(cx, base \o token.ref, Leaf(cx.source, base \o token.ref))
MergeValue(cx, tokens, base) ==
    FoldLeft(LAMBDA acc, token : MergeToken(acc, token, base), cx, tokens)

(* linkCalculatedElement: once per element, however many paths lead to it, *)
(* and joins only for those of the entity the query starts from unless a   *)
(* path leads there.  The calculated elements in its value are linked      *)
(* first, as if they stood at the root.                                    *)
LinkNested(cx, host, token) ==
    IF token.t = "ref" /\ IsCalculated(Leaf(host, token.ref))
    THEN LinkCalculated(cx, Leaf(host, token.ref), Front(token.ref), host = cx.source)
    ELSE cx
LinkCalculated(cx, e, base, rooted) ==
    IF e \in cx.seen THEN cx
    ELSE IF ~rooted THEN [cx EXCEPT !.seen = @ \cup {e}]
    ELSE LET host == TargetOf(IF base = <<>> THEN cx.source ELSE Leaf(cx.source, base))
         IN MergeValue(Pointing(FoldLeft(LAMBDA acc, token : LinkNested(acc, host, token),
                                         [cx EXCEPT !.seen = @ \cup {e}], e.value), e, base),
                       e.value, base)

(* inferArg for one path. *)
LinkLeaf(cx, path, leaf) ==
    IF IsCalculated(leaf) THEN LinkCalculated(cx, leaf, Front(path), TRUE) ELSE cx
InferPath(cx, path, use) ==
    LET unqualified == Unqualified(cx, path)
    IN IF use.exists THEN cx
       ELSE LinkLeaf(MergeIfRelevant(cx, unqualified, use), unqualified, Leaf(cx.source, unqualified))

(* walkTokenStream, and the expressions of columns: what follows EXISTS is *)
(* not joined.                                                             *)
InOuter(cx, path) == Len(path) > 1 /\ <<path[1].id, 1>> \in cx.outer \ {cx.alias}
RECURSIVE InferTokens(_, _, _)
InferTokens(cx, tokens, inner) ==
    FoldLeftDomain(LAMBDA acc, i :
        LET token == tokens[i]
            exists == i > 1 /\ IsOp(tokens[i - 1], "exists")
        IN IF token.t \in {"xpr", "list", "func"} THEN InferTokens(acc, token.xpr, inner)
           ELSE IF token.t # "ref" \/ OfSelf(token.ref) \/ InOuter(cx, token.ref) THEN acc
           ELSE InferPath(acc, token.ref, [Plain EXCEPT !.exists = exists, !.inner = inner]),
        cx, tokens)

(* The calculated elements a wildcard brings along, linked without a path  *)
(* even if it is the wildcard of an inline.                                *)
InferWildcard(cx, host) ==
    FoldLeft(LAMBDA acc, e : IF IsCalculated(e)
                             THEN LinkCalculated(acc, e, <<>>, TargetOf(host) = cx.source) ELSE acc,
             cx, ElementsOf(host))

(* resolveInline: the columns of an inline, and those of the target for    *)
(* `*`, stand below the path of the inline.                                *)
RECURSIVE InferInline(_, _, _)
InlineMember(cx, base, host, e) ==
    IF IsCalculated(e) \/ ~IsAssoc(host) \/ e.on # NoTokens
       \/ (IsManaged(host) /\ Contains(host.keys, Name(e)))
    THEN cx ELSE MergeColumn(cx, Append(base, Step(Name(e))), Plain)
InlineColumn(cx, base, host, col) ==
    IF col.t = "star"
    THEN InferWildcard(FoldLeft(LAMBDA acc, e : InlineMember(acc, base, host, e), cx, ElementsOf(host)), host)
    ELSE InferInline(InferPath(cx, base \o col.ref, [Plain EXCEPT !.inline = col.inline # <<>>]),
                     base \o col.ref, col.inline)
InferInline(cx, base, inline) ==
    LET host == Leaf(cx.source, base)
    IN FoldLeft(LAMBDA acc, col : InlineColumn(acc, base, host, col), cx, inline)

(* inferQueryElements, column by column.  Paths that start with $self are  *)
(* those of other columns, and follow them.                                *)
InferColumn(cx, col) ==
    IF col.t = "star" \/ (col.t = "ref" /\ OfSelf(col.ref)) THEN cx
    ELSE IF col.t = "ref"
    THEN InferPath(IF col.inline = <<>> THEN cx ELSE InferInline(cx, Unqualified(cx, col.ref), col.inline),
                   col.ref,
                   [Plain EXCEPT !.inline = col.inline # <<>>, !.expand = col.expand # <<>>])
    ELSE InferTokens(cx, <<col>>, FALSE)
WithWildcard(cx) ==
    IF cx.q.columns = <<>> \/ Contains(cx.q.columns, Star) THEN InferWildcard(cx, cx.source) ELSE cx
InferColumns(cx) == WithWildcard(FoldLeft(InferColumn, cx, cx.q.columns))

(* A token of ORDER BY that names a column of the query is that column. *)
ColumnName(col) == IF col.as # <<>> THEN col.as[1]
                   ELSE IF col.t = "ref" THEN Last(col.ref).id ELSE col.op
OfColumns(q, token) ==
    token.t = "ref" /\ \E i \in DOMAIN q.columns :
        q.columns[i].t # "star" /\ q.columns[i].expand = <<>> /\ q.columns[i].inline = <<>>
        /\ ColumnName(q.columns[i]) = Head(token.ref).id
OrderByPaths(q) == SelectSeq(q.orderBy, LAMBDA token : ~OfColumns(q, token))

(* inferTarget and the queries around: q stands in a query that has taken  *)
(* the aliases `outer`.                                                    *)
InferTarget(q, outer, unique) ==
    LET links == <<Definitions[q.from[1].id]>> \o Linked(Definitions[q.from[1].id], Tail(q.from))
        alias == IF unique # <<>> THEN unique
                 ELSE IF q.alias # "" THEN <<q.alias, 1>>
                 ELSE <<TechnicalAlias[Last(q.from).id], 1>>
    IN [q |-> q, source |-> TargetOf(Last(links)), alias |-> alias, nodes |-> <<>>,
        order |-> <<>>, join |-> "left", used |-> {alias}, outer |-> outer,
        seen |-> {}, calcAt |-> <<>>]

(* The clauses behind the columns in the order they are walked; `inner`    *)
(* says that the joins they need are inner ones.                           *)
Clauses(q) ==
    <<[tokens |-> OrderByPaths(q), inner |-> FALSE],
      [tokens |-> q.where, inner |-> q.inner],
      [tokens |-> q.groupBy \o q.having, inner |-> FALSE]>>
Inferred(q, outer, unique) ==
    FoldLeft(LAMBDA cx, clause : InferTokens(cx, clause.tokens, clause.inner),
             InferColumns(InferTarget(q, outer, unique)), Clauses(q))
=============================================================================
