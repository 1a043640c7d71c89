-------------------------------- MODULE Cqn ---------------------------------
(***************************************************************************)
(* The notation queries are written in: the linked model the compiler      *)
(* hands to the service (CSN), and the query objects (CQN) with their      *)
(* token streams.  An expression is a flat sequence of tokens, as in the   *)
(* code: `a = 1 or b = 2` is seven tokens, and only an "xpr" token stands  *)
(* for parentheses.  That is why the code has to wrap what it splices.     *)
(*                                                                         *)
(* A value is an integer and Null is one of them.  The name of a column    *)
(* of the database is the sequence of the segments the code joins with     *)
(* "_": <<"author", "ID">> is author_ID.                                   *)
(***************************************************************************)
EXTENDS Integers, Sequences, SequencesExt

CONSTANT Definitions    \* the entities by name: a function to Elem records

Null == -1
NoTokens == <<>>

(* One element of a definition; `full` is its name within the entity, with *)
(* the structures it is nested in.                                         *)
Elem == [kind |-> "scalar", full |-> <<>>, key |-> FALSE, target |-> "", one |-> TRUE,
         keys |-> <<>>, on |-> NoTokens, elements |-> <<>>, value |-> NoTokens,
         text |-> FALSE, search |-> <<>>, enum |-> <<>>,
         default |-> -1, onInsert |-> FALSE, onUpdate |-> FALSE]

Token == [t |-> "op", op |-> "", val |-> 0, ref |-> <<>>, alias |-> <<>>, name |-> <<>>,
          xpr |-> NoTokens, query |-> <<>>, as |-> <<>>, expand |-> <<>>,
          inline |-> <<>>, desc |-> FALSE, notNull |-> FALSE]

Op(o) == [Token EXCEPT !.op = o]
Val(v) == [Token EXCEPT !.t = "val", !.val = v]
Ref(path) == [Token EXCEPT !.t = "ref", !.ref = path]
Xpr(tokens) == [Token EXCEPT !.t = "xpr", !.xpr = tokens]
List(tokens) == [Token EXCEPT !.t = "list", !.xpr = tokens]
Func(f, args) == [Token EXCEPT !.t = "func", !.op = f, !.xpr = args]
Sub(query) == [Token EXCEPT !.t = "query", !.query = query]
Enum(symbol) == [Token EXCEPT !.t = "enum", !.op = symbol]
Star == [Token EXCEPT !.t = "star"]
Named(token, as) == [token EXCEPT !.as = <<as>>]
Inline(path, columns) == [Ref(path) EXCEPT !.inline = columns]
Expand(path, columns) == [Ref(path) EXCEPT !.expand = columns]
Col(alias, name) == [Token EXCEPT !.t = "col", !.alias = alias, !.name = name]

Step(id) == [id |-> id, where |-> NoTokens]
Filter(id, where) == [id |-> id, where |-> where]
Ids(path) == [i \in DOMAIN path |-> path[i].id]

Query == [kind |-> "SELECT", from |-> <<>>, alias |-> "", columns |-> <<>>,
          where |-> NoTokens, groupBy |-> <<>>, having |-> NoTokens,
          orderBy |-> <<>>, limit |-> 0, offset |-> 0, one |-> FALSE, expand |-> FALSE,
          search |-> NoTokens, data |-> <<>>, inner |-> FALSE]

Each(seq, F(_)) == [i \in DOMAIN seq |-> F(seq[i])]
IsOp(token, o) == token.t = "op" /\ token.op = o
HasLogicalOr(tokens) == \E i \in DOMAIN tokens : IsOp(tokens[i], "or")
\* Mutant of Wrapped: no parentheses.
WrappedNever(tokens) == tokens
Wrapped(tokens) == IF HasLogicalOr(tokens) THEN <<Xpr(tokens)>> ELSE tokens

Between(parts, separator) ==
    FlattenSeq([i \in DOMAIN parts |->
        IF i = 1 THEN parts[i] ELSE <<separator>> \o parts[i]])

(* Elements *)

Name(e) == Last(e.full)
IsAssoc(e) == e.kind = "assoc"
IsManaged(e) == IsAssoc(e) /\ e.on = NoTokens
IsStructured(e) == e.kind = "struct"
IsCalculated(e) == e.value # NoTokens

ElementsOf(e) == IF IsAssoc(e) THEN Definitions[e.target].elements ELSE e.elements
ElementOf(e, id) == CHOOSE x \in Range(ElementsOf(e)) : Name(x) = id
TargetOf(e) == IF IsAssoc(e) THEN Definitions[e.target] ELSE e

RECURSIVE Linked(_, _)
Linked(base, path) ==
    LET beyond(e) == <<e>> \o Linked(e, Tail(path))
        link(found) == IF found = {} THEN <<>> ELSE beyond(CHOOSE e \in found : TRUE)
    IN IF path = <<>> THEN <<>>
       ELSE link({e \in Range(ElementsOf(base)) : Name(e) = Head(path).id})
Leaf(base, path) == Last(Linked(base, path))
Resolves(base, path) == Len(Linked(base, path)) = Len(path)

(* The columns an element has in the table of its entity: a structure has  *)
(* those of its elements, a managed association its foreign keys, an       *)
(* unmanaged one and an element calculated on read have none.              *)
RECURSIVE FlatNames(_)
FlatNames(e) ==
    LET below(part) == LET names == FlatNames(part)
                       IN [j \in DOMAIN names |-> <<Name(e)>> \o names[j]]
    IN IF IsCalculated(e) THEN <<>>
       ELSE IF IsStructured(e) THEN FlattenSeq([i \in DOMAIN e.elements |-> below(e.elements[i])])
       ELSE IF IsManaged(e)
       THEN FlattenSeq([i \in DOMAIN e.keys |-> below(ElementOf(e, e.keys[i]))])
       ELSE IF IsAssoc(e) THEN <<>> ELSE <<<<Name(e)>>>>

Columns(entity) == FlattenSeq([i \in DOMAIN entity.elements |-> FlatNames(entity.elements[i])])

(* The keys UPDATE and DELETE use: associations are not among them. *)
PrimaryKey(entity) ==
    LET keys == SelectSeq(entity.elements, LAMBDA e : e.key /\ ~IsAssoc(e))
    IN [i \in DOMAIN keys |-> <<Name(keys[i])>>]
=============================================================================
