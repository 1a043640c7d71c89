----------------------------- MODULE ResultRows -----------------------------
(***************************************************************************)
(* A SELECT with expands runs on HANA as one statement that returns a row  *)
(* for each record of each level, ordered by "_path_" (HANAService.js      *)
(* CQN2HANA.SELECT, SELECT_columns, wrapTemporary).  Two pieces of code    *)
(* put the levels together again: handleLevel of drivers/base.js, as text, *)
(* for streams, and HANAService.parseRows, as objects, for arrays.         *)
(*                                                                         *)
(* A path `$[000001].items[000002` is the sequence <<0, 1, items, 2>>, with*)
(* the properties numbered in the order of their names; `$[000001].items[` *)
(* is it without the last number.  Not modelled: numbers of more than the  *)
(* six digits lpad keeps.                                                  *)
(***************************************************************************)
EXTENDS Naturals, Sequences, FiniteSets, SequencesExt

\* A record: [path, expands, json], where expands tells for each expanded
\* property whether it is "many" or "one", and json the length of "_json_".

RootPath == <<0>>
Parent(path) == SubSeq(path, 1, Len(path) - 2)
IsRoot(path) == Len(path) = 2

\* ORDER BY "_path_": a path comes after those it begins with.
Precedes(p, q) ==
    \/ IsStrictPrefix(p, q)
    \/ \E i \in DOMAIN p \cap DOMAIN q :
          p[i] < q[i] /\ \A j \in 1 .. i - 1 : p[j] = q[j]
Ordered(records) ==
    [k \in 1 .. Cardinality(records) |->
        CHOOSE r \in records : Cardinality({s \in records : Precedes(s.path, r.path)}) = k - 1]

\* What a statement returns: rows in the order of their paths, each a row of
\* the root, or of an expand of a row before it, to the path of which its own
\* path adds the property and a number (CQN2HANA.SELECT).  Where all rows are
\* given the path '$[0', they are numbered as they come.
InPathOrder(rows) ==
    /\ \A i, j \in DOMAIN rows : i < j => Precedes(rows[i].path, rows[j].path)
    /\ \A i \in DOMAIN rows :
          LET path == rows[i].path
          IN  \/ IsRoot(path) /\ path[1] = 0
              \/ \E j \in 1 .. i - 1 :
                    /\ Len(path) = Len(rows[j].path) + 2
                    /\ Parent(path) = rows[j].path
                    /\ path[Len(path) - 1] \in DOMAIN rows[j].expands

\* An expand to one has one row at most (`$$RN$$ = 1`).
OneEach(rows) ==
    \A i, j, k \in DOMAIN rows :
        LET path == rows[i].path
            other == rows[j].path
        IN  /\ i # j
            /\ Len(path) > 2 /\ Len(other) = Len(path)
            /\ Parent(path) = rows[k].path /\ Parent(other) = rows[k].path
            /\ path[Len(path) - 1] = other[Len(path) - 1]
            => rows[k].expands[path[Len(path) - 1]] = "many"

Level(index, suffix, path, expands, hasProperties) ==
    [index |-> index, suffix |-> suffix, path |-> path,
     expands |-> expands, hasProperties |-> hasProperties]

\* The levels a stream begins with; `one` has no brackets.
RootLevels(one) == <<Level(0, IF one THEN <<>> ELSE <<"]">>, RootPath, <<>>, FALSE)>>

\* The current row is a child of the level.
IsBelow(path, level) == IsStrictPrefix(level.path, path)

\* path.slice(level.path.length + 2, -7): the property the row is expanded
\* at, 0 if it is another element of the level.
Property(path, level) == IF Len(path) = Len(level.path) + 2 THEN path[Len(path) - 1] ELSE 0

Without(f, x) == [y \in DOMAIN f \ {x} |-> f[y]]
Comma(needed) == IF needed THEN <<",">> ELSE <<>>

\* Numbers in their order: k - 1 of them precede the k-th.
Ascending(numbers) ==
    [k \in 1 .. Cardinality(numbers) |->
        CHOOSE x \in numbers : Cardinality({y \in numbers : y < x}) = k - 1]

\* Mutant of LeftOver: an expand without rows is left out.
LeftOverNone(level) == <<>>

\* Stepping up from a level: the expands that had no rows are filled in.
LeftOver(level) ==
    IF level.suffix = <<"}">> /\ DOMAIN level.expands # {}
    THEN LET names == Ascending(DOMAIN level.expands)
         IN  FlattenSeq([n \in DOMAIN names |->
                Comma(n > 1 \/ level.hasProperties)
                \o <<names[n], IF level.expands[names[n]] = "many" THEN "[]" ELSE "null">>])
    ELSE <<>>
StepUp(level) == LeftOver(level) \o level.suffix

\* handleLevel: the text between two rows and the levels of the next one.
\* For path = <<>>, the end, all levels are left.
HandleLevel(levels, path, expands) ==
    LET below == {i \in DOMAIN levels : IsBelow(path, levels[i])}
        top == IF below = {} THEN 0 ELSE CHOOSE i \in below : \A j \in below : j <= i
        kept == SubSeq(levels, 1, top)
        left == FlattenSeq([i \in 1 .. Len(levels) - top |-> StepUp(levels[Len(levels) + 1 - i])])
        level == levels[top]
        property == Property(path, level)
        own == Level(0, <<"}">>, path, expands, FALSE)
    IN  IF top = 0 THEN [text |-> left, levels |-> <<>>]
        ELSE IF property # 0 /\ property \in DOMAIN level.expands
        THEN LET many == level.expands[property] = "many"
             IN  [text |-> left \o Comma(level.hasProperties) \o <<property>>
                           \o (IF many THEN <<"[">> ELSE <<>>),
                  levels |-> [kept EXCEPT ![top].expands = Without(@, property),
                                          ![top].hasProperties = TRUE]
                             \o <<Level(1, IF many THEN <<"]">> ELSE <<>>,
                                        SubSeq(path, 1, Len(path) - 1), expands, FALSE), own>>]
        ELSE [text |-> left \o Comma(level.index > 0),
              levels |-> Append([kept EXCEPT ![top].index = @ + 1], own)]

----------------------------------------------------------------------------
(* parseRows: data is referred to by the path of its row                   *)

\* Mutant of Placed: every expand is taken for one to one.
PlacedLast(rows, path, kind) == <<path>>

\* A list is pushed to, the property of an expand to one is set.
Placed(rows, path, kind) == IF kind = "many" THEN Append(rows, path) ELSE <<path>>

\* parsed: [ret, at, levels]: the rows of the result, what became of the
\* properties, as <<path, property>>, and the stack.
ParseRow(parsed, rec) ==
    LET below == {i \in DOMAIN parsed.levels : IsBelow(rec.path, parsed.levels[i])}
        top == IF below = {} THEN 0 ELSE CHOOSE i \in below : \A j \in below : j <= i
        level == parsed.levels[top]
        property == Property(rec.path, level)
        at == <<level.path, property>>
        own == [y \in {<<rec.path, p>> : p \in DOMAIN rec.expands} |-> <<>>]
        put == [x \in DOMAIN parsed.at |->
                  IF x # at THEN parsed.at[x]
                  ELSE Placed(parsed.at[x], rec.path, level.expands[property])]
        merged(f) == [x \in DOMAIN f \cup DOMAIN own |->
                         IF x \in DOMAIN own THEN own[x] ELSE f[x]]
        levels == Append(SubSeq(parsed.levels, 1, top),
                         [path |-> rec.path, expands |-> rec.expands])
    IN  IF top = 0 THEN [parsed EXCEPT !.levels = <<>>]
        ELSE IF property # 0 /\ property \in DOMAIN level.expands
        THEN [parsed EXCEPT !.at = merged(put), !.levels = levels]
        ELSE [ret |-> IF top = 1 THEN Append(parsed.ret, rec.path) ELSE parsed.ret,
              at |-> merged(parsed.at), levels |-> levels]

ParseRows(rows) ==
    FoldLeft(ParseRow,
             [ret |-> <<>>, at |-> <<>>, levels |-> <<[path |-> RootPath, expands |-> <<>>]>>],
             rows)

----------------------------------------------------------------------------
(* What a client is to see of a set of records                             *)

Children(records, path, property) ==
    Ordered({r \in records : Len(r.path) = Len(path) + 2 /\ Parent(r.path) = path
                             /\ r.path[Len(path) + 1] = property})

\* As objects.
Objects(records) ==
    [ret |-> [i \in DOMAIN Children(records, <<>>, 0) |-> Children(records, <<>>, 0)[i].path],
     at  |-> [x \in UNION {{<<r.path, p>> : p \in DOMAIN r.expands} : r \in records} |->
                LET kids == Children(records, x[1], x[2])
                IN  [i \in DOMAIN kids |-> kids[i].path]]]
=============================================================================
