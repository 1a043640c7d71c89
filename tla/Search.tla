------------------------------- MODULE Search --------------------------------
(***************************************************************************)
(* search.js: the elements of an entity that a search looks into.          *)
(***************************************************************************)
EXTENDS Cqn

(* An annotation [path, on] that is on turns the other elements off; one on *)
(* an association searches its target.                                      *)
TextOf(entity, path) == Resolves(entity, path) /\ Leaf(entity, path).text
RECURSIVE SearchPaths(_)
SearchPaths(entity) ==
    LET annotations == entity.search
        isDeep(a) == Len(a.path) > 1 \/ IsAssoc(ElementOf(entity, a.path[1]))
        deep == SelectSeq(annotations, LAMBDA a : isDeep(a) /\ a.on)
        chosen == \E a \in Range(annotations) : a.on /\ (~isDeep(a) \/ Len(a.path) > 1)
        annotated(e, on) == \E a \in Range(annotations) :
                                ~isDeep(a) /\ a.path = <<Name(e)>> /\ a.on = on
        own == SelectSeq(entity.elements, LAMBDA e :
                    \/ annotated(e, TRUE)
                    \/ e.text /\ ~chosen /\ ~IsCalculated(e) /\ ~annotated(e, FALSE))
        path(a) == [i \in DOMAIN a.path |-> Step(a.path[i])]
        below(a) ==
            IF ~Resolves(entity, path(a)) THEN <<>>
            ELSE IF IsAssoc(Leaf(entity, path(a)))
            THEN LET target == SearchPaths(TargetOf(Leaf(entity, path(a))))
                 IN [i \in DOMAIN target |-> path(a) \o target[i]]
            ELSE IF TextOf(entity, path(a)) THEN <<path(a)>> ELSE <<>>
    IN [i \in DOMAIN own |-> <<Step(Name(own[i]))>>]
       \o FlattenSeq([i \in DOMAIN deep |-> below(deep[i])])
=============================================================================
