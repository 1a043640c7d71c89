------------------------------- MODULE MCDeep -------------------------------
(***************************************************************************)
(* Orders with items and notes, items with items of their own and          *)
(* positions below them: as deep as the limits, which are set to 2 and 1   *)
(* the way @depth and cds.env.features.recursion_depth set them.           *)
(***************************************************************************)
EXTENDS DeepOperation

MCCompositions == [Root |-> <<"Item", "Note">>, Item |-> <<"Item", "Pos">>,
                   Note |-> <<>>, Pos |-> <<>>]
MCUuid == <<"r", "u2", "u3", "u4", "u5">>

Node(e, k, parent, val, given) ==
    [entity |-> e, key |-> k, parent |-> parent, val |-> val, given |-> given]

MCRequests ==
    {[op |-> "DELETE", data |-> <<>>]}
    \cup {[op |-> "INSERT", data |-> d] : d \in
        {<<Node("Root", None, 0, "a", {})>>,
         <<Node("Root", "r", 0, "a", {"Item", "Note"}),
           Node("Item", None, 1, "a", {"Pos"}), Node("Item", "2", 1, "b", {}),
           Node("Pos", None, 2, "a", {})>>}}
    \cup {[op |-> "UPDATE", data |-> d] : d \in
        {\* no composition
         <<Node("Root", "r", 0, "b", {})>>,
         \* all items, and with them what is below
         <<Node("Root", "r", 0, "a", {"Item"})>>,
         \* one item takes the value of another one that goes
         <<Node("Root", "r", 0, "b", {"Item"}), Node("Item", "1", 1, "b", {})>>,
         \* a new item takes the value of one that changes its own
         <<Node("Root", "r", 0, "a", {"Item", "Note"}), Node("Item", "1", 1, "c", {}),
           Node("Item", None, 1, "a", {})>>,
         \* values are exchanged
         <<Node("Root", "r", 0, "a", {"Item"}), Node("Item", "1", 1, "b", {}),
           Node("Item", "2", 1, "a", {})>>,
         \* a position moves from one item to the other
         <<Node("Root", "r", 0, "a", {"Item"}), Node("Item", "1", 1, "a", {"Pos"}),
           Node("Item", "2", 1, "b", {"Pos"}), Node("Pos", "1", 3, "a", {})>>,
         \* it moves away from an item that goes
         <<Node("Root", "r", 0, "a", {"Item"}), Node("Item", "2", 1, "b", {"Pos"}),
           Node("Pos", "1", 2, "c", {})>>}}

At(id, up, val) == <<id, [up |-> up, val |-> val, modified |-> FALSE]>>
Table(rows) == [id \in {r[1] : r \in rows} |-> (CHOOSE r \in rows : r[1] = id)[2]]

MCDatabases ==
    {Table({}),
     Table({At(Root, None, "a"), At(<<"Note", "1">>, Root, "a"),
            At(<<"Item", "1">>, Root, "a"), At(<<"Pos", "1">>, <<"Item", "1">>, "a")}),
     Table({At(Root, None, "a"),
            At(<<"Item", "1">>, Root, "a"), At(<<"Pos", "1">>, <<"Item", "1">>, "a"),
            At(<<"Item", "2">>, Root, "b"), At(<<"Pos", "2">>, <<"Item", "2">>, "a"),
            At(<<"Item", "3">>, <<"Item", "2">>, "a"),
            At(<<"Item", "4">>, <<"Item", "3">>, "a"),
            At(<<"Pos", "4">>, <<"Item", "4">>, "a")})}

MCOthers == {[id |-> <<"Pos", "x">>, up |-> <<"Item", k>>, val |-> "x"] : k \in {"1", "4"}}
            \cup {[id |-> <<"Item", "x">>, up |-> Root, val |-> "x"]}
=============================================================================
