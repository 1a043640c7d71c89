------------------------------ MODULE MCSessions ------------------------------
(***************************************************************************)
(* Three transactions that have one connection after the other, and two    *)
(* that may have one each.                                                 *)
(***************************************************************************)
EXTENDS Sessions

CONSTANTS t1, t2, t3, c1, c2

MCServices == {"sqlite", "postgres", "hana", "tenants"}
MCSizes == {<<{t1, t2, t3}, {c1}>>, <<{t1, t2}, {c1, c2}>>}
=============================================================================
