---------------------------- MODULE MCProcurement ----------------------------
(* Two lines, the first for a requirement of the project; an edit may drop *)
(* the second.                                                             *)
EXTENDS Procurement, TLC

MCItems == {"a", "b"}
MCQuantity == [a |-> 2, b |-> 1]
MCReqOf == [a |-> "r"]
MCLists == {<<"a", "b">>, <<"a">>}
\* Bound: a second cost entry is created for the first line only.
FewEntries == made["b"] <= 1
Perms == Permutations(Procs)
Line(i, n) == [item |-> i, quantity |-> n]
MCDeliveries == {<<Line("a", 1)>>, <<Line("a", 2), Line("b", 1)>>}
MCTwiceDeliveries == {<<Line("b", 1), Line("b", 1)>>, <<Line("a", 1)>>}
=============================================================================
