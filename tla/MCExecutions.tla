---------------------------- MODULE MCExecutions ----------------------------
(* What the platform knows, for the runs of Executions: two purchases of   *)
(* the same item and a sale of both, by one user; a later sale; and a      *)
(* purchase of that item by another user.  The first purchase ends after   *)
(* the first sale began.                                                   *)
EXTENDS Executions, TLC

OwnerOf == [e \in Ids |-> IF e = "c1" THEN "v" ELSE "u"]
ItemsOf == [e \in Ids |-> IF e = "s1" THEN <<"x", "x">> ELSE <<"x">>]
TypeOf == [e \in Ids |-> IF e \in {"s1", "s2"} THEN "OUTBOUND" ELSE "INBOUND"]
InitiatedOf == [e \in Ids |-> CASE e = "b2" -> 2 [] e = "s1" -> 3 [] e = "s2" -> 5 [] OTHER -> 1]
UpdatedOf == [e \in Ids |-> IF e = "b1" THEN 4 ELSE InitiatedOf[e]]

\* The sale s1 and the purchase b1 are of the same price.
SimilarOf == {<<"s1", "b1">>}
Pairs == {<<"s1", "b2">>}

Symmetry == Permutations(Handlers)
=============================================================================
