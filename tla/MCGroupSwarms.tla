--------------------------- MODULE MCGroupSwarms ---------------------------
(* One node is in two groups, with its base at the last port, so that the  *)
(* port of g1 is past the end; the other is pinned to g2 and is told of    *)
(* itself and, in one of its two lists, first of where the other node is   *)
(* expected, without its name.                                             *)
EXTENDS GroupSwarms

CONSTANTS n1, n2, g1, g2

MCHash == [g \in Group |-> IF g = g1 THEN 7 ELSE 4]

Away == [host |-> n1, port |-> MaxPort, peer |-> NoPeer]
Itself == [host |-> n2, port |-> 2, peer |-> n2]

MCNodeConfigs ==
  {[n \in Node |->
      IF n = n1 THEN [listen |-> MaxPort, pinned_group |-> NoGroup, bootstrap |-> <<>>]
      ELSE [listen |-> 2, pinned_group |-> g2, bootstrap |-> list]] :
     list \in {<<Away, Itself>>, <<Itself>>}}
=============================================================================
