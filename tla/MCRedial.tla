------------------------------ MODULE MCRedial ------------------------------
(* Two peers and their addresses: a2 leads to peer 2; a1 is an old address *)
(* of peer 1, who now answers at b1; "bare" names nobody.                  *)
EXTENDS Redial

CONSTANTS a1, b1, a2, bare, self

MCPeerOf == [a \in Addr |-> CASE a \in {a1, b1} -> 1 [] a = a2 -> 2
                              [] a = self -> Local [] OTHER -> NoPeer]
MCListener == [a \in Addr |-> CASE a = b1 -> 1 [] a \in {a2, bare} -> 2 [] OTHER -> NoPeer]

Record(p, a) == [peer |-> p, addr |-> a]

\* Lists and records past their limits, one with an address twice, an address that
\* may come again, a seed that is refused for naming this node.
MCStartLists == {<<bare, a2, a1>>, <<a2, a2, b1>>}
MCSeeds == {<<b1>>, <<a2, self>>}
MCFound == {Record(1, a1), Record(1, b1), Record(2, a2), Record(Local, self)}
=============================================================================
