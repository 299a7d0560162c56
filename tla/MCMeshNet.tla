----------------------------- MODULE MCMeshNet -----------------------------
(* a shares two files with b, which lets d in or puts it out; a does not    *)
(* know d, and d trusts b only.  All of them can reach each other.          *)
EXTENDS MeshNet

CONSTANTS a, b, d, c1, c2

MCAuthors == {<<a, c1>>, <<a, c2>>}

MCLinks == {{a, b}, {b, d}, {a, d}}

MCFirst == [n \in Node |-> CASE n = a -> {b} [] n = b -> {a, d} [] n = d -> {b}]

MCRosters == [n \in Node |-> CASE n = b -> {{a, d}, {a}}
                               [] OTHER -> {}]
=============================================================================
