------------------------- MODULE MCLibp2pTransport -------------------------
(* Small instances of Libp2pTransport for TLC.                             *)
EXTENDS Libp2pTransport, TLC

\* The safety properties do not tell two peers apart.
PeerSymmetry == Permutations(Peer)
=============================================================================
