--------------------------- MODULE MCClusterDaemon ---------------------------
(* One member, whose wallet is its own key, with one device key, linked,   *)
(* revoked, and on the roster with and without a cluster role.             *)
EXTENDS ClusterDaemon, TLC

CONSTANTS m, d, g1, g2, g3

Link == [member |-> m, device |-> d, wallet |-> m, fields_ok |-> TRUE, issued_at |-> 1,
         label |-> 1, member_sig |-> m, device_sig |-> d, wallet_sig |-> m]

\* The second one is forged; both together are more than an update may carry.
MCLinkPool == {Link, [Link EXCEPT !.member_sig = d]}

MCRevocationPool == {[member |-> m, device |-> d, fields_ok |-> TRUE, member_sig |-> m]}

As(a, role) == [addr |-> Canonical(a), role |-> role]

MCRosters == {{As(m, "owner")}, {As(m, "guest")}}

\* Nothing tells the named groups apart, nor the CIDs.
Symmetry == Permutations({g1, g2, g3}) \cup Permutations(Cid)
=============================================================================
