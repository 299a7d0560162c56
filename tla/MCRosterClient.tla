--------------------------- MODULE MCRosterClient ---------------------------
(* One member with a device key and two links for it; a forged link and a  *)
(* forged revocation.  All three links are more than an update may carry.  *)
EXTENDS RosterClient

CONSTANTS m, d

Link == [member |-> m, device |-> d, wallet |-> m, fields_ok |-> TRUE, issued_at |-> 1,
         label |-> 1, member_sig |-> m, device_sig |-> d, wallet_sig |-> m]

MCLinkPool == {Link, [Link EXCEPT !.issued_at = 2], [Link EXCEPT !.device_sig = m]}

Revocation == [member |-> m, device |-> d, fields_ok |-> TRUE, member_sig |-> m]

MCRevocationPool == {Revocation, [Revocation EXCEPT !.member_sig = d]}

MCRosters == {{[addr |-> Canonical(m), role |-> "member"]}}
=============================================================================
