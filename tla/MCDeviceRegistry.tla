-------------------------- MODULE MCDeviceRegistry --------------------------
(* Two members, two device keys, one wallet; links that verify, compete,   *)
(* tie, are forged or name a roster key; revocations, one forged.          *)
EXTENDS DeviceRegistry

CONSTANTS m1, m2, d1, d2, w

Link(m, d, at, label) ==
  [member |-> m, device |-> d, wallet |-> w, fields_ok |-> TRUE, issued_at |-> at,
   label |-> label, member_sig |-> m, device_sig |-> d, wallet_sig |-> w]

MCLinkPool == {
  Link(m1, d1, 1, 1),
  Link(m1, d1, 1, 2),                                  \* re-issued with a new label
  Link(m2, d1, 2, 1),                                  \* the same key, another member
  [Link(m1, d2, 1, 1) EXCEPT !.member_sig = m2],       \* forged
  Link(m1, d2, 1, 1),
  Link(m1, m2, 1, 1) }                                 \* a roster key as a device

Revocation(m, d) == [member |-> m, device |-> d, fields_ok |-> TRUE, member_sig |-> m]

MCRevocationPool == {
  Revocation(m1, d1), Revocation(m1, d2),
  [Revocation(m2, d1) EXCEPT !.member_sig = m1] }      \* forged

As(a, spelling, role) == [addr |-> [body |-> a, spelling |-> spelling], role |-> role]

MCRosters == {
  {As(m1, "canonical", "owner"), As(m2, "0x", "member")},
  {As(m1, "upper", "guest"), As(m1, "canonical", "member"), As(m2, "canonical", "agent")},
  {As(m1, "0X", "owner"), As(Garbage, "canonical", "owner"), As(m2, "padded", "admin")},
  {As(m1, "canonical", "stranger"), As(m2, "canonical", "partner"), As(d2, "0x", "member")},
  {As(m2, "canonical", "member")} }
=============================================================================
