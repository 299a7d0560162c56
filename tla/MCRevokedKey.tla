---------------------------- MODULE MCRevokedKey ----------------------------
(* DeviceRegistry with the history formal/DeviceLink.tla speaks of: the    *)
(* devices whose own member, the one they were linked to, revoked them.    *)
EXTENDS MCDeviceRegistry

KeyLinkPool == {Link(m1, d1, 1, 1), Link(m2, d1, 2, 1)}
KeyRevocationPool == {Revocation(m1, d1)}

VARIABLE retired          \* history: those devices, from when they are out

\* The admitted devices whose member's revocation this update records.
JustRevoked ==
  {l.device : l \in {x \in ActiveLinks : <<x.member, x.device>> \in revoked'}}

HistoryInit == Init /\ retired = {}
HistoryNext == Next /\ retired' = retired \cup (JustRevoked \ Allowed')
HistorySpec == HistoryInit /\ [][HistoryNext]_<<vars, retired>>

\* A device that was admitted, that its own member revoked and that went out is
\* never admitted again, as documented at device.rs:34-36 ("per device KEY and
\* permanent", "even if a later link for it arrives") and in formal/DeviceLink.tla,
\* where no member can link a revoked key.  The code looks a revocation up by member
\* and device (DeviceRegistry::update): another member's link lets the key in again.
RevokedKeyStaysOut == retired \cap Allowed = {}
=============================================================================
