--------------------------- MODULE DeviceRegistry ---------------------------
(***************************************************************************)
(* A group's device links and revocations, the roster they widen, and the  *)
(* allowed set the admission gate runs on.  One action: the daemon's       *)
(* set_roster_with_devices, up to the reconcile of the mesh.               *)
(*                                                                         *)
(* A signature is modelled by what verification gets out of it: the        *)
(* address it recovers to over the body it came with (NoAddress if none).  *)
(***************************************************************************)
EXTENDS Roster, FiniteSets

CONSTANTS
  Rosters,                 \* the rosters the client may send
  LinkPool, RevocationPool,    \* the signed items that exist
  MAX_LINKS_PER_UPDATE

\* `fields_ok`: the addresses parse, the index is in range, the label is valid.
SignedDeviceLink ==
  [member : Address, device : Address, wallet : Address,
   fields_ok : BOOLEAN, issued_at : Nat, label : Nat,
   member_sig : Address \cup {NoAddress}, device_sig : Address \cup {NoAddress},
   wallet_sig : Address \cup {NoAddress}]

SignedRevocation ==
  [member : Address, device : Address, fields_ok : BOOLEAN,
   member_sig : Address \cup {NoAddress}]

ASSUME PoolAssumption ==
  /\ \A r \in Rosters : r \subseteq Entry
  /\ LinkPool \subseteq SignedDeviceLink
  /\ RevocationPool \subseteq SignedRevocation
  /\ MAX_LINKS_PER_UPDATE \in Nat

VARIABLES
  roster,        \* GroupDevices::roster, as the client sent it
  links,         \* DeviceRegistry::links, a set holding at most one per device
  revoked,       \* DeviceRegistry::revoked: (member, device) pairs
  offered        \* history: the links of the last update that was not refused

vars == <<roster, links, revoked, offered>>

-----------------------------------------------------------------------------
(* Verification.                                                           *)

\* DeviceLink::new: a device key is neither the member's nor the wallet's.
WellFormed(l) == l.fields_ok /\ l.device # l.member /\ l.device # l.wallet

verify_link(l) ==
  /\ WellFormed(l)
  /\ l.member_sig = l.member
  /\ l.device_sig = l.device
  /\ l.wallet_sig = l.wallet

verify_revocation(r) == r.fields_ok /\ r.member_sig = r.member

-----------------------------------------------------------------------------
(* DeviceRegistry::update.                                                 *)

TooMany(ls, rs) == \/ Cardinality(ls) > MAX_LINKS_PER_UPDATE
                   \/ Cardinality(rs) > MAX_LINKS_PER_UPDATE

\* Two verified links give the device to different members.
Contested(verified, device) ==
  \E a, b \in verified : a.device = device /\ b.device = device /\ a.member # b.member

\* a was issued after b; ties go to the greater label.
Newer(a, b) == \/ a.issued_at > b.issued_at
               \/ a.issued_at = b.issued_at /\ a.label > b.label

\* The links that may be kept for a device.  Two that tie on both fields are
\* told apart by their place in the request, so either may be.
Newest(verified, device) ==
  {l \in verified : l.device = device /\
                    \A m \in verified : m.device = device => ~Newer(m, l)}

Devices(ls) == {l.device : l \in ls}

\* Mutation: the newest link wins even between members.
OnePerDevice_newest_wins(verified, kept) ==
  /\ \A d \in Devices(verified) : Newest(verified, d) \cap kept # {}
  /\ \A l \in kept : l \in Newest(verified, l.device)
  /\ \A k, l \in kept : k.device = l.device => k = l

\* One newest link for each uncontested device.
OnePerDevice(verified, kept) ==
  /\ \A d \in Devices(verified) : ~Contested(verified, d) => Newest(verified, d) \cap kept # {}
  /\ \A l \in kept : ~Contested(verified, l.device) /\ l \in Newest(verified, l.device)
  /\ \A k, l \in kept : k.device = l.device => k = l

\* Mutation: the links are filtered before the revocations are recorded.
UpdateRegistry_links_first(ls, rs) ==
  LET verified == {l \in ls : verify_link(l)} IN
  /\ revoked' = revoked \cup {<<r.member, r.device>> : r \in {x \in rs : verify_revocation(x)}}
  /\ \E kept \in SUBSET verified :
       /\ OnePerDevice(verified, kept)
       /\ links' = {l \in kept : <<l.member, l.device>> \notin revoked}
  /\ offered' = ls

\* Mutation: the revocations are replaced, like the links.
UpdateRegistry_replaces(ls, rs) ==
  LET verified == {l \in ls : verify_link(l)} IN
  /\ revoked' = {<<r.member, r.device>> : r \in {x \in rs : verify_revocation(x)}}
  /\ \E kept \in SUBSET verified :
       /\ OnePerDevice(verified, kept)
       /\ links' = {l \in kept : <<l.member, l.device>> \notin revoked'}
  /\ offered' = ls

\* Mutation: a link stays until it is revoked, sent again or not.
UpdateRegistry_accumulates(ls, rs) ==
  LET verified == {l \in ls \cup links : verify_link(l)} IN
  /\ revoked' = revoked \cup {<<r.member, r.device>> : r \in {x \in rs : verify_revocation(x)}}
  /\ \E kept \in SUBSET verified :
       /\ OnePerDevice(verified, kept)
       /\ links' = {l \in kept : <<l.member, l.device>> \notin revoked'}
  /\ offered' = ls

\* Mutation: one forged item spoils the update.
UpdateRegistry_all_or_nothing(ls, rs) ==
  IF (\A l \in ls : verify_link(l)) /\ (\A r \in rs : verify_revocation(r))
    THEN /\ revoked' = revoked \cup {<<r.member, r.device>> : r \in rs}
         /\ \E kept \in SUBSET ls :
              /\ OnePerDevice(ls, kept)
              /\ links' = {l \in kept : <<l.member, l.device>> \notin revoked'}
         /\ offered' = ls
    ELSE UNCHANGED <<links, revoked, offered>>

\* Revocations first, then the links: an update revokes what it carries.
UpdateRegistry(ls, rs) ==
  LET verified == {l \in ls : verify_link(l)} IN
  /\ revoked' = revoked \cup {<<r.member, r.device>> : r \in {x \in rs : verify_revocation(x)}}
  /\ \E kept \in SUBSET verified :
       /\ OnePerDevice(verified, kept)
       /\ links' = {l \in kept : <<l.member, l.device>> \notin revoked'}
  /\ offered' = ls

\* set_roster_with_devices: a refused update leaves the registry as it was, and
\* the new roster takes effect with the old links.
SetRoster(new, ls, rs) ==
  /\ roster' = new
  /\ IF TooMany(ls, rs) THEN UNCHANGED <<links, revoked, offered>>
     ELSE UpdateRegistry(ls, rs)

-----------------------------------------------------------------------------
(* What the registry says about the roster.                                *)

\* An address listed more than once counts with its highest role.
role_of(a) ==
  LET roles == {e.role : e \in {x \in roster : canonical_address(x.addr) = a}}
  IN  CHOOSE r \in roles : \A s \in roles : role_rank(s) <= role_rank(r)

Members == allowed_peers(roster)

\* The links whose device is admitted: not itself a roster key, and of a member
\* that passes the gate.
ActiveLinks ==
  {l \in links : l.device \notin Members /\ l.member \in Members /\ InCluster(role_of(l.member))}

\* Mutation: revoking the last device restores the member's own key.
OnDeviceKeys_active_only == {l.member : l \in ActiveLinks}

\* Members that are peers through their device keys only.
OnDeviceKeys == {pair[1] : pair \in revoked} \cup {l.member : l \in ActiveLinks}

\* Mutation: a device is let in for its link alone.
effective_roster_any_link ==
  {[addr |-> Canonical(a), role |-> role_of(a)] : a \in Members \ OnDeviceKeys}
  \cup {[addr |-> Canonical(l.device), role |-> "member"] : l \in {x \in links : x.device \notin Members}}

effective_roster ==
  {[addr |-> Canonical(a), role |-> role_of(a)] : a \in Members \ OnDeviceKeys}
  \cup {[addr |-> Canonical(l.device), role |-> role_of(l.member)] : l \in ActiveLinks}

\* The allowed set apply_roster reconciles the mesh to.
Allowed == allowed_set(effective_roster)

\* The member a device is linked to (at most one), as Peers reports it.
member_of(d) == {l.member : l \in {x \in links : x.device = d}}

\* Mutation: the members below the threshold are listed too.
device_roster_everybody ==
  {[member |-> a, devices |-> {l.device : l \in {x \in links : x.member = a}}] : a \in Members}

\* The Devices answer: each allowed member with its devices.
device_roster ==
  {[member |-> a, devices |-> {l.device : l \in {x \in links : x.member = a}}] :
     a \in allowed_set(roster)}

-----------------------------------------------------------------------------
Init == roster = {} /\ links = {} /\ revoked = {} /\ offered = {}

Next == \E new \in Rosters, ls \in SUBSET LinkPool, rs \in SUBSET RevocationPool :
          SetRoster(new, ls, rs)

Spec == Init /\ [][Next]_vars

-----------------------------------------------------------------------------
(* Properties.                                                             *)

\* The type of GroupDevices.
TypeOK ==
  /\ roster \in Rosters \cup {{}}
  /\ links \subseteq LinkPool
  /\ revoked \subseteq Address \X Address
  /\ offered \subseteq LinkPool

\* The registry never holds a link its member has revoked, in this update or
\* in any earlier one, nor a forged one, nor two links of one device
\* (DeviceRegistry::update).
RegistrySound ==
  /\ \A l \in links : verify_link(l) /\ <<l.member, l.device>> \notin revoked
  /\ \A k, l \in links : k.device = l.device => k = l

\* A device that two members claim in the same update is nobody's.
ContestedIsNobodys ==
  \A l \in links : ~Contested({k \in offered : verify_link(k)}, l.device)

\* Whoever is allowed without being on the roster is the device of a member who
\* is on it with a cluster role, by a link all three keys signed and the member
\* never revoked: offboarding a member takes its devices along.
DeviceNeedsLinkAndMember ==
  \A a \in Allowed \ Members :
    \E l \in links : /\ l.device = a /\ verify_link(l)
                     /\ l.member \in allowed_set(roster)
                     /\ <<l.member, a>> \notin revoked

\* A member that ever revoked a device is never a peer as itself again, whatever
\* rosters and links come later: a revoked machine cannot rejoin as the member.
RevokerIsOffItsCommsKey ==
  \A pair \in revoked : pair[1] \in Members => pair[1] \notin Allowed

\* A member is a peer as itself or through device keys of its own, never both.
MemberOrDevices ==
  \A l \in links : l.device \in Allowed \ Members => l.member \notin Allowed

\* Nobody below Member is ever allowed, on the roster or behind a link.
RoleGate ==
  Allowed \cap Members \subseteq allowed_set(roster)

\* Whoever is let in has earned it now, under the roster, links and revocations of
\* different updates: a roster key by its own role, any other by a link of a member
\* in good standing (effective_roster).
AllowedIsEarned == RoleGate /\ DeviceNeedsLinkAndMember

\* The member's own key, which every one of its machines can derive, is off once
\* the member is on device keys, and stays off when it revokes the last of them
\* (effective_roster).
CommsKeyRetired == RevokerIsOffItsCommsKey /\ MemberOrDevices

\* What Devices lists and whom the gate admits, which are worked out apart, agree:
\* every peer is a listed member or a listed device, every listed device is a peer
\* unless its key is on the roster itself, and a listed member without a peer of
\* its own has revoked one (device_roster, effective_roster).
DevicesListsThePeers ==
  /\ Allowed \subseteq {m.member : m \in device_roster} \cup UNION {m.devices : m \in device_roster}
  /\ \A m \in device_roster :
       /\ m.devices \subseteq Allowed \cup Members
       /\ \/ m.member \in Allowed
          \/ m.devices \cap Allowed # {}
          \/ \E pair \in revoked : pair[1] = m.member

\* A step that forgets no revocation and links no revoked device to its member.
KeepsRevocations ==
  \A pair \in revoked : pair \in revoked' /\ pair[1] \notin member_of(pair[2])'

\* Once a member's revocation of a device is recorded, no later update, with
\* whatever rosters, links and revocations, forgets it or links the device to
\* that member again (the registry replaces its links and keeps its revocations).
RevokedForGood == [][KeepsRevocations]_vars
=============================================================================
