---------------------------- MODULE RosterProofs ----------------------------
(***************************************************************************)
(* Proofs about what works on rosters in one process: ClusterSession, for  *)
(* any addresses, rosters and candidates; DeviceRegistry, for any rosters, *)
(* links and revocations; and RosterClient, for any number of requests on  *)
(* their way and any number of crashes.                                    *)
(***************************************************************************)
EXTENDS ClusterSession, RosterClient, TLAPS

-----------------------------------------------------------------------------
(* ClusterSession.                                                         *)

\* A canonical address is an address, unless the text is none (canonical_address).
LEMMA CanonicalIsAddress ==
  ASSUME NEW raw, canonical_address(raw) # NoAddress
  PROVE  canonical_address(raw) \in Address
BY DEF canonical_address

\* The allowed set of a roster holds addresses only (allowed_set).
LEMMA AllowedSetType == \A r : allowed_set(r) \in SUBSET Address
BY CanonicalIsAddress DEF allowed_set

\* Every operation of the session keeps the types.
THEOREM SessionTypeCorrect == SessionSpec => []SessionTypeOK
<1>1. SessionInit => SessionTypeOK
  BY DEF SessionInit, SessionTypeOK
<1>2. SessionTypeOK /\ [SessionNext]_sessionVars => SessionTypeOK'
  <2> SUFFICES ASSUME SessionTypeOK, [SessionNext]_sessionVars PROVE SessionTypeOK'
    OBVIOUS
  <2>1. ASSUME NEW raw \in Candidates, NEW role \in Role, Join(raw, role) PROVE SessionTypeOK'
    BY <2>1 DEF Join, Admits, SessionTypeOK
  <2>2. ASSUME NEW raw \in Candidates, Leave(raw) PROVE SessionTypeOK'
    BY <2>2 DEF Leave, SessionTypeOK
  <2>3. ASSUME NEW r \in SessionRosters, Reconcile(r) PROVE SessionTypeOK'
    BY <2>3, AllowedSetType DEF Reconcile, SessionTypeOK
  <2>4. ASSUME NEW r \in SessionRosters, ApplyRoster(r) PROVE SessionTypeOK'
    BY <2>4, AllowedSetType DEF ApplyRoster, SessionTypeOK
  <2>5. CASE SyncAdmitted
    BY <2>5 DEF SyncAdmitted, SessionTypeOK
  <2>6. CASE UNCHANGED sessionVars
    BY <2>6 DEF sessionVars, SessionTypeOK
  <2> QED BY <2>1, <2>2, <2>3, <2>4, <2>5, <2>6 DEF SessionNext
<1> QED BY <1>1, <1>2, PTL DEF SessionSpec

\* The wire never holds a peer that is not admitted, nor the membership one that
\* is not allowed, after any sequence of joins, leaves, rosters and syncs.
THEOREM WireTracksRosterHolds == SessionSpec => []WireTracksRoster
<1>1. SessionInit => WireTracksRoster
  BY DEF SessionInit, WireTracksRoster
<1>2. WireTracksRoster /\ [SessionNext]_sessionVars => WireTracksRoster'
  <2> SUFFICES ASSUME WireTracksRoster, [SessionNext]_sessionVars PROVE WireTracksRoster'
    OBVIOUS
  <2>1. ASSUME NEW raw \in Candidates, NEW role \in Role, Join(raw, role)
        PROVE WireTracksRoster'
    BY <2>1 DEF Join, Admits, WireTracksRoster
  <2>2. ASSUME NEW raw \in Candidates, Leave(raw) PROVE WireTracksRoster'
    BY <2>2 DEF Leave, WireTracksRoster
  <2>3. ASSUME NEW r \in SessionRosters, Reconcile(r) PROVE WireTracksRoster'
    BY <2>3 DEF Reconcile, WireTracksRoster
  <2>4. ASSUME NEW r \in SessionRosters, ApplyRoster(r) PROVE WireTracksRoster'
    BY <2>4 DEF ApplyRoster, WireTracksRoster
  <2>5. CASE SyncAdmitted
    BY <2>5 DEF SyncAdmitted, WireTracksRoster
  <2>6. CASE UNCHANGED sessionVars
    BY <2>6 DEF sessionVars, WireTracksRoster
  <2> QED BY <2>1, <2>2, <2>3, <2>4, <2>5, <2>6 DEF SessionNext
<1> QED BY <1>1, <1>2, PTL DEF SessionSpec

\* The session implements Admission with its wire as the mesh: a join is an
\* Admit, a leave a Drop, and a roster takes whoever it removes along in the same
\* step, which needs the wire to be within what is admitted.
THEOREM SessionRefinement == SessionSpec => ImplementsAdmission
<1>1. SessionInit => A!Init
  BY DEF SessionInit, A!Init
<1>2. SessionTypeOK /\ WireTracksRoster /\ [SessionNext]_sessionVars => [A!Next]_A!vars
  <2> SUFFICES ASSUME SessionTypeOK, WireTracksRoster, [SessionNext]_sessionVars
               PROVE  [A!Next]_A!vars
    OBVIOUS
  <2>1. ASSUME NEW raw \in Candidates, NEW role \in Role, Join(raw, role)
        PROVE A!Next
    <3>1. canonical_address(raw) \in Address
      BY <2>1 DEF Join, Admits, SessionTypeOK
    <3>2. A!Admit(canonical_address(raw))
      BY <2>1 DEF Join, Admits, A!Admit
    <3> QED BY <3>1, <3>2 DEF A!Next
  <2>2. ASSUME NEW raw \in Candidates, Leave(raw) PROVE A!Next
    BY <2>2 DEF Leave, A!Next, A!Drop
  <2>3. ASSUME NEW r \in SessionRosters, Reconcile(r) PROVE A!Next
    <3>1. A!Reconcile(allowed_set(r))
      BY <2>3 DEF Reconcile, A!Reconcile, WireTracksRoster
    <3> QED BY <3>1, AllowedSetType DEF A!Next
  <2>4. ASSUME NEW r \in SessionRosters, ApplyRoster(r) PROVE A!Next
    <3>1. A!Reconcile(allowed_set(r))
      BY <2>4 DEF ApplyRoster, A!Reconcile, WireTracksRoster
    <3> QED BY <3>1, AllowedSetType DEF A!Next
  <2>5. CASE SyncAdmitted
    BY <2>5 DEF SyncAdmitted, A!vars
  <2>6. CASE UNCHANGED sessionVars
    BY <2>6 DEF sessionVars, A!vars
  <2> QED BY <2>1, <2>2, <2>3, <2>4, <2>5, <2>6 DEF SessionNext
<1> QED BY <1>1, <1>2, SessionTypeCorrect, WireTracksRosterHolds, PTL
        DEF SessionSpec, ImplementsAdmission, A!Spec

-----------------------------------------------------------------------------
(* DeviceRegistry: the operators.                                          *)

\* The rank of a role, known or not, is one of the six that role_rank returns.
LEMMA RankRange == \A r : role_rank(r) \in 0..5
BY DEF role_rank

\* A non-empty set of roles has one of the highest rank.
LEMMA HighestRole ==
  ASSUME NEW roles, roles # {}
  PROVE  \E r \in roles : \A s \in roles : role_rank(s) <= role_rank(r)
<1> DEFINE Top(k) == \E r \in roles : role_rank(r) = k
<1>1. \A r : role_rank(r) \in 0..5
  BY RankRange
<1>2. Top(0) \/ Top(1) \/ Top(2) \/ Top(3) \/ Top(4) \/ Top(5)
  <2>1. PICK r \in roles : TRUE
    OBVIOUS
  <2> QED BY <1>1, <2>1
<1>3. PICK k \in 0..5 : Top(k) /\ \A j \in 0..5 : j > k => ~Top(j)
  <2> HIDE DEF Top
  <2> QED BY <1>2
<1>4. PICK r \in roles : role_rank(r) = k
  BY <1>3
<1>5. \A s \in roles : role_rank(s) <= k
  BY <1>1, <1>3
<1> QED BY <1>4, <1>5

\* role_of picks one of the roles the roster gives the member.
LEMMA RoleOfMember ==
  ASSUME NEW a \in Members
  PROVE  \E e \in roster : canonical_address(e.addr) = a /\ e.role = role_of(a)
<1> DEFINE roles == {e.role : e \in {x \in roster : canonical_address(x.addr) = a}}
<1>1. roles # {}
  BY DEF Members, allowed_peers
<1>2. \E r \in roles : \A s \in roles : role_rank(s) <= role_rank(r)
  <2> HIDE DEF roles
  <2> QED BY <1>1, HighestRole
<1>3. role_of(a) \in roles
  <2>1. role_of(a) = CHOOSE r \in roles : \A s \in roles : role_rank(s) <= role_rank(r)
    BY DEF role_of
  <2> HIDE DEF roles
  <2> QED BY <1>2, <2>1
<1> QED BY <1>3

\* The members the roster itself lets in are those whose highest role does.
LEMMA AllowedMembers == allowed_set(roster) = {a \in Members : InCluster(role_of(a))}
<1>1. ASSUME NEW a \in Members, InCluster(role_of(a)) PROVE a \in allowed_set(roster)
  <2>1. PICK e \in roster : canonical_address(e.addr) = a /\ e.role = role_of(a)
    BY RoleOfMember
  <2> QED BY <1>1, <2>1 DEF allowed_set, Members, allowed_peers
<1>2. ASSUME NEW a \in allowed_set(roster) PROVE a \in Members /\ InCluster(role_of(a))
  <2> DEFINE roles == {e.role : e \in {x \in roster : canonical_address(x.addr) = a}}
  <2>1. a \in Members /\ \E s \in roles : InCluster(s)
    BY DEF allowed_set, Members, allowed_peers
  <2>2. role_of(a) = CHOOSE r \in roles : \A s \in roles : role_rank(s) <= role_rank(r)
    BY DEF role_of
  <2>3. \E r \in roles : \A s \in roles : role_rank(s) <= role_rank(r)
    <3> HIDE DEF roles
    <3> QED BY <2>1, HighestRole
  <2>4. \A s \in roles : role_rank(s) <= role_rank(role_of(a))
    <3> HIDE DEF roles
    <3> QED BY <2>2, <2>3
  <2>5. PICK s \in roles : InCluster(s)
    BY <2>1
  <2>6. role_rank(s) <= role_rank(role_of(a))
    <3> HIDE DEF roles
    <3> QED BY <2>4
  <2> QED BY <2>1, <2>5, <2>6, RankRange DEF InCluster, MIN_CLUSTER_RANK
<1> QED BY <1>1, <1>2

\* A roster entry that names no address makes nobody a member.
LEMMA MembersAreAddresses == Members \subseteq Address
BY DEF Members, allowed_peers, canonical_address

\* What the allowed set is: members on their own key, and active devices.
LEMMA AllowedIs ==
  ASSUME TypeOK
  PROVE  Allowed = {a \in Members \ OnDeviceKeys : InCluster(role_of(a))}
                   \cup {l.device : l \in ActiveLinks}
<1>1. \A a \in Address : canonical_address(Canonical(a)) = a /\ a # NoAddress
  BY AddressAssumption DEF canonical_address, Canonical
<1>2. \A l \in ActiveLinks : l.device \in Address /\ InCluster(role_of(l.member))
  BY PoolAssumption DEF ActiveLinks, TypeOK, SignedDeviceLink
<1>3. ASSUME NEW a \in Allowed
      PROVE  \/ a \in Members \ OnDeviceKeys /\ InCluster(role_of(a))
             \/ \E l \in ActiveLinks : a = l.device
  <2>1. PICK e \in effective_roster : InCluster(e.role) /\ a = canonical_address(e.addr)
    BY DEF Allowed, allowed_set
  <2>2. CASE \E m \in Members \ OnDeviceKeys : e = [addr |-> Canonical(m), role |-> role_of(m)]
    BY <1>1, <2>1, <2>2, MembersAreAddresses
  <2>3. CASE \E l \in ActiveLinks : e = [addr |-> Canonical(l.device), role |-> role_of(l.member)]
    BY <1>1, <1>2, <2>1, <2>3
  <2> QED BY <2>1, <2>2, <2>3 DEF effective_roster
<1>4. ASSUME NEW a \in Members \ OnDeviceKeys, InCluster(role_of(a)) PROVE a \in Allowed
  <2> DEFINE e == [addr |-> Canonical(a), role |-> role_of(a)]
  <2>1. e \in effective_roster /\ e.role = role_of(a) /\ e.addr = Canonical(a)
    BY DEF effective_roster
  <2>2. canonical_address(e.addr) = a /\ a # NoAddress
    BY <1>1, <2>1, MembersAreAddresses
  <2> QED BY <1>4, <2>1, <2>2 DEF Allowed, allowed_set
<1>5. ASSUME NEW l \in ActiveLinks PROVE l.device \in Allowed
  <2> DEFINE e == [addr |-> Canonical(l.device), role |-> role_of(l.member)]
  <2>1. e \in effective_roster /\ e.role = role_of(l.member) /\ e.addr = Canonical(l.device)
    BY DEF effective_roster
  <2>2. canonical_address(e.addr) = l.device /\ l.device # NoAddress
    BY <1>1, <1>2, <2>1
  <2> QED BY <1>2, <2>1, <2>2 DEF Allowed, allowed_set
<1> QED BY <1>3, <1>4, <1>5

-----------------------------------------------------------------------------
(* The registry.                                                           *)

\* An update keeps the types.
LEMMA TypeStep == TypeOK /\ [Next]_vars => TypeOK'
<1> SUFFICES ASSUME TypeOK, [Next]_vars PROVE TypeOK'
  OBVIOUS
<1>1. ASSUME NEW new \in Rosters, NEW ls \in SUBSET LinkPool, NEW rs \in SUBSET RevocationPool,
             SetRoster(new, ls, rs)
      PROVE  TypeOK'
  <2>1. \A r \in rs : <<r.member, r.device>> \in Address \X Address
    BY PoolAssumption DEF SignedRevocation
  <2>2. CASE UNCHANGED <<links, revoked, offered>>
    BY <1>1, <2>2 DEF SetRoster, TypeOK
  <2>3. CASE UpdateRegistry(ls, rs)
    <3>1. revoked' \subseteq Address \X Address
      BY <2>1, <2>3 DEF UpdateRegistry, TypeOK
    <3>2. links' \subseteq LinkPool /\ offered' \subseteq LinkPool
      BY <2>3 DEF UpdateRegistry
    <3> QED BY <1>1, <3>1, <3>2 DEF SetRoster, TypeOK
  <2> QED BY <1>1, <2>2, <2>3 DEF SetRoster
<1>2. CASE UNCHANGED vars
  BY <1>2 DEF vars, TypeOK
<1> QED BY <1>1, <1>2 DEF Next

\* The roster, the links and the revocations keep their types.
THEOREM TypeCorrect == Spec => []TypeOK
<1>1. Init => TypeOK
  BY DEF Init, TypeOK
<1> QED BY <1>1, TypeStep, PTL DEF Spec

\* An update leaves no revoked, forged or second link.
LEMMA SoundStep == RegistrySound /\ [Next]_vars => RegistrySound'
<1> SUFFICES ASSUME RegistrySound, [Next]_vars PROVE RegistrySound'
  OBVIOUS
<1>1. ASSUME NEW ls, NEW rs, UpdateRegistry(ls, rs) PROVE RegistrySound'
  <2>1. PICK kept \in SUBSET {l \in ls : verify_link(l)} :
          /\ \A k, l \in kept : k.device = l.device => k = l
          /\ links' = {l \in kept : <<l.member, l.device>> \notin revoked'}
    BY <1>1 DEF UpdateRegistry, OnePerDevice
  <2>2. \A l \in links' : verify_link(l)
    BY <2>1
  <2> QED BY <2>1, <2>2 DEF RegistrySound, verify_link, WellFormed
<1>2. CASE UNCHANGED <<links, revoked>>
  BY <1>2 DEF RegistrySound, verify_link, WellFormed
<1> QED BY <1>1, <1>2 DEF Next, SetRoster, vars

\* No revoked, forged or second link of a device is ever in the registry
\* (DeviceRegistry::update).
THEOREM RegistrySoundHolds == Spec => []RegistrySound
<1>1. Init => RegistrySound
  BY DEF Init, RegistrySound
<1> QED BY <1>1, SoundStep, PTL DEF Spec

\* Whoever is allowed without being on the roster is the linked, unrevoked
\* device of a member with a cluster role (effective_roster).
LEMMA DevicesAreLinked == TypeOK /\ RegistrySound => DeviceNeedsLinkAndMember
<1> SUFFICES ASSUME TypeOK, RegistrySound, NEW a \in Allowed \ Members
             PROVE  \E l \in links : /\ l.device = a /\ verify_link(l)
                                     /\ l.member \in allowed_set(roster)
                                     /\ <<l.member, a>> \notin revoked
  BY DEF DeviceNeedsLinkAndMember
<1>1. PICK l \in ActiveLinks : l.device = a
  BY AllowedIs
<1>2. l \in links /\ l.member \in Members /\ InCluster(role_of(l.member))
  BY DEF ActiveLinks
<1>3. l.member \in allowed_set(roster)
  BY <1>2, AllowedMembers
<1> QED BY <1>1, <1>2, <1>3 DEF RegistrySound

\* A member that ever revoked a device is not a peer on its own key.
LEMMA RevokersAreOff == TypeOK => RevokerIsOffItsCommsKey
<1> SUFFICES ASSUME TypeOK, NEW pair \in revoked, pair[1] \in Members, pair[1] \in Allowed
             PROVE  FALSE
  BY DEF RevokerIsOffItsCommsKey
<1>1. pair[1] \in OnDeviceKeys
  BY DEF OnDeviceKeys
<1>2. \A l \in ActiveLinks : l.device \notin Members
  BY DEF ActiveLinks
<1> QED BY <1>1, <1>2, AllowedIs

\* A member is a peer as itself or through its device keys, never both.
LEMMA OneOrTheOther == TypeOK /\ RegistrySound => MemberOrDevices
<1> SUFFICES ASSUME TypeOK, RegistrySound, NEW l \in links, l.device \in Allowed \ Members
             PROVE  l.member \notin Allowed
  BY DEF MemberOrDevices
<1>1. PICK k \in ActiveLinks : k.device = l.device
  BY AllowedIs
<1>2. k = l
  BY <1>1 DEF RegistrySound, ActiveLinks
<1>3. l.member \in OnDeviceKeys /\ l.member \in Members
  BY <1>2 DEF OnDeviceKeys, ActiveLinks
<1>4. \A j \in ActiveLinks : j.device \notin Members
  BY DEF ActiveLinks
<1> QED BY <1>3, <1>4, AllowedIs

\* Nobody below Member is allowed, on the roster or behind a link.
LEMMA RolesAreChecked == TypeOK => RoleGate
<1> SUFFICES ASSUME TypeOK, NEW a \in Allowed \cap Members PROVE a \in allowed_set(roster)
  BY DEF RoleGate
<1>1. InCluster(role_of(a))
  BY AllowedIs DEF ActiveLinks
<1> QED BY <1>1, AllowedMembers

\* Whoever is allowed is on the roster with a cluster role or has a valid link of a
\* member who is (effective_roster).
THEOREM AllowedIsEarnedHolds == Spec => []AllowedIsEarned
<1>1. TypeOK /\ RegistrySound => AllowedIsEarned
  BY RolesAreChecked, DevicesAreLinked DEF AllowedIsEarned
<1> QED BY <1>1, TypeCorrect, RegistrySoundHolds, PTL

\* A member's own key is no peer while the member has devices, nor after it has
\* revoked one (effective_roster).
THEOREM CommsKeyRetiredHolds == Spec => []CommsKeyRetired
<1>1. TypeOK /\ RegistrySound => CommsKeyRetired
  BY RevokersAreOff, OneOrTheOther DEF CommsKeyRetired
<1> QED BY <1>1, TypeCorrect, RegistrySoundHolds, PTL

\* Every peer is listed and every listed device is a peer.
LEMMA ListedArePeers == TypeOK => DevicesListsThePeers
<1> SUFFICES ASSUME TypeOK PROVE DevicesListsThePeers
  OBVIOUS
<1> DEFINE devices(a) == {l.device : l \in {x \in links : x.member = a}}
           entry(a) == [member |-> a, devices |-> devices(a)]
<1>1. \A a \in allowed_set(roster) : entry(a) \in device_roster
  BY DEF device_roster
<1>2. \A m \in device_roster : m.member \in allowed_set(roster) /\ m = entry(m.member)
  BY DEF device_roster
<1>3. \A l \in ActiveLinks : /\ l \in links /\ l.device \in Allowed
                             /\ l.member \in allowed_set(roster)
  BY AllowedIs, AllowedMembers DEF ActiveLinks
<1>4. ASSUME NEW a \in Allowed
      PROVE  \E m \in device_roster : a = m.member \/ a \in m.devices
  <2>1. CASE a \in allowed_set(roster)
    BY <1>1, <2>1
  <2>2. CASE \E l \in ActiveLinks : a = l.device
    <3>1. PICK l \in ActiveLinks : a = l.device
      BY <2>2
    <3>2. entry(l.member) \in device_roster /\ a \in entry(l.member).devices
      BY <1>1, <1>3, <3>1
    <3> QED BY <3>2
  <2> QED BY <2>1, <2>2, AllowedIs, AllowedMembers
<1>5. ASSUME NEW m \in device_roster PROVE m.devices \subseteq Allowed \cup Members
  <2> SUFFICES ASSUME NEW d \in m.devices, d \notin Members PROVE d \in Allowed
    OBVIOUS
  <2>1. PICK l \in links : l.member = m.member /\ l.device = d
    BY <1>2
  <2>2. l \in ActiveLinks
    BY <1>2, <2>1, AllowedMembers DEF ActiveLinks
  <2> QED BY <1>3, <2>1, <2>2
<1>6. ASSUME NEW m \in device_roster, m.member \notin Allowed
      PROVE  m.devices \cap Allowed # {} \/ \E pair \in revoked : pair[1] = m.member
  <2>1. m.member \in OnDeviceKeys
    BY <1>2, <1>6, AllowedIs, AllowedMembers
  <2>2. ASSUME NEW l \in ActiveLinks, l.member = m.member PROVE l.device \in m.devices \cap Allowed
    BY <1>2, <1>3, <2>2
  <2> QED BY <2>1, <2>2 DEF OnDeviceKeys
<1> QED BY <1>4, <1>5, <1>6 DEF DevicesListsThePeers

\* Devices and the gate, which walk the roster and the links separately, agree
\* about who is a peer (device_roster, effective_roster).
THEOREM DevicesListsThePeersHolds == Spec => []DevicesListsThePeers
BY ListedArePeers, TypeCorrect, PTL

\* An update leaves no contested device.
LEMMA ContestedStep == ContestedIsNobodys /\ [Next]_vars => ContestedIsNobodys'
<1> SUFFICES ASSUME ContestedIsNobodys, [Next]_vars PROVE ContestedIsNobodys'
  OBVIOUS
<1>1. ASSUME NEW ls, NEW rs, UpdateRegistry(ls, rs) PROVE ContestedIsNobodys'
  <2> DEFINE verified == {l \in ls : verify_link(l)}
  <2>1. PICK kept \in SUBSET verified :
          /\ \A l \in kept : ~Contested(verified, l.device)
          /\ links' = {l \in kept : <<l.member, l.device>> \notin revoked'}
    BY <1>1 DEF UpdateRegistry, OnePerDevice
  <2>2. \A l \in links' : ~Contested(verified, l.device)
    BY <2>1
  <2>3. {k \in offered' : verify_link(k)} = verified
    BY <1>1 DEF UpdateRegistry
  <2> QED BY <2>2, <2>3 DEF ContestedIsNobodys, verify_link, WellFormed
<1>2. CASE UNCHANGED <<links, offered>>
  BY <1>2 DEF ContestedIsNobodys, verify_link, WellFormed
<1> QED BY <1>1, <1>2 DEF Next, SetRoster, vars

\* A device two members claim in one update is nobody's until another update
\* settles it (DeviceRegistry::update).
THEOREM ContestedIsNobodysHolds == Spec => []ContestedIsNobodys
<1>1. Init => ContestedIsNobodys
  BY DEF Init, ContestedIsNobodys
<1> QED BY <1>1, ContestedStep, PTL DEF Spec

\* No step forgets a recorded revocation or links the device to its member again
\* (DeviceRegistry::update).
THEOREM RevokedForGoodHolds == Spec => RevokedForGood
<1>1. TypeOK /\ RegistrySound' /\ [Next]_vars => [KeepsRevocations]_vars
  <2> SUFFICES ASSUME TypeOK, RegistrySound', [Next]_vars, NEW pair \in revoked
               PROVE  vars' = vars \/ (pair \in revoked' /\ pair[1] \notin member_of(pair[2])')
    BY DEF KeepsRevocations
  <2>1. CASE UNCHANGED vars
    BY <2>1
  <2>2. ASSUME NEW new, NEW ls, NEW rs, SetRoster(new, ls, rs)
        PROVE  pair \in revoked' /\ pair[1] \notin member_of(pair[2])'
    <3>1. pair \in revoked'
      BY <2>2 DEF SetRoster, UpdateRegistry
    <3>2. pair = <<pair[1], pair[2]>>
      BY DEF TypeOK
    <3>3. \A l \in links' : <<l.member, l.device>> # pair
      BY <3>1 DEF RegistrySound
    <3> QED BY <3>1, <3>2, <3>3 DEF member_of
  <2> QED BY <2>1, <2>2 DEF Next
<1> QED BY <1>1, TypeCorrect, RegistrySoundHolds, PTL DEF Spec, RevokedForGood

\* Once recorded, a revocation keeps the device from its member for ever, through
\* any number of updates (DeviceRegistry::update, member_of).
THEOREM RevokedForEver ==
  Spec => \A m, d \in Address : [](<<m, d>> \in revoked => [](m \notin member_of(d)))
<1> SUFFICES ASSUME NEW m \in Address, NEW d \in Address
             PROVE  Spec => [](<<m, d>> \in revoked => [](m \notin member_of(d)))
  OBVIOUS
<1>1. <<m, d>> \in revoked /\ [Next]_vars => (<<m, d>> \in revoked)'
  BY DEF Next, SetRoster, UpdateRegistry, vars
<1>2. RegistrySound /\ <<m, d>> \in revoked => m \notin member_of(d)
  BY DEF RegistrySound, member_of
<1> QED BY <1>1, <1>2, RegistrySoundHolds, PTL DEF Spec

-----------------------------------------------------------------------------
(* The client, crashes and restarts.                                       *)

\* The pairs a set of revocations bans, the forged ones left out.
Banned(rs) == {<<r.member, r.device>> : r \in {x \in rs : verify_revocation(x)}}

Verified(ls) == {l \in ls : verify_link(l)}

\* The registry holds what an accepted update told it to, under all the revocations
\* recorded so far.
Holds(items) ==
  /\ Banned(items.revocations) \subseteq revoked
  /\ \E kept \in SUBSET Verified(items.links) :
       /\ OnePerDevice(Verified(items.links), kept)
       /\ links = {l \in kept : <<l.member, l.device>> \notin revoked}

\* What this process knows of the past.  One that has accepted an update has
\* every revocation ever recorded; one that has not is as good as empty, and
\* every request on its way to it, which the client sent after the crash, has
\* them all.
ProcessInv ==
  /\ handled # NoUpdate => confirmed \subseteq revoked /\ Holds(handled)
  /\ handled = NoUpdate => /\ revoked = {} /\ links = {}
                           /\ \A u \in inflight : confirmed \subseteq Banned(u.items.revocations)

\* The client's store has every revocation that was ever sent or recorded.
StoreInv ==
  /\ revoked \subseteq confirmed
  /\ confirmed \subseteq Banned(store.revocations)
  /\ \A u \in inflight : u.items.revocations \subseteq store.revocations

ClientInv == ClientTypeOK /\ ProcessInv /\ StoreInv

-----------------------------------------------------------------------------
(* The inductive invariant.                                                *)

\* Of more revocations, more is banned; and what is banned is a pair of addresses.
LEMMA BannedFacts ==
  /\ \A rs, ss : rs \subseteq ss => Banned(rs) \subseteq Banned(ss)
  /\ \A rs \in SUBSET RevocationPool : Banned(rs) \subseteq Address \X Address
BY PoolAssumption DEF Banned, SignedRevocation

\* What SetRoster makes of the registry when the update is not refused.
LEMMA Accepted ==
  ASSUME NEW u \in [roster : Rosters, items : Items], ClientTypeOK,
         SetRoster(u.roster, u.items.links, u.items.revocations),
         ~TooMany(u.items.links, u.items.revocations)
  PROVE  /\ revoked' = revoked \cup Banned(u.items.revocations)
         /\ Holds(u.items)'
         /\ TypeOK'
<1> DEFINE verified == Verified(u.items.links)
<1>1. /\ revoked' = revoked \cup Banned(u.items.revocations)
      /\ roster' = u.roster /\ offered' = u.items.links
  BY DEF SetRoster, UpdateRegistry, Banned
<1>2. PICK kept \in SUBSET verified :
        /\ OnePerDevice(verified, kept)
        /\ links' = {l \in kept : <<l.member, l.device>> \notin revoked'}
  BY DEF SetRoster, UpdateRegistry, Verified
<1>3. Holds(u.items)'
  BY <1>1, <1>2 DEF Holds
<1>4. links' \subseteq LinkPool
  BY <1>2 DEF Verified, Items
<1>5. TypeOK'
  BY <1>1, <1>4, BannedFacts DEF ClientTypeOK, TypeOK, Items
<1> QED BY <1>1, <1>3, <1>5

\* Nothing that happens to a request, a crash or a restart breaks the invariant.
LEMMA ClientStep == ClientInv /\ [ClientNext]_clientVars => ClientInv'
<1> SUFFICES ASSUME ClientInv, [ClientNext]_clientVars PROVE ClientInv'
  OBVIOUS
<1> USE DEF ClientInv
<1>1. ASSUME NEW l \in LinkPool, Relink(l) PROVE ClientInv'
  <2>1. store' = [links |-> store'.links, revocations |-> store.revocations] /\ store'.links \subseteq LinkPool
    BY <1>1 DEF Relink, ClientTypeOK, Items
  <2>2. ClientTypeOK'
    BY <1>1, <2>1 DEF Relink, daemonVars, vars, ClientTypeOK, TypeOK, Items
  <2>3. ProcessInv'
    BY <1>1 DEF Relink, daemonVars, vars, ProcessInv, Holds
  <2>4. StoreInv'
    BY <1>1, <2>1 DEF Relink, daemonVars, vars, StoreInv
  <2> QED BY <2>2, <2>3, <2>4
<1>2. ASSUME NEW r \in RevocationPool, Revoke(r) PROVE ClientInv'
  <2>1. /\ store' = [links |-> store.links, revocations |-> store.revocations \cup {r}]
        /\ Banned(store.revocations) \subseteq Banned(store'.revocations)
    BY <1>2, BannedFacts DEF Revoke, ClientTypeOK, Items
  <2>2. ClientTypeOK'
    BY <1>2, <2>1 DEF Revoke, daemonVars, vars, ClientTypeOK, TypeOK, Items
  <2>3. ProcessInv'
    BY <1>2 DEF Revoke, daemonVars, vars, ProcessInv, Holds
  <2>4. StoreInv'
    BY <1>2, <2>1 DEF Revoke, daemonVars, vars, StoreInv
  <2> QED BY <2>2, <2>3, <2>4
<1>3. ASSUME NEW new \in Rosters, Send(new) PROVE ClientInv'
  <2>1. ClientTypeOK'
    BY <1>3 DEF Send, daemonVars, vars, ClientTypeOK, TypeOK
  <2>2. ProcessInv'
    BY <1>3 DEF Send, daemonVars, vars, ProcessInv, StoreInv, Holds
  <2>3. StoreInv'
    BY <1>3 DEF Send, daemonVars, vars, StoreInv
  <2> QED BY <2>1, <2>2, <2>3
<1>4. ASSUME NEW u \in inflight, Handle(u) PROVE ClientInv'
  <2>1. u \in [roster : Rosters, items : Items]
    BY DEF ClientTypeOK
  <2>2. CASE TooMany(u.items.links, u.items.revocations)
    <3>1. UNCHANGED <<links, revoked, offered>> /\ roster' = u.roster
      BY <1>4, <2>2 DEF Handle, SetRoster
    <3>2. /\ UNCHANGED <<handled, store, up>> /\ inflight' = inflight \ {u}
          /\ confirmed' = confirmed
      BY <1>4, <2>2, <3>1 DEF Handle, StoreInv
    <3>3. ClientTypeOK'
      BY <2>1, <3>1, <3>2 DEF ClientTypeOK, TypeOK
    <3>4. ProcessInv' /\ StoreInv'
      BY <3>1, <3>2 DEF ProcessInv, StoreInv, Holds
    <3> QED BY <3>3, <3>4
  <2>3. CASE ~TooMany(u.items.links, u.items.revocations)
    <3>1. /\ handled' = u.items /\ UNCHANGED <<store, up>> /\ inflight' = inflight \ {u}
          /\ confirmed' = confirmed \cup revoked'
      BY <1>4, <2>3 DEF Handle
    <3>2. /\ revoked' = revoked \cup Banned(u.items.revocations)
          /\ Holds(u.items)'
          /\ TypeOK'
      BY <1>4, <2>1, <2>3, Accepted DEF Handle
    <3>3. ClientTypeOK'
      BY <2>1, <3>1, <3>2 DEF ClientTypeOK, TypeOK
    <3>4. confirmed' \subseteq revoked'
      BY <3>1, <3>2 DEF ProcessInv
    <3>5. handled' # NoUpdate /\ Holds(handled)'
      BY <2>1, <3>1, <3>2, NoUpdateAssumption DEF Holds
    <3>6. ProcessInv'
      BY <3>4, <3>5 DEF ProcessInv
    <3>7. Banned(u.items.revocations) \subseteq Banned(store.revocations)
      BY BannedFacts DEF StoreInv
    <3>8. StoreInv'
      BY <3>1, <3>2, <3>7 DEF StoreInv
    <3> QED BY <3>3, <3>6, <3>8
  <2> QED BY <2>2, <2>3
<1>5. ASSUME Crash PROVE ClientInv'
  <2>1. ClientTypeOK'
    BY <1>5 DEF Crash, ClientTypeOK, TypeOK
  <2>2. ProcessInv' /\ StoreInv'
    BY <1>5 DEF Crash, ProcessInv, StoreInv
  <2> QED BY <2>1, <2>2
<1>6. CASE Restart \/ UNCHANGED clientVars
  <2>1. UNCHANGED <<vars, handled, store, inflight, confirmed>> /\ up' \in BOOLEAN
    BY <1>6 DEF Restart, vars, clientVars, daemonVars, ClientTypeOK
  <2>2. ClientTypeOK'
    BY <2>1 DEF vars, ClientTypeOK, TypeOK
  <2>3. ProcessInv' /\ StoreInv'
    BY <2>1 DEF vars, ProcessInv, StoreInv, Holds
  <2> QED BY <2>2, <2>3
<1> QED BY <1>1, <1>2, <1>3, <1>4, <1>5, <1>6 DEF ClientNext, HandleAny

\* The invariant of client and daemon holds over any crashes and requests.
LEMMA ClientInvariant == ClientSpec => []ClientInv
<1>1. ClientInit => ClientInv
  <2> SUFFICES ASSUME ClientInit PROVE ClientInv
    OBVIOUS
  <2>1. ClientTypeOK
    BY DEF ClientInit, Init, ClientTypeOK, TypeOK, Empty, Items
  <2>2. ProcessInv /\ StoreInv
    BY DEF ClientInit, Init, ProcessInv, StoreInv
  <2> QED BY <2>1, <2>2 DEF ClientInv
<1> QED BY <1>1, ClientStep, PTL DEF ClientSpec

-----------------------------------------------------------------------------
(* What follows from it.                                                   *)

\* A process that has accepted any update enforces every revocation that any
\* process before it recorded (device.rs:34-40), for any number of members and
\* devices and any number of crashes and requests on their way.
THEOREM RevocationSurvivesRestartHolds == ClientSpec => []RevocationSurvivesRestart
<1>1. ClientInv => RevocationSurvivesRestart
  <2> SUFFICES ASSUME ClientInv, handled # NoUpdate, NEW pair \in confirmed
               PROVE  /\ pair \in revoked
                      /\ pair[1] \in Members => pair[1] \notin Allowed
                      /\ pair[1] \notin member_of(pair[2])
    BY DEF RevocationSurvivesRestart
  <2>1. pair \in revoked /\ pair = <<pair[1], pair[2]>>
    BY DEF ClientInv, ProcessInv, ClientTypeOK
  <2>2. pair[1] \in Members => pair[1] \notin Allowed
    BY <2>1, RevokersAreOff DEF ClientInv, ClientTypeOK, RevokerIsOffItsCommsKey
  <2>3. \A l \in links : <<l.member, l.device>> \notin revoked
    BY DEF ClientInv, ProcessInv, Holds
  <2>4. pair[1] \notin member_of(pair[2])
    BY <2>1, <2>3 DEF member_of
  <2> QED BY <2>1, <2>2, <2>4
<1> QED BY <1>1, ClientInvariant, PTL

\* A registry that has accepted what the client now stores is the one a fresh
\* daemon would build from it (DeviceRegistry::update), and the state is well typed.
THEOREM HistoryLeavesNoTraceHolds == ClientSpec => []HistoryLeavesNoTrace
<1>1. ClientInv => HistoryLeavesNoTrace
  <2> SUFFICES ASSUME ClientInv, handled = store
               PROVE  /\ revoked = Banned(store.revocations)
                      /\ \E kept \in SUBSET Verified(store.links) :
                           /\ OnePerDevice(Verified(store.links), kept)
                           /\ links = {l \in kept : <<l.member, l.device>> \notin Banned(store.revocations)}
    BY DEF HistoryLeavesNoTrace, ClientInv, Banned, Verified
  <2>1. handled # NoUpdate
    BY NoUpdateAssumption DEF ClientInv, ClientTypeOK
  <2>2. Holds(store)
    BY <2>1 DEF ClientInv, ProcessInv
  <2>3. revoked = Banned(store.revocations)
    BY <2>2 DEF ClientInv, StoreInv, Holds
  <2> QED BY <2>2, <2>3 DEF Holds
<1> QED BY <1>1, ClientInvariant, PTL

-----------------------------------------------------------------------------
(* A process is a registry.                                                *)

\* A crash leaves a registry as it is at the start.
LEMMA CrashStartsOver == Crash => Init'
BY DEF Crash, Init

\* Whatever the client, the network and the process do, the registry takes a step
\* of its own or none, or starts over.
LEMMA RegistryOrCrash == ClientTypeOK /\ [ClientNext]_clientVars => [Next \/ Init']_vars
<1> SUFFICES ASSUME ClientTypeOK, [ClientNext]_clientVars PROVE [Next \/ Init']_vars
  OBVIOUS
<1>1. ASSUME NEW u \in inflight, Handle(u) PROVE Next
  <2>1. u \in [roster : Rosters, items : Items]
    BY DEF ClientTypeOK
  <2>2. /\ u.roster \in Rosters /\ u.items.links \in SUBSET LinkPool
        /\ u.items.revocations \in SUBSET RevocationPool
    BY <2>1 DEF Items
  <2> QED BY <1>1, <2>2 DEF Handle, Next
<1>2. CASE Crash
  BY <1>2, CrashStartsOver
<1>3. ASSUME \/ \E l \in LinkPool : Relink(l)
             \/ \E r \in RevocationPool : Revoke(r)
             \/ \E new \in Rosters : Send(new)
             \/ Restart \/ UNCHANGED clientVars
      PROVE  UNCHANGED vars
  BY <1>3 DEF Relink, Revoke, Send, Restart, daemonVars, clientVars
<1> QED BY <1>1, <1>2, <1>3 DEF ClientNext, HandleAny

\* In a daemon that may crash at any time, from one crash to the next, the registry
\* is a behaviour of DeviceRegistry: no request in another order, on another
\* connection or from before a restart takes it anywhere an update cannot
\* (set_roster_with_devices).
THEOREM ProcessIsRegistry == ClientSpec => Init /\ [][Next \/ Init']_vars
<1>1. ClientInit => Init
  BY DEF ClientInit
<1>2. ClientInv => ClientTypeOK
  BY DEF ClientInv
<1> QED BY <1>1, <1>2, RegistryOrCrash, ClientInvariant, PTL DEF ClientSpec

\* So what holds of every registry holds over crashes, restarts and requests in any
\* order: links are sound and uncontested, whoever is let in has earned it, retired
\* keys stay so, and Devices lists the peers.
THEOREM RegistrySoundOverRestarts ==
  ClientSpec => [](/\ RegistrySound /\ ContestedIsNobodys
                   /\ AllowedIsEarned /\ CommsKeyRetired /\ DevicesListsThePeers)
<1> DEFINE Inv == TypeOK /\ RegistrySound /\ ContestedIsNobodys
<1>1. Init => Inv
  BY DEF Init, TypeOK, RegistrySound, ContestedIsNobodys
<1>2. Init' => Inv'
  BY <1>1, PTL
<1>3. Inv /\ [Next \/ Init']_vars => Inv'
  BY <1>2, TypeStep, SoundStep, ContestedStep
<1>4. Inv => AllowedIsEarned /\ CommsKeyRetired /\ DevicesListsThePeers
  BY RolesAreChecked, DevicesAreLinked, RevokersAreOff, OneOrTheOther, ListedArePeers
     DEF AllowedIsEarned, CommsKeyRetired
<1> HIDE DEF Inv
<1>5. Inv => RegistrySound /\ ContestedIsNobodys
  BY DEF Inv
<1> QED BY <1>1, <1>3, <1>4, <1>5, ProcessIsRegistry, PTL
=============================================================================
