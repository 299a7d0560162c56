------------------------ MODULE ClusterDaemonProofs ------------------------
(***************************************************************************)
(* Proofs about ClusterDaemon, for any groups, rosters, links and limits.  *)
(***************************************************************************)
EXTENDS ClusterDaemon, FiniteSetTheorems, TLAPS

-----------------------------------------------------------------------------
(* The registries.                                                         *)

\* Whatever a registry lets in, before a step and after it, is an address.
LEMMA AllowedAreAddresses ==
  \A g : D(g)!Allowed \subseteq Address /\ D(g)!Allowed' \subseteq Address
BY DEF D!Allowed, D!allowed_set, D!canonical_address

\* What SetRoster makes of a group's registry, field by field.
LEMMA RegistryStep ==
  ASSUME TypeOK, NEW g \in Group, NEW new \in Rosters, NEW ls \in SUBSET LinkPool,
         NEW rs \in SUBSET RevocationPool, SetRoster(g, new, ls, rs)
  PROVE  /\ device_state' \in [Group -> [roster : Rosters \cup {{}}, links : SUBSET LinkPool,
                                          revoked : SUBSET (Address \X Address),
                                          offered : SUBSET LinkPool]]
         /\ \A h \in Group \ {g} : device_state'[h] = device_state[h]
         /\ device_state[g].revoked \subseteq device_state'[g].revoked
<1>1. PICK reg \in Candidates(device_state[g], new, ls, rs) :
        device_state' = [device_state EXCEPT ![g] = reg]
  BY DEF SetRoster
<1>2. Revokes(rs) \subseteq Address \X Address
  BY PoolAssumption DEF Revokes
<1>3. reg \in [roster : Rosters \cup {{}}, links : SUBSET LinkPool,
               revoked : SUBSET (Address \X Address), offered : SUBSET LinkPool]
  BY <1>1, <1>2 DEF Candidates, TypeOK
<1>4. device_state[g].revoked \subseteq reg.revoked
  BY <1>1 DEF Candidates
<1> QED BY <1>1, <1>3, <1>4 DEF TypeOK

\* A registry whose fields do not change lets in whom it let in.
LEMMA SameRegistry ==
  ASSUME NEW g, device_state'[g] = device_state[g]
  PROVE  D(g)!Allowed' = D(g)!Allowed
BY DEF D!Allowed, D!effective_roster, D!Members, D!OnDeviceKeys, D!ActiveLinks, D!role_of

-----------------------------------------------------------------------------
(* Limits.                                                                 *)

\* What a drain leaves in a group's set.
LEMMA DrainStep ==
  ASSUME WithinLimits, NEW g \in Group, NEW data \in SUBSET (Cid \cup {Malformed}),
         drain_into_shared(g, data)
  PROVE  /\ shared_files' \in [Group -> SUBSET Cid]
         /\ \A h \in Group : /\ Cardinality(shared_files'[h]) <= MAX_SHARED_FILES
                             /\ shared_files'[h] # {} => h \in groups
<1>1. CASE g \notin groups
  BY <1>1 DEF drain_into_shared, WithinLimits, TypeOK
<1>2. CASE g \in groups
  <2>1. PICK s \in CoPinned(shared_files[g], data \ {Malformed}) :
          shared_files' = [shared_files EXCEPT ![g] = s]
    BY <1>2 DEF drain_into_shared
  <2>2. s \in SUBSET Cid /\ Cardinality(s) <= MAX_SHARED_FILES
    BY <2>1 DEF CoPinned, WithinLimits, TypeOK
  <2> QED BY <1>2, <2>1, <2>2 DEF WithinLimits, TypeOK
<1> QED BY <1>1, <1>2

\* Serving one more group, or the same, keeps to the limit.
LEMMA ServeStep ==
  ASSUME WithinLimits, IsFiniteSet(groups), NEW g \in Group, Serve(g)
  PROVE  /\ IsFiniteSet(groups') /\ groups \subseteq groups' /\ g \in groups'
         /\ groups' \subseteq Group /\ Blank \notin groups'
         /\ Cardinality(groups') <= MAX_GROUPS
         /\ single_group # NoGroup => groups' \subseteq {single_group}
<1>1. groups' = groups \cup {g}
  BY DEF Serve
<1>2. /\ IsFiniteSet(groups \cup {g}) /\ Cardinality(groups) \in Nat
      /\ Cardinality(groups \cup {g}) = IF g \in groups THEN Cardinality(groups) ELSE Cardinality(groups) + 1
  BY FS_AddElement, FS_CardinalityType
<1>3. Cardinality(groups') <= MAX_GROUPS /\ Blank \notin groups'
  BY <1>1, <1>2, BoundAssumption DEF Serve, ensure_session, WithinLimits
<1> QED BY <1>1, <1>2, <1>3 DEF Serve, ensure_group_allowed, WithinLimits, TypeOK

\* The invariant behind WithinLimits: a cardinality says something of finite sets
\* only.
LimitsInv == WithinLimits /\ IsFiniteSet(groups)

\* Every step keeps to the limits.
LEMMA LimitsStep == LimitsInv /\ [Next]_vars => LimitsInv'
<1> SUFFICES ASSUME LimitsInv, [Next]_vars PROVE LimitsInv'
  OBVIOUS
<1> USE DEF LimitsInv
<1>1. ASSUME NEW g \in Group, NEW new \in Rosters, NEW ls \in SUBSET LinkPool,
             NEW rs \in SUBSET RevocationPool, SetRoster(g, new, ls, rs)
      PROVE  LimitsInv'
  <2>1. Serve(g) /\ UNCHANGED <<single_group, shared_files>> /\ apply_roster(g, D(g)!Allowed')
    BY <1>1 DEF SetRoster
  <2>2. D(g)!Allowed' \subseteq Address
    BY AllowedAreAddresses
  <2>3. /\ allowed' \in [Group -> SUBSET Address] /\ admitted' \in [Group -> SUBSET Address]
        /\ authorized' \in [Group -> SUBSET Address]
    BY <2>1, <2>2 DEF apply_roster, WithinLimits, TypeOK
  <2>4. TypeOK'
    BY <1>1, <2>1, <2>3, RegistryStep, ServeStep DEF WithinLimits, TypeOK
  <2> QED BY <2>1, <2>4, ServeStep DEF WithinLimits
<1>2. ASSUME NEW g \in Group, Join(g) PROVE LimitsInv'
  BY <1>2, ServeStep DEF Join, WithinLimits, TypeOK
<1>3. ASSUME NEW g \in Group, Leave(g) PROVE LimitsInv'
  <2>1. groups' = groups \ {g} /\ UNCHANGED single_group
    BY <1>3 DEF Leave
  <2>2. IsFiniteSet(groups') /\ Cardinality(groups') <= MAX_GROUPS
    <3>1. /\ IsFiniteSet(groups \ {g})
          /\ Cardinality(groups \ {g}) =
               IF g \in groups THEN Cardinality(groups) - 1 ELSE Cardinality(groups)
      BY FS_RemoveElement
    <3>2. Cardinality(groups) \in Nat
      BY FS_CardinalityType
    <3> QED BY <2>1, <3>1, <3>2, BoundAssumption DEF WithinLimits
  <2>3. TypeOK'
    BY <1>3 DEF Leave, WithinLimits, TypeOK
  <2>4. Cardinality({}) = 0
    BY FS_EmptySet
  <2> QED BY <1>3, <2>1, <2>2, <2>3, <2>4, BoundAssumption DEF Leave, WithinLimits, TypeOK
<1>4. ASSUME NEW g \in Group, NEW wire \in SUBSET Address, Peers(g, wire) PROVE LimitsInv'
  BY <1>4 DEF Peers, sync_admission, WithinLimits, TypeOK
<1>5. ASSUME NEW g \in Group, NEW wire \in SUBSET Address,
             NEW data \in SUBSET (Cid \cup {Malformed}), Status(g, wire, data)
      PROVE  LimitsInv'
  BY <1>5, DrainStep DEF Status, sync_admission, WithinLimits, TypeOK
<1>6. ASSUME NEW g \in Group, NEW data \in SUBSET (Cid \cup {Malformed}), SharedFiles(g, data)
      PROVE  LimitsInv'
  BY <1>6, DrainStep DEF SharedFiles, sessionVars, WithinLimits, TypeOK
<1>7. ASSUME NEW g \in Group, NEW cid \in Cid \cup {Malformed}, ShareFile(g, cid) PROVE LimitsInv'
  <2>1. shared_files[g] \subseteq Cid /\ cid \in Cid
    BY <1>7 DEF ShareFile, WithinLimits, TypeOK
  <2>2. IsFiniteSet(shared_files[g])
    BY <2>1, CidAssumption, FS_Subset
  <2>3. /\ Cardinality(shared_files[g]) \in Nat
        /\ Cardinality(shared_files[g] \cup {cid}) =
             IF cid \in shared_files[g] THEN Cardinality(shared_files[g])
                                        ELSE Cardinality(shared_files[g]) + 1
    BY <2>2, FS_AddElement, FS_CardinalityType
  <2>4. Cardinality(shared_files[g] \cup {cid}) <= MAX_SHARED_FILES
    BY <1>7, <2>3, BoundAssumption DEF ShareFile, WithinLimits
  <2> QED BY <1>7, <2>1, <2>4 DEF ShareFile, sessionVars, WithinLimits, TypeOK
<1>8. CASE UNCHANGED vars
  BY <1>8 DEF vars, sessionVars, WithinLimits, TypeOK
<1> QED BY <1>1, <1>2, <1>3, <1>4, <1>5, <1>6, <1>7, <1>8 DEF Next

\* The groups served and every shared set stay within their limits, and a pinned
\* daemon with its group (ensure_session, share_file, drain_into_shared).
THEOREM WithinLimitsHolds == Spec => []WithinLimits
<1>1. Init => LimitsInv
  <2> SUFFICES ASSUME Init PROVE LimitsInv
    OBVIOUS
  <2>1. IsFiniteSet({}) /\ Cardinality({}) = 0
    BY FS_EmptySet
  <2>2. TypeOK
    BY DEF Init, TypeOK, NoDevices
  <2> QED BY <2>1, <2>2, BoundAssumption DEF Init, LimitsInv, WithinLimits
<1>2. LimitsInv => WithinLimits
  BY DEF LimitsInv
<1> QED BY <1>1, <1>2, LimitsStep, PTL DEF Spec

-----------------------------------------------------------------------------
(* Sessions and registries.                                                *)

\* Every step changes at most one group's registry, by a step of DeviceRegistry,
\* and that group's session is there afterwards.
LEMMA RegistryNext ==
  ASSUME TypeOK, [Next]_vars, NEW h \in Group
  PROVE  \/ device_state'[h] = device_state[h]
         \/ /\ h \in groups'
            /\ \E new \in Rosters, ls \in SUBSET LinkPool, rs \in SUBSET RevocationPool :
                 D(h)!SetRoster(new, ls, rs)
<1>1. ASSUME NEW g \in Group, NEW new \in Rosters, NEW ls \in SUBSET LinkPool,
             NEW rs \in SUBSET RevocationPool, SetRoster(g, new, ls, rs)
      PROVE  \/ device_state'[h] = device_state[h]
             \/ h \in groups' /\ D(h)!SetRoster(new, ls, rs)
  <2>1. CASE h = g
    BY <1>1, <2>1 DEF SetRoster, Serve
  <2>2. CASE h # g
    BY <1>1, <2>2, RegistryStep
  <2> QED BY <2>1, <2>2
<1>2. CASE UNCHANGED device_state
  BY <1>2
<1> QED BY <1>1, <1>2 DEF Next, vars, Join, Leave, Peers, Status, SharedFiles, ShareFile

\* What apply_roster makes of a session that was in step with its transport.
LEMMA ApplyRosterStep ==
  ASSUME TypeOK, SessionFollowsRegistry, NEW g \in Group, NEW new \in SUBSET Address,
         apply_roster(g, new)
  PROVE  /\ allowed'[g] = new /\ authorized'[g] = new /\ admitted'[g] \subseteq new
         /\ \A h \in Group \ {g} : /\ allowed'[h] = allowed[h]
                                   /\ authorized'[h] = authorized[h]
                                   /\ admitted'[h] = admitted[h]
BY DEF apply_roster, TypeOK, SessionFollowsRegistry, InStep

\* Session, transport and registry of each group agree whatever is requested, in
\* whatever order (set_roster_with_devices, apply_roster, leave).
THEOREM SessionFollowsRegistryHolds == Spec => []SessionFollowsRegistry
<1>1. Init => SessionFollowsRegistry
  BY DEF Init, SessionFollowsRegistry, InStep
<1>2. TypeOK /\ SessionFollowsRegistry /\ [Next]_vars => SessionFollowsRegistry'
  <2> SUFFICES ASSUME TypeOK, SessionFollowsRegistry, [Next]_vars, NEW h \in Group
               PROVE  InStep(h)'
    BY DEF SessionFollowsRegistry
  <2>0. InStep(h)
    BY DEF SessionFollowsRegistry
  <2>1. ASSUME NEW g \in Group, NEW new \in Rosters, NEW ls \in SUBSET LinkPool,
               NEW rs \in SUBSET RevocationPool, SetRoster(g, new, ls, rs)
        PROVE  InStep(h)'
    <3>1. apply_roster(g, D(g)!Allowed') /\ groups' = groups \cup {g}
      BY <2>1 DEF SetRoster, Serve
    <3>2. D(g)!Allowed' \in SUBSET Address
      BY AllowedAreAddresses
    <3>3. CASE h = g
      BY <3>1, <3>2, <3>3, ApplyRosterStep DEF InStep
    <3>4. CASE h # g
      <4>1. D(h)!Allowed' = D(h)!Allowed
        BY <2>1, <3>4, RegistryStep, SameRegistry
      <4>2. allowed'[h] = allowed[h] /\ authorized'[h] = authorized[h] /\ admitted'[h] = admitted[h]
        BY <3>1, <3>2, <3>4, ApplyRosterStep
      <4> QED BY <2>0, <3>1, <4>1, <4>2 DEF InStep
    <3> QED BY <3>3, <3>4
  <2>2. UNCHANGED device_state => D(h)!Allowed' = D(h)!Allowed
    BY SameRegistry
  <2>3. ASSUME NEW g \in Group, Join(g) PROVE InStep(h)'
    BY <2>0, <2>2, <2>3 DEF Join, Serve, InStep
  <2>4. ASSUME NEW g \in Group, Leave(g) PROVE InStep(h)'
    BY <2>0, <2>2, <2>4 DEF Leave, InStep, TypeOK
  <2>5. ASSUME NEW g \in Group, NEW wire \in SUBSET Address, sync_admission(g, wire),
               UNCHANGED <<groups, allowed, authorized, device_state>>
        PROVE  InStep(h)'
    BY <2>0, <2>2, <2>5 DEF sync_admission, InStep, TypeOK
  <2>6. CASE UNCHANGED <<sessionVars, device_state>>
    BY <2>0, <2>2, <2>6 DEF sessionVars, InStep
  <2> QED BY <2>1, <2>3, <2>4, <2>5, <2>6 DEF Next, vars, Peers, Status, SharedFiles, ShareFile
<1>3. WithinLimits => TypeOK
  BY DEF WithinLimits
<1> QED BY <1>1, <1>2, <1>3, WithinLimitsHolds, PTL DEF Spec

\* A group's device state is recorded only together with its session: a refused
\* request leaves nothing behind (lib.rs:341).
THEOREM RefusedRecordsNothingHolds == Spec => RefusedRecordsNothing
<1>1. TypeOK /\ [Next]_vars =>
        [\A g \in Group : device_state'[g] # device_state[g] => g \in groups']_vars
  BY RegistryNext
<1>2. WithinLimits => TypeOK
  BY DEF WithinLimits
<1> QED BY <1>1, <1>2, WithinLimitsHolds, PTL DEF Spec, RefusedRecordsNothing

\* Each group's device state behaves as DeviceRegistry says, through every leave,
\* re-join and refusal, and whatever the other groups do: what is proved of one
\* registry holds for every group of the daemon.
THEOREM RegistryRefinement == Spec => \A g \in Group : D(g)!Spec
<1> SUFFICES ASSUME NEW g \in Group PROVE Spec => D(g)!Spec
  OBVIOUS
<1>1. Init => D(g)!Init
  BY DEF Init, NoDevices, D!Init
<1>2. TypeOK /\ [Next]_vars => [D(g)!Next]_(D(g)!vars)
  BY RegistryNext DEF D!Next, D!vars
<1>3. WithinLimits => TypeOK
  BY DEF WithinLimits
<1> QED BY <1>1, <1>2, <1>3, WithinLimitsHolds, PTL DEF Spec, D!Spec

\* No group holds a link its member has revoked, in this session or before.
NoRevokedLinks ==
  \A g \in Group : \A l \in device_state[g].links :
    <<l.member, l.device>> \notin device_state[g].revoked

\* A member on device keys is not let in as itself, before a step or after it.
LEMMA OffOwnKey ==
  ASSUME NEW g
  PROVE  /\ D(g)!Allowed \cap D(g)!Members \cap D(g)!OnDeviceKeys = {}
         /\ (D(g)!Allowed \cap D(g)!Members \cap D(g)!OnDeviceKeys)' = {}
<1> USE DEF D!Allowed, D!allowed_set, D!effective_roster, D!canonical_address, D!Canonical
<1>1. \A l \in D(g)!ActiveLinks : l.device \notin D(g)!Members
  BY DEF D!ActiveLinks
<1>2. \A l \in D(g)!ActiveLinks' : l.device \notin D(g)!Members'
  BY DEF D!ActiveLinks
<1>3. D(g)!Allowed \cap D(g)!Members \cap D(g)!OnDeviceKeys = {}
  BY <1>1
<1>4. (D(g)!Allowed \cap D(g)!Members \cap D(g)!OnDeviceKeys)' = {}
  BY <1>2
<1> QED BY <1>3, <1>4

\* A recorded revocation is never forgotten, and neither the device nor the member
\* itself is a peer for it again, through any later roster, leave and re-join
\* (lib.rs:422-423).
THEOREM RevocationOutlivesLeaveHolds == Spec => RevocationOutlivesLeave
<1> DEFINE Outlives ==
      \A g \in Group : \A pair \in device_state[g].revoked :
        /\ pair \in device_state'[g].revoked
        /\ pair[1] \notin D(g)!member_of(pair[2])'
        /\ pair[1] \in D(g)!Members' => pair[1] \notin allowed'[g]
<1>1. Init => NoRevokedLinks
  BY DEF Init, NoDevices, NoRevokedLinks
<1>2. TypeOK /\ NoRevokedLinks /\ SessionFollowsRegistry' /\ [Next]_vars
        => NoRevokedLinks' /\ [Outlives]_vars
  <2> SUFFICES ASSUME TypeOK, NoRevokedLinks, SessionFollowsRegistry', [Next]_vars
               PROVE  NoRevokedLinks' /\ Outlives
    OBVIOUS
  <2>1. ASSUME NEW g \in Group
        PROVE  /\ device_state[g].revoked \subseteq device_state'[g].revoked
               /\ \A l \in device_state'[g].links :
                    <<l.member, l.device>> \notin device_state'[g].revoked
    <3>1. CASE device_state'[g] = device_state[g]
      BY <3>1 DEF NoRevokedLinks
    <3>2. ASSUME NEW new, NEW ls, NEW rs, D(g)!SetRoster(new, ls, rs)
          PROVE  /\ device_state[g].revoked \subseteq device_state'[g].revoked
                 /\ \A l \in device_state'[g].links :
                      <<l.member, l.device>> \notin device_state'[g].revoked
      BY <3>2 DEF D!SetRoster, D!UpdateRegistry, NoRevokedLinks
    <3> QED BY <3>1, <3>2, RegistryNext
  <2>2. ASSUME NEW g \in Group, NEW pair \in device_state[g].revoked
        PROVE  pair \in device_state'[g].revoked /\ pair[1] \notin D(g)!member_of(pair[2])'
    <3>1. pair = <<pair[1], pair[2]>>
      BY DEF TypeOK
    <3> QED BY <2>1, <3>1 DEF D!member_of
  <2>3. ASSUME NEW g \in Group, NEW pair \in device_state[g].revoked, pair[1] \in D(g)!Members'
        PROVE  pair[1] \notin allowed'[g]
    <3>1. pair[1] \in D(g)!OnDeviceKeys'
      BY <2>2 DEF D!OnDeviceKeys
    <3>2. pair[1] \notin D(g)!Allowed'
      BY <2>3, <3>1, OffOwnKey
    <3> QED BY <3>2 DEF SessionFollowsRegistry, InStep
  <2> QED BY <2>1, <2>2, <2>3 DEF NoRevokedLinks
<1>3. WithinLimits => TypeOK
  BY DEF WithinLimits
<1> QED BY <1>1, <1>2, <1>3, WithinLimitsHolds, SessionFollowsRegistryHolds, PTL
        DEF Spec, RevocationOutlivesLeave
=============================================================================
