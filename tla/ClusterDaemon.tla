---------------------------- MODULE ClusterDaemon ----------------------------
(***************************************************************************)
(* The daemon behind the IPC: a session per group, created on first use    *)
(* and dropped by Leave, next to two maps that outlive or share its life:  *)
(* the groups' device state, which Leave keeps, and their shared files,    *)
(* which it drops.  One action per request, atomic under the server's lock *)
(* (handle_request); a refused request is a step that changes nothing.     *)
(*                                                                         *)
(* The transport is seen as these requests see it: `authorized` is what    *)
(* they asked of it; the connected peers and the drained messages they     *)
(* read are whatever the swarm task has put there (Libp2pTransport).       *)
(* Seed and AddSeed touch the transport only and are in Redial; admit_peer *)
(* and drop_peer, which no request reaches, are in ClusterSession.         *)
(***************************************************************************)
EXTENDS Roster, FiniteSets

CONSTANTS
  Group,
  Blank,                   \* a group id with nothing but blanks in it
  NoGroup,                 \* single_group's None
  Cid, Malformed,          \* what a message or a ShareFile may carry
  Rosters, LinkPool, RevocationPool, MAX_LINKS_PER_UPDATE,     \* as in DeviceRegistry
  MAX_GROUPS, MAX_SHARED_FILES

ASSUME GroupAssumption == NoGroup \notin Group
ASSUME BoundAssumption == MAX_GROUPS \in Nat /\ MAX_SHARED_FILES \in Nat
\* A well-formed CID has a bounded length (is_valid_cid).
ASSUME CidAssumption == IsFiniteSet(Cid)

VARIABLES
  single_group,            \* the group the daemon is pinned to, chosen at start
  groups,                  \* the groups with a session
  allowed, admitted,       \* each session's membership
  authorized,              \* what each session's transport was told
  device_state,            \* each group's GroupDevices
  shared_files             \* each group's co-pinned set

sessionVars == <<groups, allowed, admitted, authorized>>
vars == <<single_group, sessionVars, device_state, shared_files>>

\* A group's registry: the fields of DeviceRegistry's variables.
NoDevices == [roster |-> {}, links |-> {}, revoked |-> {}, offered |-> {}]

\* What a registry `reg` can turn into with such an update, before it is checked.
Revokes(rs) == {<<r.member, r.device>> : r \in rs}
Candidates(reg, new, ls, rs) ==
  [roster : {new}, links : (SUBSET ls) \cup {reg.links}, offered : {ls, reg.offered},
   revoked : {reg.revoked \cup new_pairs : new_pairs \in SUBSET Revokes(rs)}]

D(g) == INSTANCE DeviceRegistry WITH
          roster <- device_state[g].roster, links <- device_state[g].links,
          revoked <- device_state[g].revoked, offered <- device_state[g].offered

ASSUME PoolAssumption ==
  /\ \A l \in LinkPool : l.member \in Address /\ l.device \in Address
  /\ \A r \in RevocationPool : r.member \in Address /\ r.device \in Address

Init ==
  /\ single_group \in Group \cup {NoGroup}
  /\ groups = {}
  /\ allowed = [g \in Group |-> {}]
  /\ admitted = [g \in Group |-> {}]
  /\ authorized = [g \in Group |-> {}]
  /\ device_state = [g \in Group |-> NoDevices]
  /\ shared_files = [g \in Group |-> {}]

-----------------------------------------------------------------------------
(* Sessions.                                                               *)

ensure_group_allowed(g) == single_group \in {g, NoGroup}

\* Mutation: one group too many.
ensure_session_one_more(g) ==
  \/ g \in groups
  \/ g # Blank /\ Cardinality(groups) <= MAX_GROUPS

\* A new session needs a proper id and room.  The factory may still fail to
\* build its transport: then, as for any refusal, the request does nothing.
ensure_session(g) ==
  \/ g \in groups
  \/ g # Blank /\ Cardinality(groups) < MAX_GROUPS

Serve(g) ==
  /\ ensure_group_allowed(g) /\ ensure_session(g)
  /\ groups' = groups \cup {g}

\* Mutation: an address that is not admitted stays authorized.
apply_roster_evicts_only(g, new) ==
  /\ allowed'    = [allowed EXCEPT ![g] = new]
  /\ admitted'   = [admitted EXCEPT ![g] = @ \cap new]
  /\ authorized' = [authorized EXCEPT ![g] = (@ \ (admitted[g] \ new)) \cup new]

\* Reconcile the session, disconnect what left the allowed set, authorize it all.
apply_roster(g, new) ==
  LET evicted == admitted[g] \ new
      removed == allowed[g] \ new
  IN  /\ allowed'    = [allowed EXCEPT ![g] = new]
      /\ admitted'   = [admitted EXCEPT ![g] = @ \ evicted]
      /\ authorized' = [authorized EXCEPT ![g] = ((@ \ evicted) \ removed) \cup new]

\* Mutation: the device state is recorded before the session is asked for.
SetRoster_records_first(g, new, ls, rs) ==
  /\ \E reg \in Candidates(device_state[g], new, ls, rs) :
       device_state' = [device_state EXCEPT ![g] = reg]
  /\ D(g)!SetRoster(new, ls, rs)
  /\ IF ensure_group_allowed(g) /\ ensure_session(g)
       THEN groups' = groups \cup {g} /\ apply_roster(g, D(g)!Allowed')
       ELSE UNCHANGED sessionVars
  /\ UNCHANGED <<single_group, shared_files>>

\* set_roster_with_devices: the registry's own step, then the reconcile.
SetRoster(g, new, ls, rs) ==
  /\ Serve(g)
  /\ \E reg \in Candidates(device_state[g], new, ls, rs) :
       device_state' = [device_state EXCEPT ![g] = reg]
  /\ D(g)!SetRoster(new, ls, rs)
  /\ apply_roster(g, D(g)!Allowed')
  /\ UNCHANGED <<single_group, shared_files>>

Join(g) ==
  /\ Serve(g)
  /\ UNCHANGED <<single_group, allowed, admitted, authorized, device_state, shared_files>>

\* Mutation: Leave forgets everything of the group.
Leave_forgets(g) ==
  /\ groups'       = groups \ {g}
  /\ allowed'      = [allowed EXCEPT ![g] = {}]
  /\ admitted'     = [admitted EXCEPT ![g] = {}]
  /\ authorized'   = [authorized EXCEPT ![g] = {}]
  /\ shared_files' = [shared_files EXCEPT ![g] = {}]
  /\ device_state' = [device_state EXCEPT ![g] = NoDevices]
  /\ UNCHANGED single_group

\* Leave: the session and the shared files go, the device state stays.
Leave(g) ==
  /\ groups'       = groups \ {g}
  /\ allowed'      = [allowed EXCEPT ![g] = {}]
  /\ admitted'     = [admitted EXCEPT ![g] = {}]
  /\ authorized'   = [authorized EXCEPT ![g] = {}]
  /\ shared_files' = [shared_files EXCEPT ![g] = {}]
  /\ UNCHANGED <<single_group, device_state>>

-----------------------------------------------------------------------------
(* Reads.                                                                  *)

\* sync_admission, with `wire` as the transport's connected set.
sync_admission(g, wire) ==
  admitted' = IF g \in groups THEN [admitted EXCEPT ![g] = wire \cap allowed[g]] ELSE admitted

\* What a set may become when messages arrive in some order: all of them are
\* taken until the set is full.
CoPinned(set, data) ==
  {s \in SUBSET (set \cup data) :
     /\ set \subseteq s
     /\ Cardinality(s) <= MAX_SHARED_FILES
     /\ s = set \cup data \/ Cardinality(s) = MAX_SHARED_FILES}

drain_into_shared(g, data) ==
  IF g \in groups
    THEN \E s \in CoPinned(shared_files[g], data \ {Malformed}) :
           shared_files' = [shared_files EXCEPT ![g] = s]
    ELSE UNCHANGED shared_files

\* Peers and Devices.
Peers(g, wire) ==
  /\ sync_admission(g, wire)
  /\ UNCHANGED <<single_group, groups, allowed, authorized, device_state, shared_files>>

\* Status and Poll.
Status(g, wire, data) ==
  /\ sync_admission(g, wire)
  /\ drain_into_shared(g, data)
  /\ UNCHANGED <<single_group, groups, allowed, authorized, device_state>>

\* SharedFiles: drains without a sync.
SharedFiles(g, data) ==
  /\ drain_into_shared(g, data)
  /\ UNCHANGED <<single_group, sessionVars, device_state>>

-----------------------------------------------------------------------------
ShareFile(g, cid) ==
  /\ g \in groups /\ cid # Malformed
  /\ cid \in shared_files[g] \/ Cardinality(shared_files[g]) < MAX_SHARED_FILES
  /\ shared_files' = [shared_files EXCEPT ![g] = @ \cup {cid}]
  /\ UNCHANGED <<single_group, sessionVars, device_state>>

-----------------------------------------------------------------------------
Next ==
  \E g \in Group :
    \/ \E new \in Rosters, ls \in SUBSET LinkPool, rs \in SUBSET RevocationPool :
         SetRoster(g, new, ls, rs)
    \/ Join(g)
    \/ Leave(g)
    \/ \E wire \in SUBSET Address : Peers(g, wire)
    \/ \E wire \in SUBSET Address, data \in SUBSET (Cid \cup {Malformed}) : Status(g, wire, data)
    \/ \E data \in SUBSET (Cid \cup {Malformed}) : SharedFiles(g, data)
    \/ \E cid \in Cid \cup {Malformed} : ShareFile(g, cid)

Spec == Init /\ [][Next]_vars

-----------------------------------------------------------------------------
(* Properties.                                                             *)

\* The type of the daemon's maps; a group without a session has an empty one.
TypeOK ==
  /\ single_group \in Group \cup {NoGroup}
  /\ groups \subseteq Group
  /\ allowed \in [Group -> SUBSET Address]
  /\ admitted \in [Group -> SUBSET Address]
  /\ authorized \in [Group -> SUBSET Address]
  /\ device_state \in [Group -> [roster : Rosters \cup {{}}, links : SUBSET LinkPool,
                                  revoked : SUBSET (Address \X Address),
                                  offered : SUBSET LinkPool]]
  /\ shared_files \in [Group -> SUBSET Cid]

\* Session, transport and registry of a group agree.
InStep(g) == /\ admitted[g] \subseteq allowed[g]
             /\ authorized[g] = allowed[g]
             /\ allowed[g] # {} => g \in groups /\ allowed[g] = D(g)!Allowed

\* What a transport authorizes is what its session allows, and that is what the
\* group's recorded roster, links and revocations say, or nothing after a
\* re-join: no order of requests, refused ones included, splits the three
\* (set_roster_with_devices, apply_roster, leave).
SessionFollowsRegistry == \A g \in Group : InStep(g)

\* The limits of ensure_session, share_file and drain_into_shared hold together,
\* and a pinned daemon serves its own group only; the maps are well typed.
WithinLimits ==
  /\ TypeOK
  /\ Cardinality(groups) <= MAX_GROUPS /\ Blank \notin groups
  /\ single_group # NoGroup => groups \subseteq {single_group}
  /\ \A g \in Group : /\ Cardinality(shared_files[g]) <= MAX_SHARED_FILES
                      /\ shared_files[g] # {} => g \in groups

\* A group the daemon refuses leaves no device state behind (lib.rs:341).
RefusedRecordsNothing ==
  [][\A g \in Group : device_state'[g] # device_state[g] => g \in groups']_vars

\* A revocation is never forgotten and its device never again its member's, and
\* the member is never again a peer as itself, through any later roster, leave and
\* re-join, in the session as in the registry (lib.rs:422-423).
RevocationOutlivesLeave ==
  [][\A g \in Group : \A pair \in device_state[g].revoked :
       /\ pair \in device_state'[g].revoked
       /\ pair[1] \notin D(g)!member_of(pair[2])'
       /\ pair[1] \in D(g)!Members' => pair[1] \notin allowed'[g]]_vars
=============================================================================
