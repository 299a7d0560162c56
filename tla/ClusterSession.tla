--------------------------- MODULE ClusterSession ---------------------------
(***************************************************************************)
(* cluster-core's ClusterSession: a ClusterMembership bound to a           *)
(* ClusterTransport, here the in-process one, whose `connected` is exactly *)
(* what was dialed and not disconnected.  One action per operation; each   *)
(* runs under the daemon's mutex and so is atomic.                         *)
(***************************************************************************)
EXTENDS Roster

CONSTANTS
  SessionRosters, \* the rosters that may be set
  Candidates      \* the raw addresses that may join or leave

ASSUME InputAssumption == /\ \A r \in SessionRosters : r \subseteq Entry
                          /\ Candidates \subseteq RawAddress

VARIABLES
  allowed, admitted,     \* ClusterMembership
  connected              \* InProcessTransport

sessionVars == <<allowed, admitted, connected>>

SessionInit == allowed = {} /\ admitted = {} /\ connected = {}

-----------------------------------------------------------------------------
(* ClusterMembership.                                                      *)

\* Mutation: the role is checked and the roster is not.
Admits_any_member(raw, role) == InCluster(role) /\ canonical_address(raw) # NoAddress

\* The policy of ClusterMembership::join, which is also `admit` plus the role.
Admits(raw, role) == InCluster(role) /\ canonical_address(raw) \in allowed

\* ClusterSession::join, as the daemon's admit_peer calls it.
Join(raw, role) ==
  /\ Admits(raw, role)
  /\ admitted'  = admitted \cup {canonical_address(raw)}
  /\ connected' = connected \cup {canonical_address(raw)}
  /\ UNCHANGED allowed

\* ClusterSession::leave, as drop_peer calls it.
Leave(raw) ==
  /\ admitted'  = admitted \ {canonical_address(raw)}
  /\ connected' = connected \ {canonical_address(raw)}
  /\ UNCHANGED allowed

\* ClusterSession::reconcile: evict and disconnect in one step.
Reconcile(roster) ==
  LET new == allowed_set(roster)
      evicted == admitted \ new
  IN  /\ allowed'   = new
      /\ admitted'  = admitted \ evicted
      /\ connected' = connected \ evicted

\* Mutation: the evicted peers are forgotten and not disconnected.
ApplyRoster_forgets(roster) ==
  /\ allowed'  = allowed_set(roster)
  /\ admitted' = admitted \cap allowed_set(roster)
  /\ UNCHANGED connected

\* The daemon's apply_roster: reconcile, then disconnect whatever left the
\* allowed set; `authorize` does nothing on this transport.
ApplyRoster(roster) ==
  LET new == allowed_set(roster)
      evicted == admitted \ new
      removed == allowed \ new
  IN  /\ allowed'   = new
      /\ admitted'  = admitted \ evicted
      /\ connected' = (connected \ evicted) \ removed

\* sync_admitted_from_wire, before every read of the session.
SyncAdmitted ==
  /\ admitted' = connected \cap allowed
  /\ UNCHANGED <<allowed, connected>>

-----------------------------------------------------------------------------
SessionNext ==
  \/ \E raw \in Candidates, role \in Role : Join(raw, role)
  \/ \E raw \in Candidates : Leave(raw)
  \/ \E roster \in SessionRosters : Reconcile(roster) \/ ApplyRoster(roster)
  \/ SyncAdmitted

SessionSpec == SessionInit /\ [][SessionNext]_sessionVars

-----------------------------------------------------------------------------
(* Properties.                                                             *)

\* The type of ClusterMembership and of the in-process transport.
SessionTypeOK == allowed \subseteq Address /\ admitted \subseteq Address /\ connected \subseteq Address

\* The invariants of ClusterMembership (invariant_holds) and ClusterSession
\* (wire_tracks_admitted): no sequence of joins, role drops, rosters with other
\* spellings and syncs leaves a peer on the wire the gate would not admit.
WireTracksRoster == connected \subseteq admitted /\ admitted \subseteq allowed

\* The session keeps the promise of Admission with its wire as the mesh.
A == INSTANCE Admission WITH meshed <- connected

ImplementsAdmission == A!Spec
=============================================================================
