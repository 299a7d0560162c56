---------------------------- MODULE RosterClient ----------------------------
(***************************************************************************)
(* A group's device registry in a daemon that may crash, and the client    *)
(* that feeds it.  The daemon keeps nothing on disk: a restart begins with *)
(* an empty registry.  The client keeps its links and revocations in a     *)
(* store of its own and sends all of them with every roster.  It may have  *)
(* requests on several connections, which the daemon takes in any order;   *)
(* a crash loses those it has not taken.                                   *)
(*                                                                         *)
(* The client is outside this repository: it is modelled as far as         *)
(* ADR-003 and the SetRoster request describe it.                          *)
(***************************************************************************)
EXTENDS DeviceRegistry

CONSTANTS
  NoUpdate,                \* the daemon has not accepted any yet
  MaxInFlight              \* bound: requests on their way

ASSUME InFlightAssumption == MaxInFlight \in Nat

VARIABLES
  up,                                \* the daemon runs
  store,                             \* the client's links and revocations
  inflight,                          \* SetRoster requests the daemon has yet to take
  handled,                           \* history: the last update this process accepted
  confirmed                          \* history: the revocations any process recorded

daemonVars == <<vars, up, handled>>
clientVars == <<daemonVars, store, inflight, confirmed>>

\* What a client sends along with a roster.
Items == [links : SUBSET LinkPool, revocations : SUBSET RevocationPool]

ASSUME NoUpdateAssumption == NoUpdate \notin Items

Empty == [links |-> {}, revocations |-> {}]

ClientInit ==
  /\ Init
  /\ up = TRUE /\ handled = NoUpdate
  /\ store = Empty
  /\ inflight = {}
  /\ confirmed = {}

-----------------------------------------------------------------------------
(* The client.                                                             *)

\* A link is issued, or is no longer sent.
Relink(l) ==
  /\ store' = [store EXCEPT !.links = IF l \in @ THEN @ \ {l} ELSE @ \cup {l}]
  /\ UNCHANGED <<daemonVars, inflight, confirmed>>

\* A revocation is kept for good.
Revoke(r) ==
  /\ store' = [store EXCEPT !.revocations = @ \cup {r}]
  /\ UNCHANGED <<daemonVars, inflight, confirmed>>

Send(new) ==
  /\ up /\ Cardinality(inflight) < MaxInFlight
  /\ inflight' = inflight \cup {[roster |-> new, items |-> store]}
  /\ UNCHANGED <<daemonVars, store, confirmed>>

-----------------------------------------------------------------------------
(* The daemon.                                                             *)

\* SetRoster.  The roster takes effect even when the items are refused.
Handle(u) ==
  /\ up /\ u \in inflight
  /\ inflight' = inflight \ {u}
  /\ SetRoster(u.roster, u.items.links, u.items.revocations)
  /\ handled' = IF TooMany(u.items.links, u.items.revocations) THEN handled ELSE u.items
  /\ confirmed' = confirmed \cup revoked'
  /\ UNCHANGED <<up, store>>

\* The process ends, and all it knew with it.
Crash ==
  /\ up /\ up' = FALSE
  /\ roster' = {} /\ links' = {} /\ revoked' = {} /\ offered' = {}
  /\ handled' = NoUpdate
  /\ inflight' = {}
  /\ UNCHANGED <<store, confirmed>>

Restart ==
  /\ ~up /\ up' = TRUE
  /\ UNCHANGED <<vars, handled, store, inflight, confirmed>>

-----------------------------------------------------------------------------
HandleAny == \E u \in inflight : Handle(u)

ClientNext == \/ \E l \in LinkPool : Relink(l)
              \/ \E r \in RevocationPool : Revoke(r)
              \/ \E new \in Rosters : Send(new)
              \/ HandleAny \/ Crash \/ Restart

ClientSpec == ClientInit /\ [][ClientNext]_clientVars

\* The client goes on sending rosters and the daemon is restarted.  A daemon that
\* crashes again and again still handles a request now and then.
FairSpec == /\ ClientSpec
            /\ WF_clientVars(Restart)
            /\ SF_clientVars(\E new \in Rosters : Send(new)) /\ SF_clientVars(HandleAny)

-----------------------------------------------------------------------------
(* Properties.                                                             *)

Fits == ~TooMany(store.links, store.revocations)

\* The type of the composed state.
ClientTypeOK ==
  /\ TypeOK
  /\ up \in BOOLEAN
  /\ store \in Items
  /\ inflight \subseteq [roster : Rosters, items : Items]
  /\ handled \in Items \cup {NoUpdate}
  /\ confirmed \subseteq Address \X Address

\* What a daemon process once recorded is in force in every later process that
\* has accepted an update: the revoked device is not let in through its member,
\* and the member not as itself, in whatever order requests, crashes and restarts
\* come (device.rs:34-40; ADR-003:58-60).
RevocationSurvivesRestart ==
  handled # NoUpdate =>
    \A pair \in confirmed : /\ pair \in revoked
                            /\ pair[1] \in Members => pair[1] \notin Allowed
                            /\ pair[1] \notin member_of(pair[2])

\* A registry that has accepted what the client now stores is the one a fresh
\* daemon would build from it: what was sent, refused or withdrawn before leaves no
\* trace (DeviceRegistry::update replaces the links; no revocation is ever
\* withdrawn).  The composed state is well typed.
HistoryLeavesNoTrace ==
  /\ ClientTypeOK
  /\ handled = store =>
       LET verified == {l \in store.links : verify_link(l)}
           banned == {<<r.member, r.device>> : r \in {x \in store.revocations : verify_revocation(x)}}
       IN  /\ revoked = banned
           /\ \E kept \in SUBSET verified :
                /\ OnePerDevice(verified, kept)
                /\ links = {l \in kept : <<l.member, l.device>> \notin banned}

\* A revocation the client holds takes effect, crashes and forged items in the
\* store notwithstanding, unless the store outgrows an update (device.rs:287-291).
RevocationTakesEffect ==
  \A r \in RevocationPool :
    verify_revocation(r) /\ r \in store.revocations
      ~> <<r.member, r.device>> \in revoked \/ ~Fits
=============================================================================
