-------------------------- MODULE Libp2pTransport --------------------------
(***************************************************************************)
(* One group's mesh over libp2p: the daemon thread, which changes the      *)
(* roster through `Libp2pTransport`, against the swarm task `swarm_loop`.  *)
(* They share the mutex-protected `Shared` and an unbounded command queue, *)
(* and each handler that locks `Shared` twice is two actions here, because *)
(* the other thread may run between the two critical sections.             *)
(*                                                                         *)
(* A PeerId is a secp256k1 key and so stands for exactly one address: the  *)
(* model has one set Peer for both.  Time enters through `Elapse` only.    *)
(***************************************************************************)
EXTENDS Naturals, Sequences

CONSTANTS
  Peer,                      \* the other nodes' keys, and their addresses
  NoPeer,
  Cid,                       \* well-formed content ids
  MAX_ESTABLISHED_PER_PEER,
  MAX_INBOX,
  MaxCmds                    \* bound: a request starts only on a shorter queue

ASSUME NoPeerAssumption == NoPeer \notin Peer
ASSUME LimitsAssumption == /\ MAX_ESTABLISHED_PER_PEER \in Nat
                           /\ MAX_INBOX \in Nat
                           /\ MaxCmds \in Nat

VARIABLES
  allowed, admitted,         \* ClusterMembership, touched by the daemon only
  evict, remove, grant,      \* what apply_roster has still to do
  sending,                   \* the address whose Disconnect is not queued yet
  authorized, connected, inbox,             \* Shared
  cmds,                      \* the SwarmCmd channel
  peer_addr, unidentified, gated, task,     \* the swarm task's own state
  open, closing,             \* connections of each peer, per state
  outsiders, late            \* history, for the properties only

daemonVars  == <<allowed, admitted, evict, remove, grant, sending>>
sharedVars  == <<authorized, connected, inbox>>
taskVars    == <<peer_addr, unidentified, gated, task>>
netVars     == <<open, closing>>
historyVars == <<outsiders, late>>
vars == <<daemonVars, sharedVars, cmds, taskVars, netVars, historyVars>>

Disconnect(p) == [op |-> "disconnect", addr |-> p]
Publish(c)    == [op |-> "publish", cid |-> c]
SwarmCmd == [op : {"disconnect"}, addr : Peer] \cup [op : {"publish"}, cid : Cid]

Queued(cmd) == \E i \in 1..Len(cmds) : cmds[i] = cmd

\* tokio::select! is waiting: the task is between two handlers.
AtLoop  == task.at = "loop"
Looping == [at |-> "loop"]

-----------------------------------------------------------------------------
(* The network below the swarm (libp2p).                                   *)

\* Connections the swarm counts as established, the closing ones included.
Established(p) == open[p] + closing[p]

\* swarm.disconnect_peer_id for every peer of S: the close is only started.
StartClose(S) ==
  /\ open'    = [p \in Peer |-> IF p \in S THEN 0 ELSE open[p]]
  /\ closing' = [p \in Peer |-> IF p \in S THEN Established(p) ELSE closing[p]]

\* A peer that gossipsub neither blacklists nor scores out is sent every
\* publication and has its own messages processed.
Exposed(p) == Established(p) > 0 /\ p \notin gated

-----------------------------------------------------------------------------
Init ==
  /\ allowed = {} /\ admitted = {}
  /\ evict = {} /\ remove = {} /\ grant = {} /\ sending = NoPeer
  /\ authorized = {} /\ connected = {} /\ inbox = <<>>
  /\ cmds = <<>>
  /\ peer_addr = {} /\ gated = {}
  /\ unidentified = [p \in Peer |-> "no"]
  /\ task = Looping
  /\ open = [p \in Peer |-> 0] /\ closing = [p \in Peer |-> 0]
  /\ outsiders = [c \in Cid |-> {}]
  /\ late = [p \in Peer |-> 0]

-----------------------------------------------------------------------------
(* The daemon thread.  The server's mutex lets one request run at a time.  *)

Idle == sending = NoPeer /\ evict = {} /\ remove = {} /\ grant = {}

\* Mutation: only admitted peers are disconnected, not the ones offline.
ApplyRoster_evicts_only(new) ==
  /\ Idle /\ Len(cmds) < MaxCmds
  /\ allowed'  = new
  /\ admitted' = admitted \cap new
  /\ evict'    = admitted \ new
  /\ remove'   = {}
  /\ grant'    = new
  /\ UNCHANGED <<sending, sharedVars, cmds, taskVars, netVars, historyVars>>

\* apply_roster up to its loops: the allowed set is replaced, the admitted
\* peers that fall out of it are to be evicted, every address that left it is
\* to be disconnected, and every allowed one authorized.
ApplyRoster(new) ==
  /\ Idle /\ Len(cmds) < MaxCmds
  /\ allowed'  = new
  /\ admitted' = admitted \cap new
  /\ evict'    = admitted \ new
  /\ remove'   = allowed \ new
  /\ grant'    = new
  /\ UNCHANGED <<sending, sharedVars, cmds, taskVars, netVars, historyVars>>

\* `disconnect`, first half: under the lock, the address leaves both sets.
\* reconcile's evictions run before the loop over the removed addresses.
DisconnectLock(p) ==
  /\ sending = NoPeer
  /\ \/ p \in evict /\ evict' = evict \ {p} /\ UNCHANGED remove
     \/ evict = {} /\ p \in remove /\ remove' = remove \ {p} /\ UNCHANGED evict
  /\ authorized' = authorized \ {p}
  /\ connected'  = connected \ {p}
  /\ sending'    = p
  /\ UNCHANGED <<allowed, admitted, grant, inbox, cmds, taskVars, netVars, historyVars>>

\* `disconnect`, second half: the lock is released, the command is sent.
DisconnectSend ==
  /\ sending # NoPeer
  /\ cmds'    = Append(cmds, Disconnect(sending))
  /\ sending' = NoPeer
  /\ UNCHANGED <<allowed, admitted, evict, remove, grant, sharedVars, taskVars,
                 netVars, historyVars>>

\* `authorize` (= `dial`): one address enters the authorized set.
Authorize(p) ==
  /\ sending = NoPeer /\ evict = {} /\ remove = {} /\ p \in grant
  /\ grant'      = grant \ {p}
  /\ authorized' = authorized \cup {p}
  /\ outsiders'  = [c \in Cid |-> outsiders[c] \ {p}]
  /\ late'       = [late EXCEPT ![p] = 0]
  /\ UNCHANGED <<allowed, admitted, evict, remove, sending, connected, inbox, cmds,
                 taskVars, netVars>>

\* peers() and devices(): sync_admission before the read.
Peers ==
  /\ Idle
  /\ admitted' = connected \cap allowed
  /\ UNCHANGED <<allowed, evict, remove, grant, sending, sharedVars, cmds, taskVars,
                 netVars, historyVars>>

\* status() and poll(): sync_admission, then the inbox is drained.
Poll ==
  /\ Idle
  /\ admitted' = connected \cap allowed
  /\ inbox'    = <<>>
  /\ UNCHANGED <<allowed, evict, remove, grant, sending, authorized, connected, cmds,
                 taskVars, netVars, historyVars>>

\* share_file(): the co-pin is handed to the swarm task.  History: the peers
\* outside the roster when the CID was first queued, minus those let in since.
ShareFile(c) ==
  /\ Idle /\ Len(cmds) < MaxCmds
  /\ cmds' = Append(cmds, Publish(c))
  /\ outsiders' = IF Queued(Publish(c)) THEN outsiders
                  ELSE [outsiders EXCEPT ![c] = Peer \ authorized]
  /\ UNCHANGED <<daemonVars, sharedVars, taskVars, netVars, late>>

-----------------------------------------------------------------------------
(* The swarm task: commands.                                               *)

\* Mutation: the peer's connections are closed and the peer is not gated.
HandleDisconnect_no_gate ==
  /\ AtLoop /\ cmds # <<>> /\ Head(cmds).op = "disconnect"
  /\ cmds' = Tail(cmds)
  /\ StartClose(peer_addr \cap {Head(cmds).addr})
  /\ UNCHANGED <<daemonVars, sharedVars, taskVars, historyVars>>

\* Mutation: the command matches no peer.
HandleDisconnect_no_match ==
  /\ AtLoop /\ cmds # <<>> /\ Head(cmds).op = "disconnect"
  /\ cmds' = Tail(cmds)
  /\ UNCHANGED <<daemonVars, sharedVars, taskVars, netVars, historyVars>>

\* SwarmCmd::Disconnect reaches the peers identified under that address only.
HandleDisconnect ==
  /\ AtLoop /\ cmds # <<>> /\ Head(cmds).op = "disconnect"
  /\ cmds' = Tail(cmds)
  /\ LET targets == peer_addr \cap {Head(cmds).addr}
     IN  gated' = gated \cup targets /\ StartClose(targets)
  /\ UNCHANGED <<daemonVars, sharedVars, peer_addr, unidentified, task, historyVars>>

\* SwarmCmd::Publish goes to every exposed peer (see NoPublishToEvicted); with
\* none of them it is lost, which the caller is not told.
HandlePublish ==
  /\ AtLoop /\ cmds # <<>> /\ Head(cmds).op = "publish"
  /\ cmds' = Tail(cmds)
  /\ UNCHANGED <<daemonVars, sharedVars, taskVars, netVars, historyVars>>

-----------------------------------------------------------------------------
(* The swarm task: connection events.                                      *)

\* Mutation: a new connection is not gated.
ConnectionEstablished_no_gate(p) ==
  /\ AtLoop /\ Established(p) < MAX_ESTABLISHED_PER_PEER
  /\ open' = [open EXCEPT ![p] = @ + 1]
  /\ unidentified' = IF p \in peer_addr \/ unidentified[p] # "no" THEN unidentified
                     ELSE [unidentified EXCEPT ![p] = "waiting"]
  /\ UNCHANGED <<daemonVars, sharedVars, cmds, peer_addr, gated, task, closing, historyVars>>

\* A connection comes up, dialed or accepted: gated unless already identified.
ConnectionEstablished(p) ==
  /\ AtLoop /\ Established(p) < MAX_ESTABLISHED_PER_PEER
  /\ open' = [open EXCEPT ![p] = @ + 1]
  /\ IF p \in peer_addr
       THEN UNCHANGED <<gated, unidentified>>
       ELSE /\ gated' = gated \cup {p}
            /\ unidentified' = [unidentified EXCEPT ![p] = IF @ = "no" THEN "waiting" ELSE @]
  /\ UNCHANGED <<daemonVars, sharedVars, cmds, peer_addr, task, closing, historyVars>>

\* Mutation: a closed peer stays listed as connected.
ForgetIfLast_keeps_connected(p) ==
  /\ UNCHANGED connected
  /\ IF Established(p) = 1
       THEN /\ unidentified' = [unidentified EXCEPT ![p] = "no"]
            /\ gated'     = gated \ {p}
            /\ peer_addr' = peer_addr \ {p}
       ELSE UNCHANGED <<unidentified, gated, peer_addr>>

\* Mutation: the first of several closes lifts the gate.
ForgetIfLast_any_close(p) ==
  /\ unidentified' = [unidentified EXCEPT ![p] = "no"]
  /\ gated'     = gated \ {p}
  /\ peer_addr' = peer_addr \ {p}
  /\ connected' = IF p \in peer_addr THEN connected \ {p} ELSE connected

\* ConnectionClosed with the last connection gone (num_established = 0): the
\* peer is forgotten.  With another one left the event changes nothing.
ForgetIfLast(p) ==
  IF Established(p) = 1
    THEN /\ unidentified' = [unidentified EXCEPT ![p] = "no"]
         /\ gated'     = gated \ {p}
         /\ peer_addr' = peer_addr \ {p}
         /\ connected' = IF p \in peer_addr THEN connected \ {p} ELSE connected
    ELSE UNCHANGED <<unidentified, gated, peer_addr, connected>>

\* ConnectionClosed for a close the task had started.
ConnectionClosed(p) ==
  /\ AtLoop /\ closing[p] > 0
  /\ closing' = [closing EXCEPT ![p] = @ - 1]
  /\ ForgetIfLast(p)
  /\ UNCHANGED <<daemonVars, authorized, inbox, cmds, task, open, historyVars>>

\* ConnectionClosed for one the peer, the network or the idle timeout ended.
ConnectionLost(p) ==
  /\ AtLoop /\ open[p] > 0
  /\ open' = [open EXCEPT ![p] = @ - 1]
  /\ ForgetIfLast(p)
  /\ UNCHANGED <<daemonVars, authorized, inbox, cmds, task, closing, historyVars>>

\* IDENTIFY_TIMEOUT passes for a connection that has not identified.
Elapse(p) ==
  /\ unidentified[p] = "waiting"
  /\ unidentified' = [unidentified EXCEPT ![p] = "overdue"]
  /\ UNCHANGED <<daemonVars, sharedVars, cmds, peer_addr, gated, task, netVars, historyVars>>

\* Mutation: the expired entries are dropped and the connections stay.
Sweep_keeps_connection ==
  LET expired == {p \in Peer : unidentified[p] = "overdue"} IN
  /\ AtLoop /\ expired # {}
  /\ unidentified' = [p \in Peer |-> IF p \in expired THEN "no" ELSE unidentified[p]]
  /\ gated' = gated \cup expired
  /\ UNCHANGED <<daemonVars, sharedVars, cmds, peer_addr, task, netVars, historyVars>>

\* The sweep drops every connection past IDENTIFY_TIMEOUT.
Sweep ==
  LET expired == {p \in Peer : unidentified[p] = "overdue"} IN
  /\ AtLoop /\ expired # {}
  /\ unidentified' = [p \in Peer |-> IF p \in expired THEN "no" ELSE unidentified[p]]
  /\ gated' = gated \cup expired
  /\ StartClose(expired)
  /\ UNCHANGED <<daemonVars, sharedVars, cmds, peer_addr, task, historyVars>>

-----------------------------------------------------------------------------
(* The swarm task: identify.                                               *)

\* The key does not match the Noise identity, or is not a secp256k1 key.
IdentifyBadKey(p) ==
  /\ AtLoop /\ Established(p) > 0
  /\ unidentified' = [unidentified EXCEPT ![p] = "no"]
  /\ StartClose({p})
  /\ UNCHANGED <<daemonVars, sharedVars, cmds, peer_addr, gated, task, historyVars>>

\* The address is not authorized: keep the peer gated and drop it.
IdentifyRefuse(p) ==
  /\ AtLoop /\ Established(p) > 0 /\ p \notin authorized
  /\ unidentified' = [unidentified EXCEPT ![p] = "no"]
  /\ gated' = gated \cup {p}
  /\ StartClose({p})
  /\ UNCHANGED <<daemonVars, sharedVars, cmds, peer_addr, task, historyVars>>

\* Mutation: every proven key is admitted.
IdentifyCheck_any_key(p) ==
  /\ AtLoop /\ Established(p) > 0
  /\ unidentified' = [unidentified EXCEPT ![p] = "no"]
  /\ task' = [at |-> "identify", peer |-> p]
  /\ UNCHANGED <<daemonVars, sharedVars, cmds, peer_addr, gated, netVars, historyVars>>

\* The address is authorized, read under the lock, which is then released.
IdentifyCheck(p) ==
  /\ AtLoop /\ Established(p) > 0 /\ p \in authorized
  /\ unidentified' = [unidentified EXCEPT ![p] = "no"]
  /\ task' = [at |-> "identify", peer |-> p]
  /\ UNCHANGED <<daemonVars, sharedVars, cmds, peer_addr, gated, netVars, historyVars>>

\* The rest of the handler acts on that answer without a second look.
IdentifyAdmit ==
  /\ task.at = "identify"
  /\ peer_addr' = peer_addr \cup {task.peer}
  /\ gated'     = gated \ {task.peer}
  /\ connected' = connected \cup {task.peer}
  /\ task'      = Looping
  /\ UNCHANGED <<daemonVars, authorized, inbox, cmds, unidentified, netVars, historyVars>>

-----------------------------------------------------------------------------
(* The swarm task: gossip.  A message of another topic, with an unknown,   *)
(* unidentified or unauthorized source, or with a payload that is no CID   *)
(* changes nothing.                                                        *)

\* Mutation: an identified source is enough.
MessageCheck_identified(p, c) ==
  /\ AtLoop /\ Exposed(p) /\ p \in peer_addr
  /\ task' = [at |-> "message", from |-> p, data |-> c]
  /\ UNCHANGED <<daemonVars, sharedVars, cmds, peer_addr, unidentified, gated, netVars,
                 historyVars>>

MessageCheck(p, c) ==
  /\ AtLoop /\ Exposed(p) /\ p \in peer_addr /\ p \in authorized
  /\ task' = [at |-> "message", from |-> p, data |-> c]
  /\ UNCHANGED <<daemonVars, sharedVars, cmds, peer_addr, unidentified, gated, netVars,
                 historyVars>>

\* push_inbox.  History: messages accepted from an address since it was
\* de-authorized.
MessagePush ==
  /\ task.at = "message"
  /\ LET m == [from |-> task.from, data |-> task.data] IN
     IF Len(inbox) < MAX_INBOX
       THEN /\ inbox' = Append(inbox, m)
            /\ late'  = IF m.from \in authorized THEN late
                        ELSE [late EXCEPT ![m.from] = @ + 1]
       ELSE UNCHANGED <<inbox, late>>
  /\ task' = Looping
  /\ UNCHANGED <<daemonVars, authorized, connected, cmds, peer_addr, unidentified, gated,
                 netVars, outsiders>>

-----------------------------------------------------------------------------
DaemonStep ==
  \/ \E new \in SUBSET Peer : ApplyRoster(new)
  \/ \E p \in Peer : DisconnectLock(p) \/ Authorize(p)
  \/ DisconnectSend
  \/ Peers \/ Poll
  \/ \E c \in Cid : ShareFile(c)

SwarmStep ==
  \/ HandleDisconnect \/ HandlePublish
  \/ \E p \in Peer : \/ ConnectionEstablished(p)
                     \/ ConnectionClosed(p) \/ ConnectionLost(p)
                     \/ IdentifyBadKey(p) \/ IdentifyRefuse(p) \/ IdentifyCheck(p)
  \/ IdentifyAdmit
  \/ Sweep
  \/ \E p \in Peer, c \in Cid : MessageCheck(p, c)
  \/ MessagePush

Next == DaemonStep \/ SwarmStep \/ \E p \in Peer : Elapse(p)

Spec == Init /\ [][Next]_vars

\* The scheduling the code has: a request runs to its end; a handler runs to
\* its end; select! polls its branches in random order, so a branch that is
\* ready again and again is taken; time passes; a close that was started ends.
\* Nothing is assumed of the peers: they may never identify or leave.
Fairness ==
  /\ WF_vars(DisconnectSend)
  /\ WF_vars(\E p \in Peer : DisconnectLock(p) \/ Authorize(p))
  /\ WF_vars(IdentifyAdmit) /\ WF_vars(MessagePush)
  /\ SF_vars(HandleDisconnect \/ HandlePublish)
  /\ SF_vars(Sweep)
  /\ \A p \in Peer : WF_vars(Elapse(p)) /\ SF_vars(ConnectionClosed(p))

FairSpec == Spec /\ Fairness

-----------------------------------------------------------------------------
(* Properties.                                                             *)

TaskState == {Looping} \cup [at : {"identify"}, peer : Peer]
                       \cup [at : {"message"}, from : Peer, data : Cid]

\* The type of the state of the daemon thread, of Shared and of swarm_loop.
TypeOK ==
  /\ allowed \subseteq Peer /\ admitted \subseteq Peer
  /\ evict \subseteq Peer /\ remove \subseteq Peer /\ grant \subseteq Peer
  /\ sending \in Peer \cup {NoPeer}
  /\ authorized \subseteq Peer /\ connected \subseteq Peer
  /\ inbox \in Seq([from : Peer, data : Cid])
  /\ cmds \in Seq(SwarmCmd)
  /\ peer_addr \subseteq Peer /\ gated \subseteq Peer
  /\ unidentified \in [Peer -> {"no", "waiting", "overdue"}]
  /\ task \in TaskState
  /\ open \in [Peer -> Nat] /\ closing \in [Peer -> Nat]
  /\ outsiders \in [Cid -> SUBSET Peer]
  /\ late \in [Peer -> Nat]

\* The eviction of p has been decided and has not reached the swarm yet.
EvictionPending(p) == sending = p \/ Queued(Disconnect(p))

\* An unauthorized peer takes part in the topic (is neither blacklisted nor
\* scored out) only while its eviction is still on its way to the task: the
\* identify handler's stale answer (libp2p_transport.rs:964-973) is always
\* overtaken by a Disconnect that finds the peer in peer_addr.
EvictionInFlight ==
  \A p \in Peer : Exposed(p) /\ p \notin authorized => EvictionPending(p)

\* Every connected peer that identify has not admitted is gated
\* (ConnectionEstablished, and the gate's removal in ConnectionClosed).
GatedUntilIdentified ==
  \A p \in Peer : Exposed(p) => p \in peer_addr

\* What Status counts as online is a peer that was identified and still has a
\* connection: the two removals of `connected` (by the daemon's disconnect and
\* by the last ConnectionClosed) leave no ghost behind.
OnlineIsReal ==
  /\ connected \subseteq peer_addr
  /\ \A p \in peer_addr : Established(p) > 0

\* When a SetRoster has returned, the transport authorizes exactly the allowed
\* set, whatever was admitted, offline or stale when it began (apply_roster).
AuthorizedIsAllowed == Idle => authorized = allowed

\* A co-pin is never published to a peer that was outside the roster when it
\* was shared and has not been let in since: its Disconnect is ahead of the
\* Publish in the queue (disconnect, publish and the command branch).
NoPublishToEvicted ==
  \A c \in Cid : AtLoop /\ cmds # <<>> /\ cmds[1] = Publish(c)
                 => \A p \in outsiders[c] : ~Exposed(p)

\* The message handler checks `authorized` under one lock and pushes under the
\* next, so one message of an evicted peer may still enter the inbox; a second
\* one never does.
AtMostOneLateMessage == \A p \in Peer : late[p] <= 1

\* The mesh as the roster sees it: authorized peers in the topic that no queued
\* eviction is about to take out.
Mesh == {p \in authorized : Exposed(p) /\ ~EvictionPending(p)}

A == INSTANCE Admission WITH Address <- Peer, allowed <- authorized, meshed <- Mesh

\* With the authorized set as the allowed one, the transport keeps the promise
\* of Admission: de-authorizing takes a peer out of the mesh in the same step,
\* and no late command, re-authorization or reconnect brings it back unchecked.
ImplementsAdmission == A!Spec

\* A peer that is no longer authorized is eventually shut out of the topic.
EvictionCompletes ==
  \A p \in Peer : (Exposed(p) /\ p \notin authorized)
                  ~> (~Exposed(p) \/ p \in authorized)

\* A peer that never identifies loses its connections: the sweep finds it.
UnidentifiedIsReaped ==
  \A p \in Peer : (open[p] > 0 /\ p \notin peer_addr) ~> (open[p] = 0 \/ p \in peer_addr)

-----------------------------------------------------------------------------
(* Inductive strengthenings, for the proofs.                               *)

\* The identify handler is about to admit p on an answer read earlier.
Admitting(p) == task.at = "identify" /\ task.peer = p

\* A peer that is, or is about to be, exposed is authorized or has its
\* eviction pending, and one that is exposed can be found by a Disconnect.
GateInv ==
  /\ OnlineIsReal
  /\ GatedUntilIdentified
  /\ EvictionInFlight
  /\ \A p \in Peer : Admitting(p) => /\ Established(p) > 0
                                     /\ p \in authorized \/ EvictionPending(p)

\* What apply_roster has done and has still to do adds up to the allowed set.
RosterInv ==
  /\ authorized \subseteq allowed \cup remove
  /\ allowed \subseteq authorized \cup grant
  /\ grant \subseteq allowed
  /\ (evict \cup remove) \cap allowed = {}

\* Every queued Publish is behind the Disconnect of each of its outsiders that
\* is, or is about to be, exposed.
PublishInv ==
  /\ \A c \in Cid : outsiders[c] \cap authorized = {}
  /\ \A c \in Cid : \A i \in 1..Len(cmds) : cmds[i] = Publish(c) =>
       \A p \in outsiders[c] : Exposed(p) \/ Admitting(p) =>
         \E j \in 1..(i - 1) : cmds[j] = Disconnect(p)

\* A message handler that has passed its check is the only one that can still
\* push for an address that has lost its authorization.
LateInv ==
  \A p \in Peer : /\ late[p] <= 1
                  /\ p \in authorized => late[p] = 0
                  /\ task.at = "message" /\ task.from = p => late[p] = 0
=============================================================================
