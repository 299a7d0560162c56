----------------------- MODULE Libp2pTransportProofs -----------------------
(***************************************************************************)
(* Proofs about Libp2pTransport, for any set of peers, any limits and a    *)
(* command queue of any length.                                            *)
(***************************************************************************)
EXTENDS Libp2pTransport, TLAPS

-----------------------------------------------------------------------------
(* Facts about the operators the actions are built from.                   *)

\* The task's state, per value of its program counter.
LEMMA TaskCases ==
  ASSUME task \in TaskState
  PROVE  /\ task.at = "identify" => task.peer \in Peer
         /\ task.at = "message" => task.from \in Peer /\ task.data \in Cid
BY DEF TaskState, Looping

\* Starting to close connections changes the state of none but its own peers,
\* and no peer's number of established connections.
LEMMA StartCloseKeepsEstablished ==
  ASSUME open \in [Peer -> Nat], closing \in [Peer -> Nat], NEW S, StartClose(S)
  PROVE  /\ open' \in [Peer -> Nat] /\ closing' \in [Peer -> Nat]
         /\ \A p \in Peer : Established(p)' = Established(p)
BY DEF StartClose, Established

\* Append keeps the type of a sequence.
LEMMA AppendType ==
  ASSUME NEW S, NEW q \in Seq(S), NEW x \in S
  PROVE  Append(q, x) \in Seq(S)
OBVIOUS

\* What Append does to the command queue.
LEMMA AppendCmd ==
  ASSUME cmds \in Seq(SwarmCmd), NEW x \in SwarmCmd, cmds' = Append(cmds, x)
  PROVE  /\ cmds' \in Seq(SwarmCmd)
         /\ Len(cmds') = Len(cmds) + 1 /\ Len(cmds) \in Nat
         /\ \A i \in 1..Len(cmds) : cmds'[i] = cmds[i]
         /\ cmds'[Len(cmds) + 1] = x
OBVIOUS

\* What Tail does to the command queue.
LEMMA TailCmd ==
  ASSUME cmds \in Seq(SwarmCmd), cmds # <<>>, cmds' = Tail(cmds)
  PROVE  /\ cmds' \in Seq(SwarmCmd)
         /\ Len(cmds) \in Nat /\ Len(cmds) >= 1
         /\ Len(cmds') = Len(cmds) - 1
         /\ \A i \in 1..Len(cmds') : cmds'[i] = cmds[i + 1]
         /\ Head(cmds) = cmds[1] /\ cmds[1] \in SwarmCmd
OBVIOUS

\* A command that is queued stays queued when another one is sent.
LEMMA AppendQueued ==
  ASSUME cmds \in Seq(SwarmCmd), NEW x \in SwarmCmd, cmds' = Append(cmds, x)
  PROVE  Queued(x)' /\ \A y : Queued(y) => Queued(y)'
<1>1. 1..Len(cmds) \subseteq 1..Len(cmds') /\ Len(cmds) + 1 \in 1..Len(cmds')
  BY AppendCmd
<1>2. \A i \in 1..Len(cmds) : cmds'[i] = cmds[i]
  BY AppendCmd
<1>3. cmds'[Len(cmds) + 1] = x
  BY AppendCmd
<1> QED BY <1>1, <1>2, <1>3 DEF Queued

\* Receiving a command leaves every other one queued.
LEMMA TailQueued ==
  ASSUME cmds \in Seq(SwarmCmd), cmds # <<>>, cmds' = Tail(cmds)
  PROVE  \A y : Queued(y) /\ y # Head(cmds) => Queued(y)'
<1> SUFFICES ASSUME NEW y, NEW i \in 1..Len(cmds), cmds[i] = y, y # Head(cmds)
             PROVE  Queued(y)'
  BY DEF Queued
<1>1. i # 1
  BY TailCmd
<1>2. i - 1 \in 1..Len(cmds') /\ (i - 1) + 1 = i
  BY <1>1, TailCmd
<1>3. cmds'[i - 1] = cmds[i]
  BY <1>2, TailCmd
<1> QED BY <1>2, <1>3 DEF Queued

-----------------------------------------------------------------------------
(* Type correctness.                                                       *)

\* The initial state is well typed.
LEMMA TypeOKInit == Init => TypeOK
BY NoPeerAssumption DEF Init, TypeOK, TaskState, Looping

\* The daemon's requests keep the types.
LEMMA TypeOKDaemon == TypeOK /\ DaemonStep => TypeOK'
<1> SUFFICES ASSUME TypeOK, DaemonStep PROVE TypeOK'
  OBVIOUS
<1> USE DEF TypeOK, daemonVars, sharedVars, taskVars, netVars, historyVars
<1>1. ASSUME NEW new \in SUBSET Peer, ApplyRoster(new) PROVE TypeOK'
  BY <1>1 DEF ApplyRoster
<1>2. ASSUME NEW p \in Peer, DisconnectLock(p) PROVE TypeOK'
  BY <1>2 DEF DisconnectLock
<1>3. ASSUME NEW p \in Peer, Authorize(p) PROVE TypeOK'
  BY <1>3 DEF Authorize
<1>4. CASE DisconnectSend
  <2>1. Disconnect(sending) \in SwarmCmd
    BY <1>4 DEF DisconnectSend, Disconnect, SwarmCmd
  <2>2. cmds' \in Seq(SwarmCmd)
    BY <1>4, <2>1, AppendCmd DEF DisconnectSend
  <2> QED BY <1>4, <2>2 DEF DisconnectSend
<1>5. CASE Peers
  BY <1>5 DEF Peers
<1>6. CASE Poll
  BY <1>6 DEF Poll
<1>7. ASSUME NEW c \in Cid, ShareFile(c) PROVE TypeOK'
  <2>1. Publish(c) \in SwarmCmd
    BY DEF Publish, SwarmCmd
  <2>2. cmds' \in Seq(SwarmCmd)
    BY <1>7, <2>1, AppendCmd DEF ShareFile
  <2> QED BY <1>7, <2>2 DEF ShareFile
<1> QED BY <1>1, <1>2, <1>3, <1>4, <1>5, <1>6, <1>7 DEF DaemonStep

\* The swarm task's handlers keep the types.
LEMMA TypeOKSwarm == TypeOK /\ SwarmStep => TypeOK'
<1> SUFFICES ASSUME TypeOK, SwarmStep PROVE TypeOK'
  OBVIOUS
<1> USE DEF TypeOK, daemonVars, sharedVars, taskVars, netVars, historyVars
<1>1. CASE HandleDisconnect
  <2>1. cmds' \in Seq(SwarmCmd)
    BY <1>1, TailCmd DEF HandleDisconnect
  <2>2. open' \in [Peer -> Nat] /\ closing' \in [Peer -> Nat]
    BY <1>1, StartCloseKeepsEstablished DEF HandleDisconnect
  <2> QED BY <1>1, <2>1, <2>2 DEF HandleDisconnect
<1>2. CASE HandlePublish
  <2>1. cmds' \in Seq(SwarmCmd)
    BY <1>2, TailCmd DEF HandlePublish
  <2> QED BY <1>2, <2>1 DEF HandlePublish
<1>3. ASSUME NEW p \in Peer, ConnectionEstablished(p) PROVE TypeOK'
  <2>1. open' \in [Peer -> Nat]
    BY <1>3 DEF ConnectionEstablished
  <2>2. unidentified' \in [Peer -> {"no", "waiting", "overdue"}] /\ gated' \subseteq Peer
    BY <1>3 DEF ConnectionEstablished
  <2> QED BY <1>3, <2>1, <2>2 DEF ConnectionEstablished
<1>4. ASSUME NEW p \in Peer, ConnectionClosed(p) PROVE TypeOK'
  <2>1. closing' \in [Peer -> Nat]
    BY <1>4 DEF ConnectionClosed
  <2>2. /\ unidentified' \in [Peer -> {"no", "waiting", "overdue"}]
        /\ gated' \subseteq Peer /\ peer_addr' \subseteq Peer /\ connected' \subseteq Peer
    BY <1>4 DEF ConnectionClosed, ForgetIfLast
  <2> QED BY <1>4, <2>1, <2>2 DEF ConnectionClosed
<1>5. ASSUME NEW p \in Peer, ConnectionLost(p) PROVE TypeOK'
  <2>1. open' \in [Peer -> Nat]
    BY <1>5 DEF ConnectionLost
  <2>2. /\ unidentified' \in [Peer -> {"no", "waiting", "overdue"}]
        /\ gated' \subseteq Peer /\ peer_addr' \subseteq Peer /\ connected' \subseteq Peer
    BY <1>5 DEF ConnectionLost, ForgetIfLast
  <2> QED BY <1>5, <2>1, <2>2 DEF ConnectionLost
<1>6. ASSUME NEW p \in Peer, IdentifyBadKey(p) PROVE TypeOK'
  BY <1>6, StartCloseKeepsEstablished DEF IdentifyBadKey
<1>7. ASSUME NEW p \in Peer, IdentifyRefuse(p) PROVE TypeOK'
  BY <1>7, StartCloseKeepsEstablished DEF IdentifyRefuse
<1>8. ASSUME NEW p \in Peer, IdentifyCheck(p) PROVE TypeOK'
  BY <1>8 DEF IdentifyCheck, TaskState
<1>9. CASE IdentifyAdmit
  BY <1>9, TaskCases DEF IdentifyAdmit, TaskState
<1>10. CASE Sweep
  BY <1>10, StartCloseKeepsEstablished DEF Sweep
<1>11. ASSUME NEW p \in Peer, NEW c \in Cid, MessageCheck(p, c) PROVE TypeOK'
  BY <1>11 DEF MessageCheck, TaskState
<1>12. CASE MessagePush
  <2>1. task.from \in Peer /\ task.data \in Cid /\ task' \in TaskState
    BY <1>12, TaskCases DEF MessagePush, TaskState
  <2>2. [from |-> task.from, data |-> task.data] \in [from : Peer, data : Cid]
    BY <2>1
  <2>3. inbox' \in Seq([from : Peer, data : Cid])
    <3>1. CASE inbox' = inbox
      BY <3>1
    <3>2. CASE inbox' = Append(inbox, [from |-> task.from, data |-> task.data])
      BY <2>2, <3>2, AppendType
    <3> QED BY <1>12, <3>1, <3>2, Zenon DEF MessagePush
  <2>4. late' \in [Peer -> Nat]
    <3>1. CASE late' = late
      BY <3>1
    <3>2. CASE late' = [late EXCEPT ![task.from] = @ + 1]
      BY <2>1, <3>2
    <3> QED BY <1>12, <3>1, <3>2 DEF MessagePush
  <2> QED BY <1>12, <2>1, <2>3, <2>4 DEF MessagePush
<1> QED BY <1>1, <1>2, <1>3, <1>4, <1>5, <1>6, <1>7, <1>8, <1>9, <1>10, <1>11, <1>12
        DEF SwarmStep

\* The state of the daemon thread, of Shared and of the swarm task keeps its
\* type, whatever the peers, the limits and the length of the queue.
THEOREM TypeCorrect == Spec => []TypeOK
<1>1. Init => TypeOK
  BY TypeOKInit
<1>2. TypeOK /\ [Next]_vars => TypeOK'
  <2> SUFFICES ASSUME TypeOK, [Next]_vars PROVE TypeOK'
    OBVIOUS
  <2>1. ASSUME NEW p \in Peer, Elapse(p) PROVE TypeOK'
    BY <2>1 DEF Elapse, TypeOK, daemonVars, sharedVars, netVars, historyVars
  <2>2. CASE UNCHANGED vars
    BY <2>2 DEF TypeOK, vars, daemonVars, sharedVars, taskVars, netVars, historyVars
  <2> QED BY <2>1, <2>2, TypeOKDaemon, TypeOKSwarm DEF Next
<1> QED BY <1>1, <1>2, PTL DEF Spec

-----------------------------------------------------------------------------
(* The gate: an unauthorized peer is exposed only while its eviction is on *)
(* its way.  GateInv is proved peer by peer.                               *)

GateAt(p) ==
  /\ p \in connected => p \in peer_addr
  /\ p \in peer_addr => Established(p) > 0
  /\ Exposed(p) => p \in peer_addr
  /\ Exposed(p) => p \in authorized \/ EvictionPending(p)
  /\ Admitting(p) => Established(p) > 0
  /\ Admitting(p) => p \in authorized \/ EvictionPending(p)

\* GateInv speaks of each peer alone.
LEMMA GatePerPeer ==
  ASSUME TypeOK
  PROVE  GateInv <=> \A p \in Peer : GateAt(p)
BY DEF TypeOK, GateInv, GateAt, OnlineIsReal, GatedUntilIdentified, EvictionInFlight

\* The daemon never touches the swarm task; taking an authorization away and
\* announcing the eviction is one step as far as EvictionPending goes.
LEMMA GateDaemon ==
  ASSUME TypeOK, NEW p \in Peer, GateAt(p), DaemonStep
  PROVE  GateAt(p)'
<1> USE DEF TypeOK, GateAt, Exposed, Established, Admitting, EvictionPending, Queued,
            daemonVars, sharedVars, taskVars, netVars
<1>1. ASSUME NEW new \in SUBSET Peer, ApplyRoster(new) PROVE GateAt(p)'
  BY <1>1 DEF ApplyRoster
<1>2. ASSUME NEW q \in Peer, DisconnectLock(q) PROVE GateAt(p)'
  BY <1>2, NoPeerAssumption DEF DisconnectLock
<1>3. ASSUME NEW q \in Peer, Authorize(q) PROVE GateAt(p)'
  BY <1>3 DEF Authorize
<1>4. CASE DisconnectSend
  <2> HIDE DEF Queued
  <2>1. Disconnect(sending) \in SwarmCmd
    BY <1>4 DEF DisconnectSend, Disconnect, SwarmCmd
  <2>2. \A y : Queued(y) \/ y = Disconnect(sending) => Queued(y)'
    BY <1>4, <2>1, AppendQueued DEF DisconnectSend
  <2>3. EvictionPending(p) => EvictionPending(p)'
    BY <2>2 DEF Disconnect
  <2> HIDE DEF EvictionPending
  <2> QED BY <1>4, <2>3 DEF DisconnectSend
<1>5. CASE Peers
  BY <1>5 DEF Peers
<1>6. CASE Poll
  BY <1>6 DEF Poll
<1>7. ASSUME NEW c \in Cid, ShareFile(c) PROVE GateAt(p)'
  <2> HIDE DEF Queued
  <2>1. Publish(c) \in SwarmCmd
    BY DEF Publish, SwarmCmd
  <2>2. \A y : Queued(y) => Queued(y)'
    BY <1>7, <2>1, AppendQueued DEF ShareFile
  <2>3. EvictionPending(p) => EvictionPending(p)'
    BY <1>7, <2>2 DEF ShareFile
  <2> HIDE DEF EvictionPending
  <2> QED BY <1>7, <2>3 DEF ShareFile
<1> QED BY <1>1, <1>2, <1>3, <1>4, <1>5, <1>6, <1>7 DEF DaemonStep

\* Disconnect takes the exposed peer it names out of the topic before it is
\* itself gone; no event of a connection exposes a peer but IdentifyAdmit.
LEMMA GateSwarm ==
  ASSUME TypeOK, NEW p \in Peer, GateAt(p), SwarmStep
  PROVE  GateAt(p)'
<1> USE DEF TypeOK, GateAt, Exposed, Admitting, EvictionPending, Queued, AtLoop, Looping,
            daemonVars, sharedVars, taskVars, netVars
<1>1. CASE HandleDisconnect
  <2> HIDE DEF Queued
  <2>1. Established(p)' = Established(p)
    BY <1>1, StartCloseKeepsEstablished DEF HandleDisconnect
  <2>2. Queued(Disconnect(p)) => Queued(Disconnect(p))' \/ Head(cmds) = Disconnect(p)
    BY <1>1, TailQueued DEF HandleDisconnect
  <2>3. CASE Head(cmds) = Disconnect(p)
    <3>1. p \in peer_addr => p \in gated'
      BY <1>1, <2>3 DEF HandleDisconnect, Disconnect
    <3>2. ~Admitting(p)'
      BY <1>1 DEF HandleDisconnect
    <3>3. gated \subseteq gated'
      BY <1>1 DEF HandleDisconnect
    <3> QED BY <1>1, <2>1, <3>1, <3>2, <3>3 DEF HandleDisconnect
  <2>4. CASE Head(cmds) # Disconnect(p)
    <3>1. EvictionPending(p) => EvictionPending(p)'
      BY <1>1, <2>2, <2>4 DEF HandleDisconnect, Disconnect
    <3>2. gated \subseteq gated'
      BY <1>1 DEF HandleDisconnect
    <3> HIDE DEF EvictionPending
    <3> QED BY <1>1, <2>1, <3>1, <3>2 DEF HandleDisconnect
  <2> QED BY <2>3, <2>4
<1>2. CASE HandlePublish
  <2> HIDE DEF Queued
  <2>1. Head(cmds) # Disconnect(p)
    BY <1>2 DEF HandlePublish, Disconnect
  <2>2. Queued(Disconnect(p)) => Queued(Disconnect(p))'
    BY <1>2, <2>1, TailQueued DEF HandlePublish
  <2>3. EvictionPending(p) => EvictionPending(p)'
    BY <1>2, <2>2 DEF HandlePublish, Disconnect
  <2> HIDE DEF EvictionPending
  <2> QED BY <1>2, <2>3 DEF HandlePublish, Established
<1>3. ASSUME NEW q \in Peer, ConnectionEstablished(q) PROVE GateAt(p)'
  <2>1. Established(p) \in Nat /\ Established(p)' \in Nat /\ Established(p)' >= Established(p)
    <3>1. open[p] \in Nat /\ closing[p] \in Nat /\ UNCHANGED closing
      BY <1>3 DEF ConnectionEstablished
    <3>2. open'[p] = open[p] \/ open'[p] = open[p] + 1
      BY <1>3 DEF ConnectionEstablished
    <3> QED BY <3>1, <3>2 DEF Established
  <2>2. p # q => Established(p)' = Established(p)
    BY <1>3 DEF ConnectionEstablished, Established
  <2>3. Exposed(p)' => Exposed(p)
    BY <1>3, <2>1, <2>2 DEF ConnectionEstablished
  <2>4. UNCHANGED <<authorized, connected, sending, cmds, peer_addr, task>>
    BY <1>3 DEF ConnectionEstablished
  <2> HIDE DEF TypeOK, Exposed
  <2> QED BY <2>1, <2>3, <2>4
<1>4. ASSUME NEW q \in Peer, ConnectionClosed(q) \/ ConnectionLost(q) PROVE GateAt(p)'
  <2>1. CASE p # q
    <3>1. Established(p)' = Established(p)
      BY <1>4, <2>1 DEF ConnectionClosed, ConnectionLost, Established
    <3>2. /\ p \in gated' <=> p \in gated
          /\ p \in peer_addr' <=> p \in peer_addr
          /\ p \in connected' <=> p \in connected
      BY <1>4, <2>1 DEF ConnectionClosed, ConnectionLost, ForgetIfLast
    <3>3. UNCHANGED <<authorized, sending, cmds, task>>
      BY <1>4 DEF ConnectionClosed, ConnectionLost
    <3> HIDE DEF TypeOK
    <3> QED BY <3>1, <3>2, <3>3
  <2>2. CASE p = q
    <3>1. Established(p) \in Nat /\ Established(p)' = Established(p) - 1
      BY <1>4, <2>2 DEF ConnectionClosed, ConnectionLost, Established
    <3>2. CASE Established(p) = 1
      BY <1>4, <2>2, <3>1, <3>2 DEF ConnectionClosed, ConnectionLost, ForgetIfLast
    <3>3. CASE Established(p) # 1
      BY <1>4, <2>2, <3>1, <3>3 DEF ConnectionClosed, ConnectionLost, ForgetIfLast
    <3> QED BY <3>2, <3>3
  <2> QED BY <2>1, <2>2
<1>5. ASSUME NEW q \in Peer, IdentifyBadKey(q) PROVE GateAt(p)'
  <2>1. Established(p)' = Established(p)
    BY <1>5, StartCloseKeepsEstablished DEF IdentifyBadKey
  <2> QED BY <1>5, <2>1 DEF IdentifyBadKey
<1>6. ASSUME NEW q \in Peer, IdentifyRefuse(q) PROVE GateAt(p)'
  <2>1. Established(p)' = Established(p)
    BY <1>6, StartCloseKeepsEstablished DEF IdentifyRefuse
  <2> QED BY <1>6, <2>1 DEF IdentifyRefuse
<1>7. ASSUME NEW q \in Peer, IdentifyCheck(q) PROVE GateAt(p)'
  <2>1. Admitting(p)' => p = q
    BY <1>7 DEF IdentifyCheck
  <2> QED BY <1>7, <2>1 DEF IdentifyCheck, Established
<1>8. CASE IdentifyAdmit
  <2>1. ~Admitting(p)' /\ Established(p)' = Established(p)
    BY <1>8 DEF IdentifyAdmit, Established
  <2>2. Exposed(p)' => Exposed(p) \/ Admitting(p)
    BY <1>8, <2>1 DEF IdentifyAdmit
  <2>3. p \in peer_addr' <=> p \in peer_addr \/ Admitting(p)
    BY <1>8 DEF IdentifyAdmit
  <2>4. p \in connected' => p \in connected \/ Admitting(p)
    BY <1>8 DEF IdentifyAdmit
  <2>5. EvictionPending(p)' = EvictionPending(p) /\ authorized' = authorized
    BY <1>8 DEF IdentifyAdmit
  <2> HIDE DEF EvictionPending, Exposed, Admitting
  <2> QED BY <2>1, <2>2, <2>3, <2>4, <2>5
<1>9. CASE Sweep
  <2>1. Established(p)' = Established(p)
    BY <1>9, StartCloseKeepsEstablished DEF Sweep
  <2> QED BY <1>9, <2>1 DEF Sweep
<1>10. ASSUME NEW q \in Peer, NEW c \in Cid, MessageCheck(q, c) PROVE GateAt(p)'
  BY <1>10 DEF MessageCheck, Established
<1>11. CASE MessagePush
  <2>1. UNCHANGED <<daemonVars, authorized, connected, cmds, peer_addr, gated, netVars>>
    BY <1>11 DEF MessagePush
  <2>2. ~Admitting(p)'
    BY <1>11 DEF MessagePush
  <2> QED BY <2>1, <2>2 DEF Established
<1> QED BY <1>1, <1>2, <1>3, <1>4, <1>5, <1>6, <1>7, <1>8, <1>9, <1>10, <1>11 DEF SwarmStep

\* The inductive invariant of the gate, for any interleaving of the daemon
\* thread and the swarm task.
LEMMA GateInvariant == Spec => []GateInv
<1>1. Init => GateInv
  BY DEF Init, GateInv, OnlineIsReal, GatedUntilIdentified, EvictionInFlight, Exposed,
         Established, Admitting, Looping
<1>2. TypeOK /\ TypeOK' /\ GateInv /\ [Next]_vars => GateInv'
  <2> SUFFICES ASSUME TypeOK, TypeOK', GateInv, [Next]_vars PROVE GateInv'
    OBVIOUS
  <2>1. \A p \in Peer : GateAt(p)
    BY GatePerPeer
  <2>2. ASSUME NEW p \in Peer PROVE GateAt(p)'
    <3>1. ASSUME NEW q \in Peer, Elapse(q) PROVE GateAt(p)'
      BY <2>1, <3>1 DEF Elapse, GateAt, Exposed, Established, Admitting, EvictionPending,
                        Queued, daemonVars, sharedVars, netVars
    <3>2. CASE UNCHANGED vars
      BY <2>1, <3>2 DEF vars, GateAt, Exposed, Established, Admitting, EvictionPending,
                        Queued, daemonVars, sharedVars, taskVars, netVars
    <3> QED BY <2>1, <3>1, <3>2, GateDaemon, GateSwarm DEF Next
  <2>3. (\A p \in Peer : GateAt(p))' => GateInv'
    BY DEF TypeOK, GateInv, GateAt, OnlineIsReal, GatedUntilIdentified, EvictionInFlight
  <2> QED BY <2>2, <2>3
<1> QED BY <1>1, <1>2, TypeCorrect, PTL DEF Spec

\* An unauthorized peer is part of the topic only while its eviction is on its
\* way to the swarm task (disconnect, swarm_loop's Disconnect and Identify).
THEOREM EvictionInFlightHolds == Spec => []EvictionInFlight
<1>1. GateInv => EvictionInFlight
  BY DEF GateInv
<1> QED BY <1>1, GateInvariant, PTL

\* A connected peer that identify has not admitted is gated, through any number
\* of connections and closes (ConnectionEstablished, ConnectionClosed).
THEOREM GatedUntilIdentifiedHolds == Spec => []GatedUntilIdentified
<1>1. GateInv => GatedUntilIdentified
  BY DEF GateInv
<1> QED BY <1>1, GateInvariant, PTL

\* What Status counts as online was identified and still has a connection.
THEOREM OnlineIsRealHolds == Spec => []OnlineIsReal
<1>1. GateInv => OnlineIsReal
  BY DEF GateInv
<1> QED BY <1>1, GateInvariant, PTL

-----------------------------------------------------------------------------
(* apply_roster: between two requests the transport's authorized set is    *)
(* the allowed set.                                                        *)

\* A SetRoster that has returned left the transport authorizing exactly the
\* allowed set, whatever was admitted when it began (apply_roster).
THEOREM AuthorizedIsAllowedHolds == Spec => []AuthorizedIsAllowed
<1>1. Init => RosterInv
  BY DEF Init, RosterInv
<1>2. TypeOK /\ RosterInv /\ [Next]_vars => RosterInv'
  <2> SUFFICES ASSUME TypeOK, RosterInv, [Next]_vars PROVE RosterInv'
    OBVIOUS
  <2> DEFINE rosterVars == <<allowed, evict, remove, grant, authorized>>
  <2>1. ASSUME NEW new \in SUBSET Peer, ApplyRoster(new) PROVE RosterInv'
    <3>1. authorized \subseteq allowed
      BY <2>1 DEF ApplyRoster, Idle, RosterInv
    <3> QED BY <2>1, <3>1 DEF ApplyRoster, RosterInv, sharedVars
  <2>2. ASSUME NEW p \in Peer, DisconnectLock(p) PROVE RosterInv'
    BY <2>2 DEF DisconnectLock, RosterInv
  <2>3. ASSUME NEW p \in Peer, Authorize(p) PROVE RosterInv'
    BY <2>3 DEF Authorize, RosterInv
  <2>4. CASE DisconnectSend \/ Peers \/ Poll \/ \E c \in Cid : ShareFile(c)
    <3>1. UNCHANGED rosterVars
      BY <2>4 DEF DisconnectSend, Peers, Poll, ShareFile, daemonVars, sharedVars
    <3> QED BY <3>1 DEF RosterInv
  <2>5. CASE SwarmStep
    <3>1. UNCHANGED rosterVars
      BY <2>5 DEF SwarmStep, HandleDisconnect, HandlePublish, ConnectionEstablished,
                  ConnectionClosed, ConnectionLost, IdentifyBadKey, IdentifyRefuse,
                  IdentifyCheck, IdentifyAdmit, Sweep, MessageCheck, MessagePush,
                  daemonVars, sharedVars
    <3> QED BY <3>1 DEF RosterInv
  <2>6. ASSUME NEW p \in Peer, Elapse(p) PROVE RosterInv'
    BY <2>6 DEF Elapse, RosterInv, daemonVars, sharedVars
  <2>7. CASE UNCHANGED vars
    BY <2>7 DEF vars, RosterInv, daemonVars, sharedVars
  <2> QED BY <2>1, <2>2, <2>3, <2>4, <2>5, <2>6, <2>7 DEF Next, DaemonStep
<1>3. RosterInv => AuthorizedIsAllowed
  BY DEF RosterInv, AuthorizedIsAllowed, Idle
<1> QED BY <1>1, <1>2, <1>3, TypeCorrect, PTL DEF Spec

-----------------------------------------------------------------------------
(* Publications: a co-pin never goes to a peer that was outside the roster *)
(* when it was shared.                                                     *)

Live(p) == Exposed(p) \/ Admitting(p)

\* No step of the task brings an unauthorized peer into the topic.
LEMMA LiveNeedsAuthorization ==
  ASSUME TypeOK, GateInv, NEW p \in Peer, SwarmStep, Live(p)'
  PROVE  Live(p) \/ p \in authorized
<1> USE DEF TypeOK, Live, Exposed, Admitting, AtLoop, Looping, taskVars, netVars
<1>1. CASE HandleDisconnect
  <2>1. Established(p)' = Established(p)
    BY <1>1, StartCloseKeepsEstablished DEF HandleDisconnect
  <2> QED BY <1>1, <2>1 DEF HandleDisconnect
<1>2. CASE HandlePublish
  BY <1>2 DEF HandlePublish, Established
<1>3. ASSUME NEW q \in Peer, ConnectionEstablished(q) PROVE Live(p) \/ p \in authorized
  <2>1. p \in peer_addr => Established(p) > 0
    BY DEF GateInv, OnlineIsReal
  <2>2. p # q => Established(p)' = Established(p)
    BY <1>3 DEF ConnectionEstablished, Established
  <2> QED BY <1>3, <2>1, <2>2 DEF ConnectionEstablished
<1>4. ASSUME NEW q \in Peer, ConnectionClosed(q) \/ ConnectionLost(q)
      PROVE  Live(p) \/ p \in authorized
  <2>1. p # q => Established(p)' = Established(p)
    BY <1>4 DEF ConnectionClosed, ConnectionLost, Established
  <2>2. p = q => Established(p) \in Nat /\ Established(p)' = Established(p) - 1
    BY <1>4 DEF ConnectionClosed, ConnectionLost, Established
  <2> QED BY <1>4, <2>1, <2>2 DEF ConnectionClosed, ConnectionLost, ForgetIfLast
<1>5. ASSUME NEW q \in Peer, IdentifyBadKey(q) PROVE Live(p) \/ p \in authorized
  <2>1. Established(p)' = Established(p)
    BY <1>5, StartCloseKeepsEstablished DEF IdentifyBadKey
  <2> QED BY <1>5, <2>1 DEF IdentifyBadKey
<1>6. ASSUME NEW q \in Peer, IdentifyRefuse(q) PROVE Live(p) \/ p \in authorized
  <2>1. Established(p)' = Established(p)
    BY <1>6, StartCloseKeepsEstablished DEF IdentifyRefuse
  <2> QED BY <1>6, <2>1 DEF IdentifyRefuse
<1>7. ASSUME NEW q \in Peer, IdentifyCheck(q) PROVE Live(p) \/ p \in authorized
  BY <1>7 DEF IdentifyCheck, Established
<1>8. CASE IdentifyAdmit
  BY <1>8 DEF IdentifyAdmit, Established
<1>9. CASE Sweep
  <2>1. Established(p)' = Established(p)
    BY <1>9, StartCloseKeepsEstablished DEF Sweep
  <2> QED BY <1>9, <2>1 DEF Sweep
<1>10. ASSUME NEW q \in Peer, NEW c \in Cid, MessageCheck(q, c)
       PROVE  Live(p) \/ p \in authorized
  BY <1>10 DEF MessageCheck, Established
<1>11. CASE MessagePush
  <2>1. UNCHANGED <<gated, netVars>> /\ ~Admitting(p)'
    BY <1>11 DEF MessagePush
  <2> QED BY <2>1 DEF Established
<1> QED BY <1>1, <1>2, <1>3, <1>4, <1>5, <1>6, <1>7, <1>8, <1>9, <1>10, <1>11 DEF SwarmStep

\* Sending a command moves no other one.
LEMMA PublishDaemon ==
  ASSUME TypeOK, GateInv, PublishInv, DaemonStep
  PROVE  PublishInv'
<1> USE DEF TypeOK, PublishInv, daemonVars, sharedVars, taskVars, netVars, historyVars
<1>1. ASSUME NEW p \in Peer PROVE Exposed(p)' = Exposed(p) /\ Admitting(p)' = Admitting(p)
  <2>1. UNCHANGED <<gated, task, open, closing>>
    BY DEF DaemonStep, ApplyRoster, DisconnectLock, Authorize, DisconnectSend, Peers, Poll,
           ShareFile
  <2> QED BY <2>1 DEF Exposed, Established, Admitting
<1>2. ASSUME NEW p \in Peer, DisconnectLock(p) PROVE PublishInv'
  <2>1. UNCHANGED <<cmds, outsiders>> /\ authorized' \subseteq authorized
    BY <1>2 DEF DisconnectLock
  <2> QED BY <1>1, <2>1
<1>3. ASSUME NEW p \in Peer, Authorize(p) PROVE PublishInv'
  <2>1. UNCHANGED cmds /\ \A c \in Cid : outsiders'[c] = outsiders[c] \ {p}
    BY <1>3 DEF Authorize
  <2>2. authorized' = authorized \cup {p}
    BY <1>3 DEF Authorize
  <2>3. \A c \in Cid : outsiders'[c] \cap authorized' = {}
    BY <2>1, <2>2
  <2>4. ASSUME NEW c \in Cid, NEW i \in 1..Len(cmds), cmds[i] = Publish(c),
               NEW q \in outsiders'[c], Live(q)
        PROVE  \E j \in 1..(i - 1) : cmds[j] = Disconnect(q)
    BY <2>1, <2>4 DEF Live
  <2>5. \A c \in Cid : outsiders'[c] \subseteq Peer
    BY <2>1
  <2> HIDE DEF TypeOK
  <2>6. ASSUME NEW c \in Cid, NEW i \in 1..Len(cmds'), cmds'[i] = Publish(c),
               NEW q \in outsiders'[c], Live(q)'
        PROVE  \E j \in 1..(i - 1) : cmds'[j] = Disconnect(q)
    <3>1. Live(q)
      BY <1>1, <2>5, <2>6 DEF Live
    <3> QED BY <2>1, <2>4, <2>6, <3>1
  <2> QED BY <2>3, <2>6 DEF Live
<1>4. CASE Peers \/ Poll \/ \E new \in SUBSET Peer : ApplyRoster(new)
  <2>1. UNCHANGED <<cmds, outsiders, authorized>>
    BY <1>4 DEF Peers, Poll, ApplyRoster
  <2> QED BY <1>1, <2>1
<1>5. CASE DisconnectSend
  <2>1. Disconnect(sending) \in SwarmCmd /\ \A c \in Cid : Disconnect(sending) # Publish(c)
    BY <1>5 DEF DisconnectSend, Disconnect, Publish, SwarmCmd
  <2>2. /\ Len(cmds') = Len(cmds) + 1 /\ Len(cmds) \in Nat
        /\ \A i \in 1..Len(cmds) : cmds'[i] = cmds[i]
        /\ cmds'[Len(cmds) + 1] = Disconnect(sending)
    BY <1>5, <2>1, AppendCmd DEF DisconnectSend
  <2>3. UNCHANGED <<outsiders, authorized>>
    BY <1>5 DEF DisconnectSend
  <2>4. ASSUME NEW c \in Cid, NEW i \in 1..Len(cmds'), cmds'[i] = Publish(c),
               NEW p \in outsiders[c], Live(p)
        PROVE  \E j \in 1..(i - 1) : cmds'[j] = Disconnect(p)
    <3> HIDE DEF TypeOK, PublishInv
    <3>1. i \in 1..Len(cmds) /\ cmds[i] = Publish(c)
      <4>1. i # Len(cmds) + 1
        BY <2>1, <2>2, <2>4
      <4> QED BY <2>2, <2>4, <4>1
    <3> USE DEF PublishInv
    <3>2. PICK j \in 1..(i - 1) : cmds[j] = Disconnect(p)
      BY <2>4, <3>1 DEF Live
    <3>3. j \in 1..Len(cmds)
      BY <2>2, <3>1, <3>2
    <3> QED BY <2>2, <3>2, <3>3
  <2> QED BY <1>1, <2>3, <2>4 DEF Live
<1>6. ASSUME NEW d \in Cid, ShareFile(d) PROVE PublishInv'
  <2>1. Publish(d) \in SwarmCmd
    BY DEF Publish, SwarmCmd
  <2>2. /\ Len(cmds') = Len(cmds) + 1 /\ Len(cmds) \in Nat
        /\ \A i \in 1..Len(cmds) : cmds'[i] = cmds[i]
        /\ cmds'[Len(cmds) + 1] = Publish(d)
    BY <1>6, <2>1, AppendCmd DEF ShareFile
  <2>3. authorized' = authorized /\ sending = NoPeer
    BY <1>6 DEF ShareFile, Idle
  <2>4. \A c \in Cid : outsiders'[c] \cap authorized = {}
    BY <1>6 DEF ShareFile
  <2>5. \A c \in Cid : outsiders'[c] \subseteq Peer
    BY <1>6 DEF ShareFile
  <2>6. ASSUME NEW c \in Cid, NEW i \in 1..Len(cmds'), cmds'[i] = Publish(c),
               NEW p \in outsiders'[c], Live(p)
        PROVE  \E j \in 1..(i - 1) : cmds'[j] = Disconnect(p)
    <3>1. p \in Peer /\ p \notin authorized
      BY <2>4, <2>5
    <3>2. CASE i = Len(cmds) + 1
      <4>1. EvictionPending(p)
        BY <2>6, <3>1 DEF Live, GateInv, EvictionInFlight
      <4>2. PICK j \in 1..Len(cmds) : cmds[j] = Disconnect(p)
        BY <2>3, <3>1, <4>1, NoPeerAssumption DEF EvictionPending, Queued
      <4> QED BY <2>2, <3>2, <4>2
    <3>3. CASE i # Len(cmds) + 1
      <4>1. i \in 1..Len(cmds) /\ cmds[i] = Publish(c)
        BY <2>2, <2>6, <3>3
      <4>2. p \in outsiders[c]
        <5>1. c = d => Queued(Publish(d))
          BY <4>1 DEF Queued
        <5> QED BY <1>6, <5>1 DEF ShareFile
      <4>3. PICK j \in 1..(i - 1) : cmds[j] = Disconnect(p)
        BY <2>6, <4>1, <4>2 DEF Live
      <4>4. j \in 1..Len(cmds)
        BY <2>2, <4>1, <4>3
      <4> QED BY <2>2, <4>3, <4>4
    <3> QED BY <3>2, <3>3
  <2> QED BY <1>1, <2>3, <2>4, <2>5, <2>6 DEF Live
<1> QED BY <1>2, <1>3, <1>4, <1>5, <1>6 DEF DaemonStep

\* Receiving a command either leaves an outsider's Disconnect ahead of the
\* Publish or is that Disconnect, which shuts the outsider out.
LEMMA PublishSwarm ==
  ASSUME TypeOK, GateInv, PublishInv, SwarmStep
  PROVE  PublishInv'
<1> USE DEF TypeOK, PublishInv
<1>1. UNCHANGED <<authorized, outsiders>>
  BY DEF SwarmStep, HandleDisconnect, HandlePublish, ConnectionEstablished,
         ConnectionClosed, ConnectionLost, IdentifyBadKey, IdentifyRefuse, IdentifyCheck,
         IdentifyAdmit, Sweep, MessageCheck, MessagePush, sharedVars, historyVars
<1>2. \A c \in Cid : \A p \in outsiders[c] : p \in Peer /\ (Live(p)' => Live(p))
  BY LiveNeedsAuthorization
<1>3. CASE UNCHANGED cmds
  <2> HIDE DEF TypeOK
  <2> QED BY <1>1, <1>2, <1>3 DEF Live
<1>4. CASE HandleDisconnect \/ HandlePublish
  <2>1. cmds # <<>> /\ cmds' = Tail(cmds)
    BY <1>4 DEF HandleDisconnect, HandlePublish
  <2>2. /\ Len(cmds) \in Nat /\ Len(cmds) >= 1 /\ Len(cmds') = Len(cmds) - 1
        /\ \A i \in 1..Len(cmds') : cmds'[i] = cmds[i + 1]
        /\ Head(cmds) = cmds[1]
    BY <2>1, TailCmd
  <2>3. ASSUME NEW c \in Cid, NEW i \in 1..Len(cmds'), cmds'[i] = Publish(c),
               NEW p \in outsiders[c], Live(p)'
        PROVE  \E j \in 1..(i - 1) : cmds'[j] = Disconnect(p)
    <3>1. i + 1 \in 1..Len(cmds) /\ cmds[i + 1] = Publish(c)
      BY <2>2, <2>3
    <3>2. PICK j \in 1..((i + 1) - 1) : cmds[j] = Disconnect(p)
      BY <1>2, <2>3, <3>1 DEF Live
    <3>3. CASE j = 1
      <4>1. HandleDisconnect /\ Head(cmds).addr = p
        BY <1>4, <2>2, <3>2, <3>3 DEF HandlePublish, Disconnect
      <4>2. Established(p)' = Established(p) /\ p \in Peer
        BY <1>2, <4>1, StartCloseKeepsEstablished DEF HandleDisconnect
      <4>3. p \in peer_addr => p \in gated'
        BY <4>1 DEF HandleDisconnect
      <4>4. gated \subseteq gated' /\ ~Admitting(p)'
        BY <4>1 DEF HandleDisconnect, AtLoop, Admitting
      <4>5. Exposed(p) => p \in peer_addr
        BY <4>2 DEF GateInv, GatedUntilIdentified
      <4> QED BY <2>3, <4>2, <4>3, <4>4, <4>5 DEF Live, Exposed
    <3>4. CASE j # 1
      <4>1. j - 1 \in 1..(i - 1) /\ j - 1 \in 1..Len(cmds') /\ (j - 1) + 1 = j
        BY <2>2, <3>2, <3>4
      <4>2. cmds'[j - 1] = cmds[j]
        BY <2>2, <4>1
      <4> QED BY <3>2, <4>1, <4>2
    <3> QED BY <3>3, <3>4
  <2> QED BY <1>1, <2>3 DEF Live
<1> QED BY <1>3, <1>4
        DEF SwarmStep, ConnectionEstablished, ConnectionClosed, ConnectionLost,
            IdentifyBadKey, IdentifyRefuse, IdentifyCheck, IdentifyAdmit, Sweep,
            MessageCheck, MessagePush

\* No co-pin is published to a peer that was outside the roster when it was
\* shared and has not been let in since (disconnect, publish, swarm_loop).
THEOREM NoPublishToEvictedHolds == Spec => []NoPublishToEvicted
<1>1. Init => PublishInv
  BY DEF Init, PublishInv
<1>2. TypeOK /\ GateInv /\ PublishInv /\ [Next]_vars => PublishInv'
  <2> SUFFICES ASSUME TypeOK, GateInv, PublishInv, [Next]_vars PROVE PublishInv'
    OBVIOUS
  <2>1. ASSUME NEW p \in Peer, Elapse(p) PROVE PublishInv'
    BY <2>1 DEF Elapse, PublishInv, Exposed, Established, Admitting, sharedVars, netVars,
                historyVars
  <2>2. CASE UNCHANGED vars
    BY <2>2 DEF vars, PublishInv, Exposed, Established, Admitting, sharedVars, taskVars,
                netVars, historyVars
  <2> QED BY <2>1, <2>2, PublishDaemon, PublishSwarm DEF Next
<1>3. TypeOK /\ PublishInv => NoPublishToEvicted
  <2> SUFFICES ASSUME TypeOK, PublishInv, NEW c \in Cid, cmds # <<>>, cmds[1] = Publish(c),
                      NEW p \in outsiders[c], Exposed(p)
               PROVE  FALSE
    BY DEF NoPublishToEvicted
  <2>1. 1 \in 1..Len(cmds)
    BY DEF TypeOK
  <2>2. \E j \in 1..(1 - 1) : cmds[j] = Disconnect(p)
    BY <2>1 DEF PublishInv
  <2> QED BY <2>2
<1> QED BY <1>1, <1>2, <1>3, TypeCorrect, GateInvariant, PTL DEF Spec

-----------------------------------------------------------------------------
(* Received messages.                                                      *)

\* At most one message of an address enters the inbox after the address was
\* de-authorized (the message handler's check and push, and push_inbox).
THEOREM AtMostOneLateMessageHolds == Spec => []AtMostOneLateMessage
<1>1. Init => LateInv
  <2> SUFFICES ASSUME Init PROVE LateInv
    OBVIOUS
  <2>1. \A p \in Peer : late[p] = 0
    BY DEF Init
  <2>2. 0 <= 1
    OBVIOUS
  <2> QED BY <2>1, <2>2, Zenon DEF LateInv
<1>2. TypeOK /\ LateInv /\ [Next]_vars => LateInv'
  <2> SUFFICES ASSUME TypeOK, LateInv, [Next]_vars PROVE LateInv'
    OBVIOUS
  <2> USE DEF TypeOK, LateInv
  <2>1. ASSUME NEW p \in Peer, DisconnectLock(p) PROVE LateInv'
    BY <2>1 DEF DisconnectLock, taskVars, historyVars
  <2>2. ASSUME NEW p \in Peer, Authorize(p) PROVE LateInv'
    BY <2>2 DEF Authorize, taskVars
  <2>3. ASSUME NEW p \in Peer, NEW c \in Cid, MessageCheck(p, c) PROVE LateInv'
    BY <2>3 DEF MessageCheck, sharedVars, historyVars
  <2>4. CASE MessagePush
    <3>1. task.from \in Peer /\ late[task.from] = 0
      BY <2>4, TaskCases DEF MessagePush
    <3>2. task'.at = "loop" /\ authorized' = authorized
      BY <2>4 DEF MessagePush, Looping
    <3>3. CASE late' = late
      BY <3>2, <3>3
    <3>4. CASE late' = [late EXCEPT ![task.from] = @ + 1] /\ task.from \notin authorized
      BY <3>1, <3>2, <3>4
    <3> QED BY <2>4, <3>3, <3>4 DEF MessagePush
  <2>5. CASE UNCHANGED <<authorized, late>> /\ (task' = task \/ task'.at # "message")
    BY <2>5
  <2>6. CASE DaemonStep /\ ~\E p \in Peer : DisconnectLock(p) \/ Authorize(p)
    <3>1. UNCHANGED <<authorized, late, task>>
      BY <2>6 DEF DaemonStep, ApplyRoster, DisconnectSend, Peers, Poll, ShareFile, daemonVars,
                  sharedVars, taskVars, historyVars
    <3> QED BY <3>1, <2>5
  <2>7. CASE SwarmStep /\ ~MessagePush /\ ~\E p \in Peer, c \in Cid : MessageCheck(p, c)
    <3>1. CASE IdentifyAdmit
      BY <2>5, <3>1 DEF IdentifyAdmit, Looping, historyVars
    <3>2. ASSUME NEW p \in Peer, IdentifyCheck(p) PROVE LateInv'
      BY <2>5, <3>2 DEF IdentifyCheck, sharedVars, historyVars
    <3>3. CASE UNCHANGED <<authorized, late, task>>
      BY <2>5, <3>3
    <3>4. \/ IdentifyAdmit \/ \E p \in Peer : IdentifyCheck(p)
          \/ UNCHANGED <<authorized, late, task>>
      <4> HIDE DEF TypeOK, LateInv
      <4> QED BY <2>7 DEF SwarmStep, HandleDisconnect, HandlePublish, ConnectionEstablished,
                          ConnectionClosed, ConnectionLost, IdentifyBadKey, IdentifyRefuse,
                          Sweep, sharedVars, taskVars, historyVars
    <3> QED BY <3>1, <3>2, <3>3, <3>4
  <2>8. ASSUME NEW p \in Peer, Elapse(p) PROVE LateInv'
    BY <2>8 DEF Elapse, sharedVars, historyVars
  <2>9. CASE UNCHANGED vars
    BY <2>9 DEF vars, sharedVars, taskVars, historyVars
  <2> QED BY <2>1, <2>2, <2>3, <2>4, <2>6, <2>7, <2>8, <2>9 DEF Next, DaemonStep
<1>3. LateInv => AtMostOneLateMessage
  BY DEF LateInv, AtMostOneLateMessage
<1> QED BY <1>1, <1>2, <1>3, TypeCorrect, PTL DEF Spec
-----------------------------------------------------------------------------
(* The transport implements Admission.                                     *)

\* Only the identify handler's admission brings a peer into the topic.
LEMMA ExposedByAdmitOnly ==
  ASSUME TypeOK, GateInv, NEW p \in Peer, SwarmStep, Exposed(p)'
  PROVE  Exposed(p) \/ (IdentifyAdmit /\ task.peer = p)
<1> USE DEF TypeOK, Exposed, taskVars, netVars
<1>1. CASE HandleDisconnect
  <2>1. Established(p)' = Established(p)
    BY <1>1, StartCloseKeepsEstablished DEF HandleDisconnect
  <2> QED BY <1>1, <2>1 DEF HandleDisconnect
<1>2. CASE HandlePublish
  BY <1>2 DEF HandlePublish, Established
<1>3. ASSUME NEW q \in Peer, ConnectionEstablished(q) PROVE Exposed(p)
  <2>1. p \in peer_addr => Established(p) > 0
    BY DEF GateInv, OnlineIsReal
  <2>2. p # q => Established(p)' = Established(p)
    BY <1>3 DEF ConnectionEstablished, Established
  <2> QED BY <1>3, <2>1, <2>2 DEF ConnectionEstablished
<1>4. ASSUME NEW q \in Peer, ConnectionClosed(q) \/ ConnectionLost(q) PROVE Exposed(p)
  <2>1. p # q => Established(p)' = Established(p)
    BY <1>4 DEF ConnectionClosed, ConnectionLost, Established
  <2>2. p = q => Established(p) \in Nat /\ Established(p)' = Established(p) - 1
    BY <1>4 DEF ConnectionClosed, ConnectionLost, Established
  <2> QED BY <1>4, <2>1, <2>2 DEF ConnectionClosed, ConnectionLost, ForgetIfLast
<1>5. ASSUME NEW q \in Peer, IdentifyBadKey(q) \/ IdentifyRefuse(q) PROVE Exposed(p)
  <2>1. Established(p)' = Established(p)
    BY <1>5, StartCloseKeepsEstablished DEF IdentifyBadKey, IdentifyRefuse
  <2> QED BY <1>5, <2>1 DEF IdentifyBadKey, IdentifyRefuse
<1>6. ASSUME NEW q \in Peer, IdentifyCheck(q) PROVE Exposed(p)
  BY <1>6 DEF IdentifyCheck, Established
<1>7. CASE IdentifyAdmit
  BY <1>7 DEF IdentifyAdmit, Established
<1>8. CASE Sweep
  <2>1. Established(p)' = Established(p)
    BY <1>8, StartCloseKeepsEstablished DEF Sweep
  <2> QED BY <1>8, <2>1 DEF Sweep
<1>9. ASSUME NEW q \in Peer, NEW c \in Cid, MessageCheck(q, c) PROVE Exposed(p)
  BY <1>9 DEF MessageCheck, Established
<1>10. CASE MessagePush
  BY <1>10 DEF MessagePush, Established
<1> QED BY <1>1, <1>2, <1>3, <1>4, <1>5, <1>6, <1>7, <1>8, <1>9, <1>10 DEF SwarmStep

\* No step of the task cancels the eviction of a peer that stays in the topic:
\* the Disconnect it takes off the queue shuts out the peer it names.
LEMMA EvictionIsNotLost ==
  ASSUME TypeOK, GateInv, NEW p \in Peer, SwarmStep, EvictionPending(p), Exposed(p)
  PROVE  EvictionPending(p)' \/ ~Exposed(p)'
<1>1. CASE HandleDisconnect
  <2>1. Queued(Disconnect(p)) => Queued(Disconnect(p))' \/ Head(cmds) = Disconnect(p)
    BY <1>1, TailQueued DEF HandleDisconnect, TypeOK
  <2>2. CASE Head(cmds) = Disconnect(p)
    <3>1. p \in peer_addr
      BY DEF GateInv, GatedUntilIdentified
    <3>2. p \in gated'
      BY <1>1, <2>2, <3>1 DEF HandleDisconnect, Disconnect
    <3> QED BY <3>2 DEF Exposed
  <2> QED BY <1>1, <2>1, <2>2 DEF HandleDisconnect, EvictionPending, daemonVars
<1>2. CASE HandlePublish
  <2>1. Head(cmds) # Disconnect(p)
    BY <1>2 DEF HandlePublish, Disconnect
  <2>2. Queued(Disconnect(p)) => Queued(Disconnect(p))'
    BY <1>2, <2>1, TailQueued DEF HandlePublish, TypeOK
  <2> QED BY <1>2, <2>2 DEF HandlePublish, EvictionPending, daemonVars
<1>3. CASE ~HandleDisconnect /\ ~HandlePublish
  <2>1. UNCHANGED <<sending, cmds>>
    BY <1>3 DEF SwarmStep, ConnectionEstablished, ConnectionClosed, ConnectionLost,
                IdentifyBadKey, IdentifyRefuse, IdentifyCheck, IdentifyAdmit, Sweep,
                MessageCheck, MessagePush, daemonVars
  <2> QED BY <2>1 DEF EvictionPending, Queued
<1> QED BY <1>1, <1>2, <1>3

\* Every step of the two threads is one of Admission's, or none: the transport
\* keeps the promise with the authorized set as the allowed one and, as the
\* mesh, the authorized peers in the topic that no queued eviction is about to
\* take out.  GateInv is needed where an address is authorized again while its
\* eviction is still queued.
THEOREM Refinement == Spec => ImplementsAdmission
<1>1. Init => A!Init
  <2>1. Init => Mesh = {}
    BY DEF Init, Mesh
  <2> QED BY <2>1 DEF Init, A!Init
<1>2. TypeOK /\ GateInv /\ [Next]_vars => [A!Next]_A!vars
  <2> SUFFICES ASSUME TypeOK, GateInv, [Next]_vars PROVE [A!Next]_A!vars
    OBVIOUS
  <2>1. Mesh \subseteq Peer
    BY DEF Mesh, TypeOK
  <2>2. ASSUME NEW p \in Peer, DisconnectLock(p) PROVE A!Next
    <3>1. UNCHANGED <<cmds, gated, netVars>> /\ sending = NoPeer
      BY <2>2 DEF DisconnectLock, taskVars
    <3>2. \A q \in Peer : Exposed(q)' = Exposed(q) /\ Queued(Disconnect(q))' = Queued(Disconnect(q))
      BY <3>1 DEF Exposed, Established, Queued, netVars
    <3>3. A!Reconcile(authorized \ {p})
      BY <2>2, <3>1, <3>2, NoPeerAssumption
      DEF DisconnectLock, TypeOK, A!Reconcile, Mesh, EvictionPending
    <3> QED BY <3>3 DEF TypeOK, A!Next
  <2>3. ASSUME NEW p \in Peer, Authorize(p) PROVE A!Next
    <3>1. UNCHANGED <<sending, cmds, gated, netVars>>
      BY <2>3 DEF Authorize, taskVars
    <3>2. \A q \in Peer : Exposed(q)' = Exposed(q) /\ EvictionPending(q)' = EvictionPending(q)
      BY <3>1 DEF Exposed, Established, EvictionPending, Queued, netVars
    <3>3. Exposed(p) /\ p \notin authorized => EvictionPending(p)
      BY DEF GateInv, EvictionInFlight
    <3>4. A!Reconcile(authorized \cup {p})
      BY <2>3, <3>2, <3>3 DEF Authorize, TypeOK, A!Reconcile, Mesh
    <3> QED BY <3>4 DEF TypeOK, A!Next
  <2>4. ASSUME UNCHANGED <<authorized, gated, netVars>>,
               \A q \in Peer : EvictionPending(q) => EvictionPending(q)'
        PROVE  A!Next
    <3>1. \A q \in Peer : Exposed(q)' = Exposed(q)
      BY <2>4 DEF Exposed, Established, netVars
    <3> QED BY <2>4, <3>1 DEF TypeOK, Mesh, A!Next, A!Drop
  <2>5. CASE DisconnectSend
    <3>1. Disconnect(sending) \in SwarmCmd
      BY <2>5 DEF DisconnectSend, Disconnect, SwarmCmd, TypeOK
    <3>2. \A y : Queued(y) \/ y = Disconnect(sending) => Queued(y)'
      BY <2>5, <3>1, AppendQueued DEF DisconnectSend, TypeOK
    <3>3. \A q \in Peer : EvictionPending(q) => EvictionPending(q)'
      BY <3>2 DEF EvictionPending, Disconnect
    <3> QED BY <2>4, <2>5, <3>3 DEF DisconnectSend, sharedVars, taskVars
  <2>6. ASSUME NEW c \in Cid, ShareFile(c) PROVE A!Next
    <3>1. Publish(c) \in SwarmCmd
      BY DEF Publish, SwarmCmd
    <3>2. \A y : Queued(y) => Queued(y)'
      BY <2>6, <3>1, AppendQueued DEF ShareFile, TypeOK
    <3>3. \A q \in Peer : EvictionPending(q) => EvictionPending(q)'
      BY <2>6, <3>2 DEF EvictionPending, ShareFile, daemonVars
    <3> QED BY <2>4, <2>6, <3>3 DEF ShareFile, sharedVars, taskVars
  <2>7. ASSUME UNCHANGED <<authorized, gated, netVars, sending, cmds>> PROVE A!Next
    <3>1. \A q \in Peer : EvictionPending(q) => EvictionPending(q)'
      BY <2>7 DEF EvictionPending, Queued
    <3> QED BY <2>4, <2>7, <3>1
  <2>8. ASSUME NEW new \in SUBSET Peer, ApplyRoster(new) PROVE A!Next
    BY <2>7, <2>8 DEF ApplyRoster, sharedVars, taskVars
  <2>9. CASE Peers \/ Poll
    BY <2>7, <2>9 DEF Peers, Poll, sharedVars, taskVars
  <2>10. ASSUME NEW p \in Peer, Elapse(p) PROVE A!Next
    BY <2>7, <2>10 DEF Elapse, daemonVars, sharedVars
  <2>11. CASE SwarmStep
    <3>1. UNCHANGED authorized
      BY <2>11 DEF SwarmStep, HandleDisconnect, HandlePublish, ConnectionEstablished,
                   ConnectionClosed, ConnectionLost, IdentifyBadKey, IdentifyRefuse,
                   IdentifyCheck, IdentifyAdmit, Sweep, MessageCheck, MessagePush, sharedVars
    <3>2. ASSUME NEW q \in Peer, q \in Mesh'
          PROVE  q \in Mesh \/ (IdentifyAdmit /\ task.peer = q)
      <4>1. q \in authorized /\ Exposed(q)' /\ ~EvictionPending(q)'
        BY <3>1, <3>2 DEF Mesh
      <4>2. Exposed(q) => ~EvictionPending(q)
        BY <2>11, <4>1, EvictionIsNotLost
      <4> QED BY <2>11, <4>1, <4>2, ExposedByAdmitOnly DEF Mesh
    <3>3. Mesh' \subseteq Peer
      BY <3>1 DEF Mesh, TypeOK
    <3>4. CASE Mesh' \subseteq Mesh
      BY <3>1, <3>4 DEF A!Next, A!Drop
    <3>5. CASE IdentifyAdmit /\ task.peer \in Mesh'
      <4>1. task.peer \in Peer
        BY <3>3, <3>5
      <4>2. UNCHANGED <<sending, cmds, netVars>> /\ gated' \subseteq gated
        BY <3>5 DEF IdentifyAdmit, daemonVars
      <4>3. \A q \in Peer : /\ EvictionPending(q)' = EvictionPending(q)
                            /\ Exposed(q) => Exposed(q)'
        BY <4>2 DEF EvictionPending, Queued, Exposed, Established, netVars
      <4>4. Mesh \subseteq Mesh'
        BY <2>1, <3>1, <4>3 DEF Mesh
      <4>5. Mesh' = Mesh \cup {task.peer}
        BY <3>2, <3>3, <3>5, <4>4
      <4>6. task.peer \in authorized
        BY <3>1, <3>5 DEF Mesh
      <4> QED BY <3>1, <4>1, <4>5, <4>6 DEF A!Next, A!Admit
    <3> QED BY <3>2, <3>3, <3>4, <3>5
  <2>12. CASE UNCHANGED vars
    BY <2>7, <2>12 DEF vars, daemonVars, sharedVars, taskVars
  <2> QED BY <2>2, <2>3, <2>5, <2>6, <2>8, <2>9, <2>10, <2>11, <2>12 DEF Next, DaemonStep
<1> QED BY <1>1, <1>2, TypeCorrect, GateInvariant, PTL DEF Spec, ImplementsAdmission, A!Spec
=============================================================================
