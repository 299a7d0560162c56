---------------------------- MODULE GroupSwarms ----------------------------
(***************************************************************************)
(* The swarms of several daemons: one per group a daemon is in, each on a  *)
(* port of its own, found by others through the seeds its daemon gives out.*)
(* A session owns its swarm; Leave drops it, and the swarm's task ends a   *)
(* moment later, so a re-join may find the port still taken.  Seeds are    *)
(* texts: they are kept, used late, and name ports that others have now.   *)
(*                                                                         *)
(* A daemon has one identity in all its groups, so what keeps a dial in    *)
(* its group is the group id in the Noise prologue.  Who is let in after   *)
(* that is Libp2pTransport's; how the timer dials the listed addresses is  *)
(* Redial's, of which only the result is taken over (InReach); how a seed  *)
(* becomes text and back is Seed's.  A host stands for all the interfaces  *)
(* it has, so that a seed has one address.                                 *)
(***************************************************************************)
EXTENDS Naturals, FiniteSets, SequencesExt

CONSTANTS
  Node, NoPeer, Group, NoGroup,
  Swarm, NoSwarm,          \* bound: how many swarms exist at a time
  NodeConfigs,             \* the ways the nodes may be configured
  Hash,                    \* the first two bytes of a group id's keccak256
  GROUP_PORT_SPAN, MaxPort,
  MAX_BOOTSTRAP, MAX_REDIAL_PER_TICK,
  Ephemeral,               \* the ports the system gives to those that ask for any
  MaxSeeds                 \* bound: seeds in circulation

\* `listen`: the port of CITRATE_CLUSTER_LISTEN, 0 for any.  `bootstrap` is dialed
\* for the pinned group only, and taken as it is: an address in it may name no peer,
\* or the node itself.
Address == [host : Node, port : 1 .. MaxPort, peer : Node \cup {NoPeer}]
NodeConfig == [listen : 0 .. MaxPort, pinned_group : Group \cup {NoGroup},
               bootstrap : Seq(Address)]

ASSUME SwarmAssumption ==
  /\ NoPeer \notin Node /\ NoGroup \notin Group /\ NoSwarm \notin Swarm
  /\ NodeConfigs \subseteq [Node -> NodeConfig]
  /\ Hash \in [Group -> Nat] /\ GROUP_PORT_SPAN \in Nat \ {0} /\ MaxPort \in Nat
  /\ Ephemeral \subseteq 1 .. MaxPort
  /\ MaxSeeds \in Nat /\ MAX_BOOTSTRAP \in Nat \ {0} /\ MAX_REDIAL_PER_TICK \in Nat

VARIABLES
  config,                  \* each node's NodeConfig
  session,                 \* the swarm each node's session of a group owns
  swarm,                   \* node, group and port of each swarm whose task runs
  aborted,                 \* the swarms whose task was told to end
  listeners,               \* the swarms whose listener has reported its address
  bootstrap,               \* the addresses a swarm dials, in this order
  conns,                   \* connections: dialing and accepting swarm
  seeds                    \* the seeds given out; `by` is history: the swarm, if it runs

vars == <<config, session, swarm, aborted, listeners, bootstrap, conns, seeds>>

NoTask == [node |-> "none", group |-> NoGroup, port |-> 0]
Running(s) == swarm[s] # NoTask
Owned(s) == \E n \in Node, g \in Group : session[n][g] = s

Init ==
  /\ config \in NodeConfigs
  /\ session = [n \in Node |-> [g \in Group |-> NoSwarm]]
  /\ swarm = [s \in Swarm |-> NoTask]
  /\ aborted = {}
  /\ listeners = {}
  /\ bootstrap = [s \in Swarm |-> <<>>]
  /\ conns = {}
  /\ seeds = {}

-----------------------------------------------------------------------------
(* The transport factory.                                                  *)

\* Mutation: the sum wraps, as u16 arithmetic does unchecked.
group_listen_wraps(base, g) ==
  IF base = 0 THEN 0 ELSE (base + (Hash[g] % GROUP_PORT_SPAN)) % (MaxPort + 1)

\* The port asked for; 0 for any, also if the sum is no port.
group_listen(base, g) ==
  LET port == base + (Hash[g] % GROUP_PORT_SPAN)
  IN  IF base = 0 \/ port > MaxPort THEN 0 ELSE port

Taken(n) == {swarm[s].port : s \in {x \in Swarm : swarm[x].node = n}}

\* The ports transport_for may end up with.  Binding a fixed port may fail, for
\* whoever has it; a port of our own that is still in use may be shared or refused.
\* Then any port will do, but not for the pinned group.
ListenPorts(n, g) ==
  LET pinned == config[n].pinned_group = g
      wanted == IF pinned THEN config[n].listen ELSE group_listen(config[n].listen, g)
  IN  {p \in {wanted} : p # 0} \cup (IF pinned /\ wanted # 0 THEN {} ELSE Ephemeral \ Taken(n))

ensure_group_allowed(n, g) == config[n].pinned_group \in {g, NoGroup}

FirstOf(list, limit) == SubSeq(list, 1, IF Len(list) < limit THEN Len(list) ELSE limit)

\* Join, or the first SetRoster: ensure_session with transport_for.
Join(n, g) ==
  /\ ensure_group_allowed(n, g) /\ session[n][g] = NoSwarm
  /\ \E x \in Swarm : ~Running(x)
  /\ LET s == CHOOSE x \in Swarm : ~Running(x)
     IN  \E port \in ListenPorts(n, g) :
           /\ swarm' = [swarm EXCEPT ![s] = [node |-> n, group |-> g, port |-> port]]
           /\ session' = [session EXCEPT ![n][g] = s]
           /\ bootstrap' = [bootstrap EXCEPT ![s] =
                              IF config[n].pinned_group = g
                                THEN FirstOf(config[n].bootstrap, MAX_BOOTSTRAP) ELSE <<>>]
  /\ UNCHANGED <<config, aborted, listeners, conns, seeds>>

\* Leave drops the session and so the transport, whose Drop aborts the task.
\* Nobody asks that swarm where it listens any more.  (A crash of the daemon is a
\* Leave of all its groups, with the tasks gone at once.)
Leave(n, g) ==
  /\ session[n][g] # NoSwarm
  /\ session' = [session EXCEPT ![n][g] = NoSwarm]
  /\ aborted' = aborted \cup {session[n][g]}
  /\ listeners' = listeners \ {session[n][g]}
  /\ UNCHANGED <<config, swarm, bootstrap, conns, seeds>>

End(ended) ==
  /\ swarm' = [s \in Swarm |-> IF s \in ended THEN NoTask ELSE swarm[s]]
  /\ listeners' = listeners \ ended
  /\ bootstrap' = [s \in Swarm |-> IF s \in ended THEN <<>> ELSE bootstrap[s]]
  /\ conns' = {c \in conns : c[1] \notin ended /\ c[2] \notin ended}
  /\ seeds' = {[seed EXCEPT !.by = IF @ \in ended THEN NoSwarm ELSE @] : seed \in seeds}
  /\ aborted' = aborted \ ended

\* The aborted task stops at its next await, and its sockets close.
TaskEnds(s) ==
  /\ s \in aborted
  /\ End({s})
  /\ UNCHANGED <<config, session>>

-----------------------------------------------------------------------------
(* Seeds.                                                                  *)

NewListenAddr(s) ==
  /\ Owned(s) /\ s \notin listeners
  /\ listeners' = listeners \cup {s}
  /\ UNCHANGED <<config, session, swarm, aborted, bootstrap, conns, seeds>>

\* Mutation: a seed carries the port that was asked for.
seed_multiaddr_as_asked(s) ==
  LET n == swarm[s].node
  IN  [host |-> n, port |-> group_listen(config[n].listen, swarm[s].group), peer |-> n]

\* Where another machine can dial the swarm, once it knows itself.
seed_multiaddr(s) ==
  [host |-> swarm[s].node, port |-> swarm[s].port, peer |-> swarm[s].node]

\* Seed: refused while the swarm has nothing to share.
MakeSeed(n, g) ==
  LET s == session[n][g] IN
  /\ s # NoSwarm /\ s \in listeners
  /\ Cardinality(seeds) < MaxSeeds
  /\ seeds' = seeds \cup {[group |-> g, addr |-> seed_multiaddr(s), by |-> s]}
  /\ UNCHANGED <<config, session, swarm, aborted, listeners, bootstrap, conns>>

\* Nobody has a seed any more.
Discard(seed) ==
  /\ seeds' = seeds \ {seed}
  /\ UNCHANGED <<config, session, swarm, aborted, listeners, bootstrap, conns>>

\* An address already listed stays where it is; a full list drops its oldest.
remember_bootstrap(list, addr) ==
  IF Contains(list, addr) THEN list
  ELSE Append(IF Len(list) >= MAX_BOOTSTRAP THEN Tail(list) ELSE list, addr)

\* AddSeed: of the right group, for a joined one, the address naming a peer that is
\* not this node.  The swarm's task lists it and dials it.
AddSeed(n, g, seed) ==
  LET s == session[n][g] IN
  /\ seed.group = g /\ s # NoSwarm
  /\ seed.addr.peer \in Node \ {n}
  /\ bootstrap' = [bootstrap EXCEPT ![s] = remember_bootstrap(@, seed.addr)]
  /\ UNCHANGED <<config, session, swarm, aborted, listeners, conns, seeds>>

-----------------------------------------------------------------------------
(* Connections.                                                            *)

\* Mutation: no prologue.
prologue_none(s) == "cluster"

prologue(s) == swarm[s].group

\* The Noise handshake: both ends have the prologue, and the other end proves to
\* be the peer the address names, if it names one.  libp2p gives up a connection to
\* its own identity.
Handshake(s, t, a) ==
  /\ prologue(s) = prologue(t)
  /\ a.peer \in {swarm[t].node, NoPeer}
  /\ swarm[s].node # swarm[t].node

\* Who may be at the other end of an address: where swarms share a port, any of them.
At(a, t) == Running(t) /\ swarm[t].node = a.host /\ swarm[t].port = a.port

\* A dial of a listed address that ends in a connection: one of the first, of the timer
\* or of AddSeed.  It may have been under way when the other end connected from its side.
Dial(s, t) ==
  /\ Running(s) /\ <<s, t>> \notin conns
  /\ \E a \in ToSet(bootstrap[s]) : At(a, t) /\ Handshake(s, t, a)
  /\ conns' = conns \cup {<<s, t>>}
  /\ UNCHANGED <<config, session, swarm, aborted, listeners, bootstrap, seeds>>

Disconnect(c) ==
  /\ conns' = conns \ {c}
  /\ UNCHANGED <<config, session, swarm, aborted, listeners, bootstrap, seeds>>

-----------------------------------------------------------------------------
Next ==
  \/ \E n \in Node, g \in Group : \/ Join(n, g) \/ Leave(n, g) \/ MakeSeed(n, g)
                                  \/ \E seed \in seeds : AddSeed(n, g, seed)
  \/ \E seed \in seeds : Discard(seed)
  \/ \E s \in Swarm : \/ TaskEnds(s)
                      \/ NewListenAddr(s)
                      \/ \E t \in Swarm \ {s} : Dial(s, t)
  \/ \E c \in conns : Disconnect(c)

Spec == Init /\ [][Next]_vars

-----------------------------------------------------------------------------
(* What the redial timer can be relied on for.                             *)

\* swarm.is_connected, of a peer rather than of one of its swarms.
is_connected(s, n) == \E t \in Swarm : swarm[t].node = n /\ conns \cap {<<s, t>>, <<t, s>>} # {}

\* An address that names nobody is due while nobody is admitted, which is not known
\* here: it may always be.
Due(s, a) == a.peer = NoPeer \/ ~is_connected(s, a.peer)

\* The address is listed, no other address of its peer is ahead of it, and it is within
\* the first MAX_REDIAL_PER_TICK due ones (Redial's InReach).
InReach(s, a) ==
  \E i \in DOMAIN bootstrap[s] :
    /\ bootstrap[s][i] = a /\ a.peer # NoPeer
    /\ \A j \in 1 .. (i - 1) : bootstrap[s][j].peer # a.peer
    /\ Cardinality({j \in 1 .. (i - 1) : Due(s, bootstrap[s][j])}) < MAX_REDIAL_PER_TICK

SolePort(t) == \A u \in Swarm \ {t} : swarm[u].node = swarm[t].node => swarm[u].port # swarm[t].port

\* The timer's dial of a peer that is away, at an address in reach where nobody else is.
Redial(s, t) ==
  /\ ~is_connected(s, swarm[t].node)
  /\ \E a \in ToSet(bootstrap[s]) : InReach(s, a) /\ At(a, t)
  /\ SolePort(t)
  /\ Dial(s, t)

\* An aborted task ends, and an address that stays in reach and answers is reached.
FairSpec == /\ Spec
            /\ \A s \in Swarm : WF_vars(TaskEnds(s)) /\ \A t \in Swarm \ {s} : WF_vars(Redial(s, t))

-----------------------------------------------------------------------------
(* Properties.                                                             *)

\* The type of the swarms' state; a session's swarm runs, for its node and group.
TypeOK ==
  /\ config \in NodeConfigs
  /\ session \in [Node -> [Group -> Swarm \cup {NoSwarm}]]
  /\ swarm \in [Swarm -> [node : Node, group : Group, port : 0 .. MaxPort] \cup {NoTask}]
  /\ aborted \subseteq Swarm
  /\ listeners \subseteq Swarm
  /\ bootstrap \in [Swarm -> Seq(Address)]
  /\ conns \subseteq Swarm \X Swarm
  /\ seeds \subseteq [group : Group, addr : Address, by : Swarm \cup {NoSwarm}]
  /\ \A n \in Node, g \in Group : session[n][g] # NoSwarm =>
       swarm[session[n][g]].node = n /\ swarm[session[n][g]].group = g

\* A connection joins two daemons' swarms of the same group, whatever port a
\* stale seed names and whoever has it now (build_swarm's prologue, CL-B-009).
ConnectionsStayInGroup ==
  \A c \in conns : /\ swarm[c[1]].group = swarm[c[2]].group
                   /\ swarm[c[1]].node # swarm[c[2]].node

\* A swarm listens on no port the operator did not provide for: on the base
\* itself when pinned, on one of the span above it otherwise, or on one the
\* system chose (group_listen, transport_for).  The swarms are well typed.
PortsAsConfigured ==
  /\ TypeOK
  /\ \A s \in Swarm : Running(s) =>
       LET n == swarm[s].node  port == swarm[s].port  base == config[n].listen IN
       IF config[n].pinned_group = swarm[s].group /\ base # 0
         THEN port = base
         ELSE \/ base # 0 /\ port \in base .. base + GROUP_PORT_SPAN - 1
              \/ port \in Ephemeral

\* n was given a seed that m's swarm made, both are still in the group, the seed's
\* address is in reach of the timer, and that swarm does not share its port.
Led(n, m, g) ==
  LET s == session[n][g]
      t == session[m][g]
  IN  /\ s # NoSwarm /\ t # NoSwarm
      /\ \E seed \in seeds : seed.by = t /\ seed.group = g /\ InReach(s, seed.addr)
      /\ SolePort(t)

\* A seed leads to the swarm it was made by for as long as that swarm runs, on
\* whatever port it ended up (seed_multiaddrs, add_seed): the two get connected, from
\* whichever side, also when the peer's old swarm is still there first, unless one of
\* them leaves or the address gets out of the timer's reach.
SeedLeads ==
  \A n \in Node, g \in Group : \A m \in Node \ {n} :
    []<>(Led(n, m, g) => conns \cap {<<session[n][g], session[m][g]>>,
                                     <<session[m][g], session[n][g]>>} # {})
=============================================================================
