-------------------------- MODULE GroupSwarmsProofs --------------------------
(***************************************************************************)
(* Proofs about GroupSwarms, for any nodes, groups, configurations, hashes *)
(* and ports.                                                              *)
(***************************************************************************)
EXTENDS GroupSwarms, TLAPS

Task == [node : Node, group : Group, port : 0 .. MaxPort]
SeedRecord == [group : Group, addr : Address, by : Swarm \cup {NoSwarm}]

\* The port of a task is one the operator provided for, and a real one.
PortOK(t) ==
  LET base == config[t.node].listen IN
  /\ t.port \in 1 .. MaxPort
  /\ IF config[t.node].pinned_group = t.group /\ base # 0
       THEN t.port = base
       ELSE \/ base # 0 /\ t.port \in base .. base + GROUP_PORT_SPAN - 1
            \/ t.port \in Ephemeral

\* A task that was told to end runs for nobody; connections are between running
\* tasks.
TaskInv ==
  /\ \A s \in Swarm : Running(s) => PortOK(swarm[s])
  /\ \A s \in aborted : Running(s) /\ ~Owned(s)
  /\ \A c \in conns : Running(c[1]) /\ Running(c[2])

SwarmInv == TypeOK /\ TaskInv /\ ConnectionsStayInGroup

-----------------------------------------------------------------------------
(* Ports.                                                                  *)

\* The sum of base and offset is in the span above the base, or no port at all.
LEMMA GroupListenRange ==
  ASSUME NEW base \in 0 .. MaxPort, NEW g \in Group
  PROVE  \/ group_listen(base, g) = 0
         \/ /\ base # 0 /\ group_listen(base, g) \in 1 .. MaxPort
            /\ group_listen(base, g) \in base .. base + GROUP_PORT_SPAN - 1
<1> DEFINE offset == Hash[g] % GROUP_PORT_SPAN
<1>1. Hash[g] \in Nat /\ GROUP_PORT_SPAN \in Nat \ {0} /\ MaxPort \in Nat
  BY SwarmAssumption
<1>2. offset \in 0 .. GROUP_PORT_SPAN - 1
  BY <1>1
<1>3. group_listen(base, g) = IF base = 0 \/ base + offset > MaxPort THEN 0 ELSE base + offset
  BY DEF group_listen
<1> HIDE DEF offset
<1> QED BY <1>1, <1>2, <1>3

\* A node's configured port and bootstrap addresses have their types.
LEMMA ConfigType ==
  ASSUME TypeOK, NEW n \in Node
  PROVE  /\ config[n].listen \in 0 .. MaxPort
         /\ config[n].bootstrap \in Seq(Address)
BY SwarmAssumption DEF TypeOK, NodeConfig

\* What start-up keeps of the configured list is a list of addresses.
LEMMA FirstOfType ==
  ASSUME NEW S, NEW list \in Seq(S), NEW limit \in Nat
  PROVE  FirstOf(list, limit) \in Seq(S)
<1> DEFINE m == IF Len(list) < limit THEN Len(list) ELSE limit
<1>1. m \in Nat /\ m <= Len(list) /\ Len(list) \in Nat
  OBVIOUS
<1>2. FirstOf(list, limit) = SubSeq(list, 1, m)
  BY DEF FirstOf
<1> HIDE DEF m
<1> QED BY <1>1, <1>2

\* remember_bootstrap keeps a list of addresses.
LEMMA RememberType ==
  ASSUME NEW list \in Seq(Address), NEW addr \in Address
  PROVE  remember_bootstrap(list, addr) \in Seq(Address)
<1>1. MAX_BOOTSTRAP \in Nat \ {0}
  BY SwarmAssumption
<1>2. Len(list) >= MAX_BOOTSTRAP => list # <<>>
  BY <1>1
<1> QED BY <1>2 DEF remember_bootstrap

\* transport_for ends up with a port the operator provided for.
LEMMA PortChosen ==
  ASSUME TypeOK, NEW n \in Node, NEW g \in Group, NEW port \in ListenPorts(n, g)
  PROVE  PortOK([node |-> n, group |-> g, port |-> port])
<1> DEFINE base == config[n].listen
           pinned == config[n].pinned_group = g
<1>1. base \in 0 .. MaxPort /\ MaxPort \in Nat /\ Ephemeral \subseteq 1 .. MaxPort
  BY ConfigType, SwarmAssumption
<1>2. CASE pinned
  <2>1. port \in ({p \in {base} : p # 0} \cup (IF base # 0 THEN {} ELSE Ephemeral))
    BY <1>2 DEF ListenPorts
  <2>2. (base # 0 /\ port = base) \/ (base = 0 /\ port \in Ephemeral)
    BY <2>1
  <2>3. base # 0 => base \in 1 .. MaxPort
    BY <1>1
  <2>4. CASE base # 0
    BY <1>2, <2>2, <2>3, <2>4 DEF PortOK
  <2>5. CASE base = 0
    BY <1>1, <2>2, <2>5 DEF PortOK
  <2> QED BY <2>4, <2>5
<1>3. CASE ~pinned
  <2>1. port \in ({p \in {group_listen(base, g)} : p # 0} \cup Ephemeral)
    BY <1>3 DEF ListenPorts
  <2>2. (port # 0 /\ port = group_listen(base, g)) \/ port \in Ephemeral
    BY <2>1
  <2>3. \/ base # 0 /\ port \in 1 .. MaxPort /\ port \in base .. base + GROUP_PORT_SPAN - 1
        \/ port \in Ephemeral
    BY <1>1, <2>2, GroupListenRange
  <2> QED BY <1>1, <1>3, <2>3 DEF PortOK
<1> QED BY <1>2, <1>3

-----------------------------------------------------------------------------
(* Swarms and their owners.                                                *)

\* A session's swarm runs, and no other session has it.
LEMMA OwnerIsSole ==
  ASSUME TypeOK, NEW n \in Node, NEW g \in Group, session[n][g] # NoSwarm
  PROVE  /\ session[n][g] \in Swarm /\ Running(session[n][g])
         /\ swarm[session[n][g]].node = n /\ swarm[session[n][g]].group = g
         /\ \A m \in Node, h \in Group : session[m][h] = session[n][g] => m = n /\ h = g
<1>1. /\ session[n][g] \in Swarm
      /\ swarm[session[n][g]].node = n /\ swarm[session[n][g]].group = g
  BY DEF TypeOK
<1>2. NoTask.group = NoGroup /\ NoGroup \notin Group
  BY SwarmAssumption DEF NoTask
<1>3. Running(session[n][g])
  BY <1>1, <1>2 DEF Running
<1>4. \A m \in Node, h \in Group : session[m][h] = session[n][g] => m = n /\ h = g
  BY <1>1 DEF TypeOK
<1> QED BY <1>1, <1>3, <1>4

\* What a running swarm gives out can be dialed.
LEMMA SeedAddr ==
  ASSUME TypeOK, TaskInv, NEW s \in Swarm, Running(s)
  PROVE  seed_multiaddr(s) \in Address
<1>1. swarm[s] \in Task /\ swarm[s].port \in 1 .. MaxPort
  BY DEF TypeOK, TaskInv, PortOK, Running, Task
<1> QED BY <1>1 DEF seed_multiaddr, Address, Task

\* Running swarms that stay as they are keep their connections in their group.
LEMMA ConnectionsKept ==
  ASSUME ConnectionsStayInGroup, conns' \subseteq conns,
         \A c \in conns' : swarm'[c[1]] = swarm[c[1]] /\ swarm'[c[2]] = swarm[c[2]]
  PROVE  ConnectionsStayInGroup'
BY DEF ConnectionsStayInGroup

-----------------------------------------------------------------------------
(* The steps.                                                              *)

\* A join, on whatever port it gets, keeps the invariant.
LEMMA JoinStep ==
  ASSUME SwarmInv, NEW n \in Node, NEW g \in Group, Join(n, g)
  PROVE  SwarmInv'
<1> USE DEF SwarmInv
<1> DEFINE s == CHOOSE x \in Swarm : ~Running(x)
<1>1. s \in Swarm /\ ~Running(s)
  BY DEF Join
<1>2. PICK port \in ListenPorts(n, g) :
        /\ swarm' = [swarm EXCEPT ![s] = [node |-> n, group |-> g, port |-> port]]
        /\ session' = [session EXCEPT ![n][g] = s]
        /\ bootstrap' = [bootstrap EXCEPT ![s] =
                           IF config[n].pinned_group = g
                             THEN FirstOf(config[n].bootstrap, MAX_BOOTSTRAP) ELSE <<>>]
  BY DEF Join
<1> HIDE DEF s
<1>3. UNCHANGED <<config, aborted, listeners, conns, seeds>> /\ session[n][g] = NoSwarm
  BY DEF Join
<1> DEFINE task == [node |-> n, group |-> g, port |-> port]
<1>4. PortOK(task) /\ task \in Task /\ task # NoTask
  <2>1. PortOK(task)
    BY PortChosen
  <2>2. task.port \in 1 .. MaxPort /\ MaxPort \in Nat
    BY <2>1, SwarmAssumption DEF PortOK
  <2> QED BY <2>1, <2>2, SwarmAssumption DEF Task, NoTask
<1> HIDE DEF task
<1>5. swarm'[s] = task /\ \A x \in Swarm \ {s} : swarm'[x] = swarm[x]
  BY <1>1, <1>2 DEF TypeOK, task
<1>6. \A m \in Node, h \in Group : session'[m][h] = IF m = n /\ h = g THEN s ELSE session[m][h]
  BY <1>2 DEF TypeOK
<1>7. \A m \in Node, h \in Group : session[m][h] # s
  BY <1>1, OwnerIsSole, SwarmAssumption
<1>8. TypeOK'
  <2>1. session' \in [Node -> [Group -> Swarm \cup {NoSwarm}]]
    BY <1>1, <1>2 DEF TypeOK
  <2>2. swarm' \in [Swarm -> Task \cup {NoTask}]
    BY <1>1, <1>2, <1>4 DEF TypeOK, Task, task
  <2>3. bootstrap' \in [Swarm -> Seq(Address)]
    <3>1. FirstOf(config[n].bootstrap, MAX_BOOTSTRAP) \in Seq(Address)
      BY ConfigType, FirstOfType, SwarmAssumption
    <3> QED BY <1>1, <1>2, <3>1 DEF TypeOK
  <2>4. ASSUME NEW m \in Node, NEW h \in Group, session'[m][h] # NoSwarm
        PROVE  swarm'[session'[m][h]].node = m /\ swarm'[session'[m][h]].group = h
    <3>1. CASE m = n /\ h = g
      BY <1>5, <1>6, <3>1 DEF task
    <3>2. CASE ~(m = n /\ h = g)
      <4>1. session'[m][h] = session[m][h] /\ session[m][h] \in Swarm \ {s}
        BY <1>6, <1>7, <2>4, <3>2, OwnerIsSole
      <4> QED BY <1>5, <2>4, <4>1, OwnerIsSole
    <3> QED BY <3>1, <3>2
  <2> QED BY <1>3, <2>1, <2>2, <2>3, <2>4 DEF TypeOK, Task
<1>9. TaskInv'
  <2>1. ASSUME NEW x \in Swarm, Running(x)' PROVE PortOK(swarm[x])'
    BY <1>3, <1>4, <1>5, <2>1 DEF TaskInv, Running, PortOK
  <2>2. ASSUME NEW x \in aborted PROVE Running(x)' /\ ~Owned(x)'
    <3>1. x \in Swarm \ {s}
      BY <1>1 DEF TypeOK, TaskInv
    <3> QED BY <1>5, <1>6, <3>1 DEF TaskInv, Running, Owned
  <2>3. ASSUME NEW c \in conns PROVE Running(c[1])' /\ Running(c[2])'
    <3>1. c[1] \in Swarm \ {s} /\ c[2] \in Swarm \ {s}
      BY <1>1 DEF TypeOK, TaskInv
    <3> QED BY <1>5, <3>1 DEF TaskInv, Running
  <2> QED BY <1>3, <2>1, <2>2, <2>3 DEF TaskInv
<1>10. ConnectionsStayInGroup'
  <2>1. \A c \in conns : c[1] \in Swarm \ {s} /\ c[2] \in Swarm \ {s}
    BY <1>1 DEF TypeOK, TaskInv
  <2> QED BY <1>3, <1>5, <2>1, ConnectionsKept
<1> QED BY <1>8, <1>9, <1>10

\* A leave, after which the task still runs, keeps the invariant.
LEMMA LeaveStep ==
  ASSUME SwarmInv, NEW n \in Node, NEW g \in Group, Leave(n, g)
  PROVE  SwarmInv'
<1> USE DEF SwarmInv
<1> DEFINE s == session[n][g]
<1>1. /\ s # NoSwarm /\ session' = [session EXCEPT ![n][g] = NoSwarm]
      /\ aborted' = aborted \cup {s} /\ listeners' = listeners \ {s}
      /\ UNCHANGED <<config, swarm, bootstrap, conns, seeds>>
  BY DEF Leave
<1>2. \A m \in Node, h \in Group : session'[m][h] = IF m = n /\ h = g THEN NoSwarm ELSE session[m][h]
  BY <1>1 DEF TypeOK
<1>3. /\ s \in Swarm /\ Running(s)
      /\ \A m \in Node, h \in Group : session[m][h] = s => m = n /\ h = g
  BY <1>1, OwnerIsSole
<1> HIDE DEF s
<1>4. session' \in [Node -> [Group -> Swarm \cup {NoSwarm}]]
  BY <1>1 DEF TypeOK
<1>5. TypeOK'
  BY <1>1, <1>2, <1>3, <1>4 DEF TypeOK
<1>6. ASSUME NEW x \in aborted' PROVE Running(x)' /\ ~Owned(x)'
  <2>1. x \in Swarm /\ NoSwarm \notin Swarm
    BY <1>5, <1>6, SwarmAssumption DEF TypeOK
  <2>2. Running(x)'
    BY <1>1, <1>3, <1>6 DEF TaskInv, Running
  <2>3. ~Owned(x)'
    BY <1>1, <1>2, <1>3, <1>6, <2>1 DEF TaskInv, Owned
  <2> QED BY <2>2, <2>3
<1>7. TaskInv'
  BY <1>1, <1>6 DEF TaskInv, Running, PortOK
<1>8. ConnectionsStayInGroup'
  BY <1>1 DEF ConnectionsStayInGroup
<1> QED BY <1>5, <1>7, <1>8

\* The end of a task, which takes its connections along, keeps the invariant.
LEMMA TaskEndsStep ==
  ASSUME SwarmInv, NEW s \in Swarm, TaskEnds(s)
  PROVE  SwarmInv'
<1> USE DEF SwarmInv
<1>1. /\ s \in aborted /\ UNCHANGED <<config, session>>
      /\ swarm' = [x \in Swarm |-> IF x = s THEN NoTask ELSE swarm[x]]
      /\ aborted' = aborted \ {s} /\ listeners' = listeners \ {s}
      /\ bootstrap' = [x \in Swarm |-> IF x = s THEN <<>> ELSE bootstrap[x]]
      /\ conns' = {c \in conns : c[1] # s /\ c[2] # s}
  BY DEF TaskEnds, End
<1>2. seeds' = {[seed EXCEPT !.by = IF @ \in {s} THEN NoSwarm ELSE @] : seed \in seeds}
  BY DEF TaskEnds, End
<1>3. seeds' \subseteq SeedRecord
  <2>1. \A seed \in seeds : seed \in SeedRecord
    BY DEF TypeOK, SeedRecord
  <2>2. ASSUME NEW seed \in SeedRecord
        PROVE  [seed EXCEPT !.by = IF @ \in {s} THEN NoSwarm ELSE @] \in SeedRecord
    BY DEF SeedRecord
  <2> QED BY <1>2, <2>1, <2>2
<1>4. ~Owned(s)
  BY <1>1 DEF TaskInv
<1>5. TypeOK'
  <2>1. swarm' \in [Swarm -> Task \cup {NoTask}] /\ bootstrap' \in [Swarm -> Seq(Address)]
    BY <1>1 DEF TypeOK, Task
  <2>2. ASSUME NEW n \in Node, NEW g \in Group, session[n][g] # NoSwarm
        PROVE  swarm'[session[n][g]].node = n /\ swarm'[session[n][g]].group = g
    BY <1>1, <1>4, <2>2, OwnerIsSole DEF Owned
  <2> QED BY <1>1, <1>3, <2>1, <2>2 DEF TypeOK, Task, SeedRecord
<1>6. \A x \in Swarm \ {s} : swarm'[x] = swarm[x]
  BY <1>1
<1>7. TaskInv'
  <2>1. ASSUME NEW x \in Swarm, Running(x)' PROVE PortOK(swarm[x])'
    BY <1>1, <2>1 DEF TaskInv, Running, PortOK
  <2>2. ASSUME NEW x \in aborted' PROVE Running(x)' /\ ~Owned(x)'
    BY <1>1, <1>6, <2>2 DEF TypeOK, TaskInv, Running, Owned
  <2>3. ASSUME NEW c \in conns' PROVE Running(c[1])' /\ Running(c[2])'
    BY <1>1, <1>6, <2>3 DEF TypeOK, TaskInv, Running
  <2> QED BY <2>1, <2>2, <2>3 DEF TaskInv
<1>8. ConnectionsStayInGroup'
  <2>1. \A c \in conns' : c[1] \in Swarm \ {s} /\ c[2] \in Swarm \ {s}
    BY <1>1 DEF TypeOK
  <2> QED BY <1>1, <1>6, <2>1, ConnectionsKept
<1> QED BY <1>5, <1>7, <1>8

\* A connection that a dial makes keeps the invariant.
LEMMA DialStep ==
  ASSUME SwarmInv, NEW s \in Swarm, NEW t \in Swarm, Dial(s, t)
  PROVE  SwarmInv'
<1> USE DEF SwarmInv
<1>1. /\ conns' = conns \cup {<<s, t>>} /\ Running(s) /\ Running(t)
      /\ UNCHANGED <<config, session, swarm, aborted, listeners, bootstrap, seeds>>
      /\ swarm[s].group = swarm[t].group /\ swarm[s].node # swarm[t].node
  BY DEF Dial, At, Handshake, prologue
<1>2. TypeOK'
  BY <1>1 DEF TypeOK
<1>3. TaskInv'
  BY <1>1 DEF TaskInv, Running, Owned, PortOK
<1>4. ConnectionsStayInGroup'
  BY <1>1 DEF ConnectionsStayInGroup
<1> QED BY <1>2, <1>3, <1>4

\* Steps that leave sessions and tasks alone.
LEMMA OtherStep ==
  ASSUME SwarmInv, UNCHANGED <<config, session, swarm, aborted>>,
         listeners' \subseteq Swarm, bootstrap' \in [Swarm -> Seq(Address)],
         conns' \subseteq conns, seeds' \subseteq SeedRecord
  PROVE  SwarmInv'
<1> USE DEF SwarmInv
<1>1. TypeOK'
  BY DEF TypeOK, SeedRecord
<1>2. TaskInv'
  BY DEF TaskInv, Running, Owned, PortOK
<1>3. ConnectionsStayInGroup'
  BY DEF ConnectionsStayInGroup
<1> QED BY <1>1, <1>2, <1>3

\* Every step keeps the invariant.
LEMMA SwarmStep == SwarmInv /\ [Next]_vars => SwarmInv'
<1> SUFFICES ASSUME SwarmInv, [Next]_vars PROVE SwarmInv'
  OBVIOUS
<1>0. /\ listeners \subseteq Swarm /\ bootstrap \in [Swarm -> Seq(Address)]
      /\ seeds \subseteq SeedRecord
  BY DEF SwarmInv, TypeOK, SeedRecord
<1>1. ASSUME NEW n \in Node, NEW g \in Group, MakeSeed(n, g) PROVE SwarmInv'
  <2>1. session[n][g] \in Swarm /\ Running(session[n][g])
    BY <1>1, OwnerIsSole DEF MakeSeed, SwarmInv
  <2>2. [group |-> g, addr |-> seed_multiaddr(session[n][g]), by |-> session[n][g]] \in SeedRecord
    BY <2>1, SeedAddr DEF SwarmInv, SeedRecord
  <2> QED BY <1>0, <1>1, <2>2, OtherStep DEF MakeSeed
<1>2. ASSUME NEW n \in Node, NEW g \in Group, NEW seed \in seeds, AddSeed(n, g, seed)
      PROVE  SwarmInv'
  <2>1. session[n][g] \in Swarm /\ seed.addr \in Address
    BY <1>0, <1>2, OwnerIsSole DEF AddSeed, SwarmInv, SeedRecord
  <2>2. bootstrap' \in [Swarm -> Seq(Address)]
    <3>1. remember_bootstrap(bootstrap[session[n][g]], seed.addr) \in Seq(Address)
      BY <1>0, <2>1, RememberType
    <3> QED BY <1>0, <1>2, <2>1, <3>1 DEF AddSeed
  <2> QED BY <1>0, <1>2, <2>2, OtherStep DEF AddSeed
<1>3. ASSUME NEW seed \in seeds, Discard(seed) PROVE SwarmInv'
  BY <1>0, <1>3, OtherStep DEF Discard
<1>4. ASSUME NEW s \in Swarm, NewListenAddr(s) PROVE SwarmInv'
  BY <1>0, <1>4, OtherStep DEF NewListenAddr
<1>5. ASSUME NEW c \in conns, Disconnect(c) PROVE SwarmInv'
  BY <1>0, <1>5, OtherStep DEF Disconnect
<1>6. CASE UNCHANGED vars
  BY <1>0, <1>6, OtherStep DEF vars
<1> QED BY <1>1, <1>2, <1>3, <1>4, <1>5, <1>6, JoinStep, LeaveStep, TaskEndsStep, DialStep
        DEF Next

\* The invariant of the swarms holds.
LEMMA SwarmInvariant == Spec => []SwarmInv
<1>1. Init => SwarmInv
  <2> SUFFICES ASSUME Init PROVE SwarmInv
    OBVIOUS
  <2>1. TypeOK
    BY DEF Init, TypeOK
  <2>2. TaskInv /\ ConnectionsStayInGroup
    BY DEF Init, TaskInv, Running, ConnectionsStayInGroup
  <2> QED BY <2>1, <2>2 DEF SwarmInv
<1> QED BY <1>1, SwarmStep, PTL DEF Spec

-----------------------------------------------------------------------------
\* A connection joins two daemons' swarms of the same group, however many groups,
\* ports and stale seeds there are and however often daemons leave and come back
\* (build_swarm's prologue).
THEOREM ConnectionsStayInGroupHolds == Spec => []ConnectionsStayInGroup
BY SwarmInvariant, PTL DEF SwarmInv

\* A swarm listens on no port the operator did not provide for, for any base, span
\* and hash (group_listen, transport_for), and the swarms are well typed.
THEOREM PortsAsConfiguredHolds == Spec => []PortsAsConfigured
<1>1. SwarmInv => PortsAsConfigured
  BY DEF SwarmInv, TaskInv, PortOK, PortsAsConfigured
<1> QED BY <1>1, SwarmInvariant, PTL

\* What an aborted task still holds is nobody's: no session owns a swarm that has
\* been told to end, and every session's swarm is its own (Drop for Libp2pTransport).
THEOREM SessionsOwnTheirSwarms ==
  Spec => [](\A n, m \in Node, g, h \in Group :
               session[n][g] # NoSwarm =>
                 /\ session[n][g] \notin aborted /\ Running(session[n][g])
                 /\ session[m][h] = session[n][g] => m = n /\ h = g)
<1> DEFINE Sole == \A n, m \in Node, g, h \in Group :
               session[n][g] # NoSwarm =>
                 /\ session[n][g] \notin aborted /\ Running(session[n][g])
                 /\ session[m][h] = session[n][g] => m = n /\ h = g
<1>1. SwarmInv => Sole
  BY OwnerIsSole DEF SwarmInv, TaskInv, Owned
<1> QED BY <1>1, SwarmInvariant, PTL

-----------------------------------------------------------------------------
(* What a seed says.                                                       *)

\* A seed whose swarm still runs names that swarm's group, and the port it listens
\* on rather than the one it asked for.
SeedsAreTrue ==
  \A seed \in seeds : seed.by # NoSwarm =>
    LET t == swarm[seed.by] IN
    /\ Running(seed.by) /\ seed.group = t.group
    /\ seed.addr = [host |-> t.node, port |-> t.port, peer |-> t.node]

\* Steps that leave the swarms that made a seed alone.
LEMMA SeedsKept ==
  ASSUME SeedsAreTrue, seeds' \subseteq seeds,
         \A seed \in seeds' : seed.by # NoSwarm => swarm'[seed.by] = swarm[seed.by]
  PROVE  SeedsAreTrue'
BY DEF SeedsAreTrue, Running

\* A seed made now is that of a running swarm.
LEMMA SeedMade ==
  ASSUME SwarmInv, SeedsAreTrue, NEW n \in Node, NEW g \in Group, MakeSeed(n, g)
  PROVE  SeedsAreTrue'
<1> DEFINE s == session[n][g]
           made == [group |-> g, addr |-> seed_multiaddr(s), by |-> s]
<1>1. s # NoSwarm /\ seeds' = seeds \cup {made} /\ UNCHANGED swarm
  BY DEF MakeSeed
<1>2. Running(s) /\ swarm[s].group = g
  BY <1>1, OwnerIsSole DEF SwarmInv
<1>3. seed_multiaddr(s) = [host |-> swarm[s].node, port |-> swarm[s].port, peer |-> swarm[s].node]
  BY DEF seed_multiaddr
<1>4. made.by = s /\ made.group = g /\ made.addr = seed_multiaddr(s)
  OBVIOUS
<1> HIDE DEF s, made
<1> QED BY <1>1, <1>2, <1>3, <1>4 DEF SeedsAreTrue, Running

\* A task's end takes its name off its seeds.
LEMMA SeedOutlivesTask ==
  ASSUME SwarmInv, SeedsAreTrue, NEW s \in Swarm, TaskEnds(s)
  PROVE  SeedsAreTrue'
<1>1. /\ swarm' = [x \in Swarm |-> IF x = s THEN NoTask ELSE swarm[x]]
      /\ seeds' = {[seed EXCEPT !.by = IF @ \in {s} THEN NoSwarm ELSE @] : seed \in seeds}
  BY DEF TaskEnds, End
<1>2. ASSUME NEW new \in seeds', new.by # NoSwarm
      PROVE  new \in seeds /\ new.by \in Swarm \ {s}
  <2>1. PICK seed \in seeds : new = [seed EXCEPT !.by = IF @ \in {s} THEN NoSwarm ELSE @]
    BY <1>1
  <2>2. seed \in SeedRecord
    BY DEF SwarmInv, TypeOK, SeedRecord
  <2>3. seed.by # s
    BY <1>2, <2>1, <2>2 DEF SeedRecord
  <2> QED BY <1>2, <2>1, <2>2, <2>3 DEF SeedRecord
<1> QED BY <1>1, <1>2 DEF SeedsAreTrue, Running

\* No step makes a seed untrue while the swarm that made it runs.
LEMMA SeedStep == SwarmInv /\ SeedsAreTrue /\ [Next]_vars => SeedsAreTrue'
<1> SUFFICES ASSUME SwarmInv, SeedsAreTrue, [Next]_vars PROVE SeedsAreTrue'
  OBVIOUS
<1>1. ASSUME NEW n \in Node, NEW g \in Group, Join(n, g) PROVE SeedsAreTrue'
  <2> DEFINE s == CHOOSE x \in Swarm : ~Running(x)
  <2>1. s \in Swarm /\ ~Running(s) /\ UNCHANGED seeds
    BY <1>1 DEF Join
  <2>2. \E task : swarm' = [swarm EXCEPT ![s] = task]
    BY <1>1 DEF Join
  <2> HIDE DEF s
  <2>3. ASSUME NEW seed \in seeds, seed.by # NoSwarm PROVE seed.by # s /\ seed.by \in Swarm
    BY <2>1, <2>3 DEF SeedsAreTrue, SwarmInv, TypeOK
  <2> QED BY <2>1, <2>2, <2>3, SeedsKept DEF SwarmInv, TypeOK
<1>2. ASSUME UNCHANGED swarm, seeds' \subseteq seeds PROVE SeedsAreTrue'
  BY <1>2, SeedsKept
<1> QED BY <1>1, <1>2, SeedMade, SeedOutlivesTask
        DEF Next, Leave, AddSeed, Discard, NewListenAddr, Dial, Disconnect, vars

\* A seed says where the swarm that made it is for as long as that swarm runs: the
\* group it is in and the port it was given, also where its own was taken or none
\* was asked for (seed_multiaddrs, seed).  Connections aside, this is what SeedLeads
\* needs of the seed.
THEOREM SeedsAreTrueHolds == Spec => []SeedsAreTrue
<1>1. Init => SeedsAreTrue
  BY DEF Init, SeedsAreTrue
<1> QED BY <1>1, SwarmInvariant, SeedStep, PTL DEF Spec
=============================================================================
