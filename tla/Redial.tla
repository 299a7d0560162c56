------------------------------- MODULE Redial -------------------------------
(***************************************************************************)
(* How one group's swarm finds its peers: the bootstrap list, the peers    *)
(* mDNS discovered, and the timer that dials them again while they are     *)
(* away, so that a peer authorized late still gets in.                     *)
(*                                                                         *)
(* A multiaddr may name the peer it leads to (PeerOf), and somebody or     *)
(* nobody answers there (Listener).  Admission itself is Libp2pTransport's *)
(* subject: here identify is one step.                                     *)
(***************************************************************************)
EXTENDS Naturals, FiniteSets, SequencesExt

CONSTANTS
  Peer,                   \* peer ids, numbers: discovery dials in their order
  Local, NoPeer,
  Addr, PeerOf, Listener,
  StartLists,             \* the bootstrap lists a node may be configured with
  Seeds,                  \* the address lists AddSeed may bring
  Found,                  \* the records one mDNS event may hold
  MAX_BOOTSTRAP, MAX_REDIAL_PER_TICK, MAX_DISCOVERED_PEERS, MAX_DISCOVERED_ADDRS,
  MAX_SEED_ADDRS,
  MaxCmds                 \* bound: a seed is added only to a shorter queue

ASSUME PeerAssumption == Peer \subseteq Nat /\ Local \notin Peer /\ NoPeer \notin Peer
ASSUME AddrAssumption == /\ PeerOf \in [Addr -> Peer \cup {Local, NoPeer}]
                         /\ Listener \in [Addr -> Peer \cup {NoPeer}]
\* Seeds and mDNS records are parsed: they hold addresses.
ASSUME InputAssumption == /\ Seeds \subseteq Seq(Addr)
                          /\ Found \subseteq [peer : Peer \cup {Local}, addr : Addr]
ASSUME LimitAssumption == /\ MAX_BOOTSTRAP \in Nat \ {0} /\ MAX_DISCOVERED_ADDRS \in Nat \ {0}
                          /\ MAX_DISCOVERED_PEERS \in Nat /\ MAX_REDIAL_PER_TICK \in Nat
\* The configured list is taken as it is: it may repeat an address.
ASSUME StartAssumption == StartLists \subseteq Seq(Addr)

VARIABLES
  bootstrap,        \* the re-dial list
  discovered,       \* the addresses known of each peer; none: no entry
  cmds,             \* queued Dial commands
  dialing,          \* the addresses of the dials under way
  connected,        \* swarm.is_connected
  peer_addr,        \* the identified peers
  authorized,       \* Shared::authorized
  online            \* the peers that answer at all

vars == <<bootstrap, discovered, cmds, dialing, connected, peer_addr, authorized, online>>

-----------------------------------------------------------------------------
(* Dialing.                                                                *)

Dialing(d, p) == \E a \in d : PeerOf[a] = p

\* swarm.dial of a named peer: libp2p refuses it while the peer is connected or
\* already being dialed.  An address that names nobody is always dialed.
Dial(d, p, addrs) ==
  IF p # NoPeer /\ (p \in connected \/ Dialing(d, p)) THEN d ELSE d \cup addrs

DialAddr(d, a) == Dial(d, PeerOf[a], {a})

\* Mutation: an address may be listed twice.
remember_bootstrap_again(list, addr) ==
  Append(IF Len(list) >= MAX_BOOTSTRAP THEN Tail(list) ELSE list, addr)

remember_bootstrap(list, addr) ==
  IF Contains(list, addr) THEN list
  ELSE Append(IF Len(list) >= MAX_BOOTSTRAP THEN Tail(list) ELSE list, addr)

\* A named address is due while its peer is away, any other while nobody is in.
Due(a) == IF PeerOf[a] = NoPeer THEN peer_addr = {} ELSE PeerOf[a] \notin connected

\* The places in the list that are ahead of i in a redial.
DueBefore(i) == {j \in 1..(i - 1) : Due(bootstrap[j])}

\* Mutation: the limit is applied before the connected peers are skipped.
redial_targets_cut_first ==
  {i \in DOMAIN bootstrap : Due(bootstrap[i]) /\ i <= MAX_REDIAL_PER_TICK}

\* The places of the addresses to dial: the first MAX_REDIAL_PER_TICK due ones.
redial_targets ==
  {i \in DOMAIN bootstrap :
     Due(bootstrap[i]) /\ Cardinality(DueBefore(i)) < MAX_REDIAL_PER_TICK}

\* Those that are dialed, one after the other: a dial is refused when a target before
\* it, or a dial under way, is to the same peer.
Redialed ==
  {i \in redial_targets :
     LET p == PeerOf[bootstrap[i]] IN
     p # NoPeer => /\ ~Dialing(dialing, p)
                   /\ \A j \in redial_targets : j < i => PeerOf[bootstrap[j]] # p}

-----------------------------------------------------------------------------
(* Discovery.                                                              *)

Known(d) == {p \in Peer : d[p] # <<>>}

\* Nothing new is learned from a peer past the limit or a known address.
Learns(d, r) ==
  /\ r.peer \in Known(d) \/ Cardinality(Known(d)) < MAX_DISCOVERED_PEERS
  /\ ~Contains(d[r.peer], r.addr)

remember_discovered(d, r) ==
  IF ~Learns(d, r) THEN d
  ELSE [d EXCEPT ![r.peer] =
          Append(IF Len(@) >= MAX_DISCOVERED_ADDRS THEN Tail(@) ELSE @, r.addr)]

DiscoveryDue == {p \in Known(discovered) : p \notin connected /\ p \in authorized}

\* The smallest peer ids of those due.
discovery_targets ==
  {p \in DiscoveryDue : Cardinality({q \in DiscoveryDue : q < p}) < MAX_REDIAL_PER_TICK}

-----------------------------------------------------------------------------
\* Start-up dials every configured address, and keeps the first MAX_BOOTSTRAP.
Init ==
  /\ \E list \in StartLists :
       /\ bootstrap = SubSeq(list, 1, IF Len(list) < MAX_BOOTSTRAP THEN Len(list) ELSE MAX_BOOTSTRAP)
       /\ dialing = ToSet(list)
  /\ discovered = [p \in Peer |-> <<>>]
  /\ cmds = <<>>
  /\ connected = {} /\ peer_addr = {} /\ authorized = {}
  /\ online \in SUBSET Peer

-----------------------------------------------------------------------------
(* The daemon.                                                             *)

\* add_peers: every address names a peer that is not this node, or none is taken.
AddPeers(seed) ==
  /\ Len(cmds) < MaxCmds
  /\ Len(seed) \in 1..MAX_SEED_ADDRS
  /\ \A i \in DOMAIN seed : PeerOf[seed[i]] \in Peer
  /\ cmds' = cmds \o seed
  /\ UNCHANGED <<bootstrap, discovered, dialing, connected, peer_addr, authorized, online>>

\* A roster update: removed peers that had identified are disconnected.
SetAuthorized(new) ==
  /\ authorized' = new
  /\ connected' = connected \ (peer_addr \ new)
  /\ peer_addr' = peer_addr \cap new
  /\ UNCHANGED <<bootstrap, discovered, cmds, dialing, online>>

-----------------------------------------------------------------------------
(* The swarm task.                                                         *)

\* SwarmCmd::Dial.
HandleDial ==
  /\ cmds # <<>>
  /\ cmds' = Tail(cmds)
  /\ bootstrap' = remember_bootstrap(bootstrap, Head(cmds))
  /\ dialing' = DialAddr(dialing, Head(cmds))
  /\ UNCHANGED <<discovered, connected, peer_addr, authorized, online>>

\* Mutation: the timer forgets the discovered peers.
RedialTick_bootstrap_only ==
  /\ dialing' = dialing \cup {bootstrap[i] : i \in Redialed}
  /\ UNCHANGED <<bootstrap, discovered, cmds, connected, peer_addr, authorized, online>>

\* redial.tick(): the bootstrap list first, then the discovered peers.
RedialTick ==
  /\ LET first == dialing \cup {bootstrap[i] : i \in Redialed}
         due == {p \in discovery_targets : ~Dialing(first, p)}
     IN  dialing' = first \cup UNION {ToSet(discovered[p]) : p \in due}
  /\ UNCHANGED <<bootstrap, discovered, cmds, connected, peer_addr, authorized, online>>

\* mDNS Discovered: what is new is kept, and dialed at once if authorized.
Discovered(r) ==
  /\ r.peer # Local
  /\ discovered' = remember_discovered(discovered, r)
  /\ dialing' = IF Learns(discovered, r) /\ r.peer \in authorized
                  THEN Dial(dialing, r.peer, ToSet(discovered'[r.peer])) ELSE dialing
  /\ UNCHANGED <<bootstrap, cmds, connected, peer_addr, authorized, online>>

\* What is left of the list without addr, in its order.
Without(list, addr) ==
  LET kept[i \in 0..Len(list)] ==
        IF i = 0 THEN <<>>
        ELSE IF list[i] = addr THEN kept[i - 1] ELSE Append(kept[i - 1], list[i])
  IN  kept[Len(list)]

\* mDNS Expired: forget_discovered.
Expired(r) ==
  /\ r.peer # Local
  /\ discovered' = [discovered EXCEPT ![r.peer] = Without(@, r.addr)]
  /\ UNCHANGED <<bootstrap, cmds, dialing, connected, peer_addr, authorized, online>>

\* identify: an unauthorized peer is dropped.
Identify(p) ==
  /\ p \in connected \ peer_addr
  /\ IF p \in authorized THEN peer_addr' = peer_addr \cup {p} /\ UNCHANGED connected
     ELSE connected' = connected \ {p} /\ UNCHANGED peer_addr
  /\ UNCHANGED <<bootstrap, discovered, cmds, dialing, authorized, online>>

-----------------------------------------------------------------------------
(* The network.                                                            *)

Answers(a) == Listener[a] \in online /\ PeerOf[a] \in {Listener[a], NoPeer}

DialSucceeds(a) ==
  /\ a \in dialing /\ Answers(a)
  /\ dialing' = dialing \ {a}
  /\ connected' = connected \cup {Listener[a]}
  /\ UNCHANGED <<bootstrap, discovered, cmds, peer_addr, authorized, online>>

DialFails(a) ==
  /\ a \in dialing
  /\ dialing' = dialing \ {a}
  /\ UNCHANGED <<bootstrap, discovered, cmds, connected, peer_addr, authorized, online>>

\* The peer dials this node.
Incoming(p) ==
  /\ p \in online \ connected
  /\ connected' = connected \cup {p}
  /\ UNCHANGED <<bootstrap, discovered, cmds, dialing, peer_addr, authorized, online>>

\* The last connection to a peer ends: the peer refuses, leaves or is cut off.
Lose(p) ==
  /\ p \in connected
  /\ connected' = connected \ {p} /\ peer_addr' = peer_addr \ {p}
  /\ UNCHANGED <<bootstrap, discovered, cmds, dialing, authorized, online>>

Toggle(p) ==
  /\ online' = IF p \in online THEN online \ {p} ELSE online \cup {p}
  /\ UNCHANGED <<bootstrap, discovered, cmds, dialing, connected, peer_addr, authorized>>

-----------------------------------------------------------------------------
Next ==
  \/ \E seed \in Seeds : AddPeers(seed)
  \/ \E new \in SUBSET Peer : SetAuthorized(new)
  \/ HandleDial \/ RedialTick
  \/ \E r \in Found : Discovered(r) \/ Expired(r)
  \/ \E a \in Addr : DialSucceeds(a) \/ DialFails(a)
  \/ \E p \in Peer : Identify(p) \/ Incoming(p) \/ Lose(p) \/ Toggle(p)

\* The timer keeps ticking, every dial ends, and one that is repeated for ever
\* to a peer that answers succeeds, as does the identify after it.
Fairness ==
  /\ WF_vars(HandleDial) /\ SF_vars(RedialTick)
  /\ \A a \in Addr : WF_vars(DialSucceeds(a) \/ DialFails(a)) /\ SF_vars(DialSucceeds(a))
  /\ \A p \in Peer : SF_vars(Identify(p))

Spec == Init /\ [][Next]_vars /\ Fairness

-----------------------------------------------------------------------------
(* Properties.                                                             *)

\* The type of the lists swarm_loop keeps and of the swarm below it.
TypeOK ==
  /\ bootstrap \in Seq(Addr) /\ cmds \in Seq(Addr)
  /\ discovered \in [Peer -> Seq(Addr)]
  /\ dialing \subseteq Addr
  /\ peer_addr \subseteq connected /\ connected \subseteq Peer
  /\ authorized \subseteq Peer /\ online \subseteq Peer

\* The lists are well typed and within their limits, and no peer's discovered
\* addresses repeat one.
WithinBounds ==
  /\ TypeOK
  /\ Len(bootstrap) <= MAX_BOOTSTRAP
  /\ Cardinality(Known(discovered)) <= MAX_DISCOVERED_PEERS
  /\ \A p \in Peer : Len(discovered[p]) <= MAX_DISCOVERED_ADDRS /\ IsInjective(discovered[p])

\* The addresses a list holds more than once.
Repeated(list) ==
  {list[i] : i \in {k \in DOMAIN list : \E j \in DOMAIN list \ {k} : list[j] = list[k]}}

\* Seeds, mDNS floods and expiries keep every list within its limit, and a list
\* repeats no address that the operator did not configure twice
\* (remember_bootstrap, remember_discovered).
ListsBounded == /\ []WithinBounds
                /\ [][Repeated(bootstrap') \subseteq Repeated(bootstrap)]_vars

\* An address of p that answers is listed, no other address of p is ahead of it,
\* and it is within the first MAX_REDIAL_PER_TICK due ones.
InReach(p) ==
  \E i \in DOMAIN bootstrap :
    /\ PeerOf[bootstrap[i]] = p /\ Answers(bootstrap[i])
    /\ \A j \in 1..(i - 1) : PeerOf[bootstrap[j]] # p
    /\ Cardinality(DueBefore(i)) < MAX_REDIAL_PER_TICK

\* A bootstrap peer that was refused, lost or authorized late is let in by the
\* redial, over and over, whatever the roster, mDNS and other peers do.
BootstrapPeerLetIn ==
  \A p \in Peer : <>[](InReach(p) /\ p \in authorized) => []<>(p \in peer_addr)

\* So is a peer mDNS found before the group authorized it, as long as no
\* bootstrap address of it is dialed first.
DiscoveredPeerLetIn ==
  \A p \in Peer :
    <>[](/\ \E a \in ToSet(discovered[p]) : Answers(a)
         /\ p \in authorized
         /\ \A i \in DOMAIN bootstrap : PeerOf[bootstrap[i]] # p
         /\ Cardinality({q \in DiscoveryDue : q < p}) < MAX_REDIAL_PER_TICK)
    => []<>(p \in peer_addr)
=============================================================================
