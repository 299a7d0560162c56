# A TLA+ model of citrate-cluster

citrate-cluster is a sidecar that runs private peer-to-peer meshes, one per
group. A client feeds it each group's roster over a Unix socket; the daemon lets
a peer into a mesh only while the roster allows it, and throws it out when the
roster no longer does. These modules model the admission engine, the device
links that widen a roster and the client that has to send them again after a
restart, the daemon's request handling and the socket in front of it, the libp2p
transport in which the roster races a live network, the mesh several such nodes
make, the swarms a daemon opens and leaves, and the seeds by which daemons find
each other. TLC checks them on small instances; TLAPS proves every safety property
the passing runs check for every instance.

Paths below are relative to `src/crates/`.

## The system

| Part | Source | State | Operations |
|---|---|---|---|
| Roster | `cluster-core/src/lib.rs` | none | `canonical_address`, `role_rank`, `allowed_set` |
| Membership and session | `cluster-core/src/lib.rs` | `allowed`, `admitted`, a transport | `join`, `leave`, `reconcile`, `sync_admitted_from_wire` |
| Device registry | `cluster-core/src/device.rs` | verified links, recorded revocations | `update`, `effective_roster`, `member_of` |
| Group seed | `cluster-core/src/seed.rs` | none | `new`, `validate`, `encode`, `decode` |
| Daemon | `cluster-daemon/src/lib.rs` | a session, device state and shared files per group | `set_roster_with_devices`, `join`, `leave`, `status`, `peers`, `devices`, `share_file`, `poll`, `shared_files_page`, `seed`, `add_seed` |
| In-process transport | `cluster-daemon/src/transport.rs` | `connected`, `inbox` | `dial`, `disconnect` |
| libp2p transport | `cluster-daemon/src/libp2p_transport.rs` | `Shared` (authorized, connected, inbox), the command queue, the swarm task's own maps | the transport's methods on the daemon's side; commands, connection events, identify, gossip, sweep on the task's |
| Re-dial and discovery | the same file | the bootstrap list, the mDNS records | `remember_bootstrap`, `redial_targets`, `remember_discovered`, `discovery_targets`, the timer |
| Transport factory | the same file | `NodeConfig`, one swarm per group served | `transport_for`, `group_listen`, `new_on`, `Drop`, `seed_multiaddrs`, `add_peers` |
| IPC server | `cluster-daemon/src/server.rs`, `ipc.rs` | a thread per connection, a mutex around the daemon | handshake, one request per line |

How they interact: the server's threads take the daemon's mutex for one request
at a time. A request may create a group's session, whose transport owns a tokio
task (`swarm_loop`). From then on two threads work on the group: the daemon
through `Shared` and an unbounded command queue, the task on network events.
`Shared` is a mutex held for one short critical section at a time, so whatever
takes two sections is not atomic. Nothing is persisted.

What is hard: the identify and gossip handlers read the roster under one lock
and act under the next; evictions travel through the queue while the peer
reconnects or is re-authorized; a peer may have several connections, some being
closed; revocations have to survive every later update, leave and re-join while
links do not, and a crash forgets both; timers have to find peers that never
identify or were refused before they were authorized; gossip is relayed by nodes
whose rosters lag behind each other; a publication may be lost, and a full inbox
drops it; a left swarm's task ends after the leave, and a seed may be used after
its port has gone to somebody else; one client of the socket may be silent, slow
or in the way of the others. `PROJECT.json` lists each of these under `hazards`,
at its line, with the properties that cover it.

## Modules

| Module | Models | Composes |
|---|---|---|
| `Admission` | the promise: a peer enters the mesh only while allowed, and falls out in the step that disallows it | |
| `Roster` | roles, spellings of an address, the allowed set | |
| `ClusterSession` | `ClusterMembership` + `ClusterSession` over `InProcessTransport` | implements `Admission` |
| `DeviceRegistry` | a group's roster, links and revocations; `effective_roster` | |
| `Libp2pTransport` | one group's daemon side against its swarm task | implements `Admission` |
| `ClusterDaemon` | all requests over several groups | an instance of `DeviceRegistry` per group |
| `Redial` | bootstrap list, mDNS, the timer, dials | |
| `IpcServer` | the accept loop, a thread per connection, the daemon's mutex, free clients | |
| `RosterClient` | a registry that crashes and restarts, and the client that feeds it | extends `DeviceRegistry` |
| `GroupSwarms` | the swarms of several daemons: ports, seeds, leave and re-join, dials | |
| `Seed` | from listen addresses to a seed, its text, and back | |
| `MeshNet` | a group's mesh of several nodes that relay gossip | rests on what is shown of `Libp2pTransport` |
| `RosterProofs` | the theorems about `ClusterSession`, `DeviceRegistry` and `RosterClient` | extends them |
| other `…Proofs` | the theorems about the module named | extends it |
| `MCRevokedKey` | `DeviceRegistry` with a history of the revoked devices, for the finding | extends `MCDeviceRegistry` |
| other `MC…` | constants for TLC | extends it |

Operators named `X_what_is_wrong` in front of a definition `X` are plausible
bugs of `X`: substituted for it, each makes TLC find the property it is listed
with in `PROJECT.json` violated. No specification uses them.

### ClusterSession

One action per operation, atomic because the daemon's mutex makes it so. `Join`
and `Leave` are the daemon's `admit_peer` and `drop_peer`; `Reconcile` is
cluster-core's, `ApplyRoster` the daemon's, which also disconnects the addresses
that left the allowed set without being admitted. An address is a model value
with a spelling, so that normalisation is something that happens
(`canonical_address` maps four spellings to the address and an upper-case `0X`
prefix to nothing). Its specification is `SessionSpec` and so on, and `RosterClient`'s
`ClientSpec`, so that one module can extend both and `DeviceRegistry`.

### DeviceRegistry

One action, `SetRoster`, which is `set_roster_with_devices` up to the reconcile.
A signed item carries, per signature, the address it recovers to, which is all
that `verify_link` looks at; a forged item recovers to something else. A request
lists its items; the model has sets, which lose only exact repeats. Where the
code's answer depends on the place in the list (two links tied on age and label)
the model allows both. `offered` is history.

### Libp2pTransport

Two processes. The daemon side is one request at a time, split where the code
releases the lock: `ApplyRoster` computes what to do; `DisconnectLock`,
`DisconnectSend` and `Authorize` do it address by address. The order inside each
loop is left open. The swarm task runs one handler at a time (`AtLoop`); a
handler that takes the lock twice is two actions (`IdentifyCheck`/`IdentifyAdmit`,
`MessageCheck`/`MessagePush`), and `task` holds what it carries from one to the
other.

- A PeerId of a secp256k1 key contains the key, so peers and addresses are one set.
- `gate_peer` blacklists and scores out in one call; the model has one set `gated`.
- `disconnect_peer_id` only starts the close: connections move from `open` to
  `closing`, and events still arrive on them.
- identify may arrive more than once on a connection, as libp2p sends it again.
- Commands that do not touch admission (`Dial`, `Listeners`, `SeedAddrs`) are not
  queued here; `Dial` is in `Redial`.
- `outsiders` and `late` are history variables for two properties.

### ClusterDaemon

One action per request. A refused request, a failing transport factory included,
is a stuttering step. The wire and the inbox are whatever the task made of them:
`Status` and `Peers` read an arbitrary connected set and arbitrary messages.
`Candidates` is only there to give TLC finitely many next registries, out of
which `DeviceRegistry!SetRoster` picks the right ones. `offered`, that module's
history variable, comes along.

### Redial

Addresses name a peer or not (`PeerOf`), and somebody or nobody answers there
(`Listener`). `swarm.dial` on a named peer is refused while that peer is connected
or being dialed: that is libp2p's default `PeerCondition`
(`DisconnectedAndNotDialing`), modelled as external. The start-up dials carry no
such overlap check. What a tick dials is a set of places in the list
(`redial_targets`, `Redialed`): of the due addresses the first few, and of those the
ones that no earlier target and no dial under way leads to the peer of. Admission is
one step here; `Lose` and `Toggle` let peers
refuse, vanish and return at any time. One mDNS event carries one record. The
configured list is taken as it is, up to its limit: it may repeat an address.

### IpcServer

`handle_conn` as a program counter per connection, with the steps where another
thread or the client can get in between: uid check, handshake, reading a piece of
a line, taking the mutex, handling, writing. `read_capped_line` is `Receive`,
`EndOfStream` and `Reject`. A line is a number of pieces and what it says in the
end; a piece without an end of line counts if the stream ends with it, as
`read_line` has it. What a request does is `ClusterDaemon`'s; only `Seed` is told
apart, because it waits for the swarm task with the mutex held
(`lib.rs:388-401`, `libp2p_transport.rs:397-403`). The clients send in pieces,
fall silent, stop reading and hang up as they like. The kernel keeps
`SocketBuffer` answers for one that does not read, and then the writer waits.
`lines`, `sending`, `ran` and `answers` are history, in which the properties
compare the two ends: `Heard` are the lines up to the first that ends the
connection, and `Listed` writes down what is due for them, line by line.

### RosterClient

`DeviceRegistry`'s own variables and actions, with `Crash`, which empties them, and
`Restart`. The
client, which is not in this repository, keeps its links and revocations and sends
all of them with each roster, as `ADR-003` describes. Requests on several
connections are taken in any order; a crash loses the rest.

### GroupSwarms

`Join` is `ensure_session` with `transport_for`: the group's own port, or any if it
cannot be had, but never another one for the pinned group. `Leave` only aborts
the task; the swarm, its port and its connections go with `TaskEnds`. A port that
a dying swarm of the same daemon still has may be shared or refused, as the
system's `SO_REUSEPORT` allows. A seed carries what the listener reported, is kept
for as long as somebody likes, and is dialed at whoever is on the port by then;
`Handshake` is Noise with the group in its prologue. The list a swarm dials is kept
in order and within its limit, as in `Redial`. A host stands for all its interfaces,
so a seed has one address. `Dial` lets a dial of any listed address end in a
connection, since the first dials, `AddSeed`'s and the timer's may be under way at
once; nothing makes it. What the timer can be relied on for is `Redial(s, t)`, a dial
to a peer that is away, at an address that is `InReach`: the first one listed of its
peer and within the first `MAX_REDIAL_PER_TICK` due ones. That is the premise under
which the module `Redial` shows that such a peer is dialed (`TickDials`) and let in
(`BootstrapPeerLetIn`). An address that names nobody counts as always due, since
who is admitted is not part of the state. An address of the configured
bootstrap list may name no peer, or the node itself; one of a seed names another
peer, as `add_seed` sees to. Where an address names no peer, libp2p's own refusal
of a connection to oneself is what keeps a daemon from meeting itself.

### Seed

The functions of `seed.rs` and `seed_addrs_from`, over an alphabet with one
character of each kind they tell apart: alphanumeric, reserved, graphic, blank,
control, past ASCII, and a byte that is no part of a character. An escape is one
unit that counts for three bytes. `split`, the length in bytes, the loop over the
pairs and the loop over the listeners are recursive functions on sequences. A listen
address is one of three, routable, loopback or never offered; one that already names
the peer and one that does not give the same. `Lose` and `Gain` change the text on its
way.
The operations are pure, so there is little state: a seed, its text and where the
text has got to.

### MeshNet

Each node is `Libp2pTransport` seen from outside: a roster change queues
evictions, which are handled some time later; a publication is handled behind
those queued before it (`PublishInv` of the proofs is why). Gossipsub is external
and modelled from its configuration: it sends to the mesh, which leaves out the
gated peers; it relays what is not cached before the handler looks at it; it
ignores what comes from, or was signed by, a blacklisted peer. One publication is
on its way at a time.

## Runs

| Run | Expect | Instance | What it shows |
|---|---|---|---|
| `ClusterSession` | pass | 5 addresses, 9 roster entries in 5 spellings, every roster of up to 5 of them | the wire stays inside the roster; `Admission` is implemented |
| `DeviceRegistry` | pass | 2 members, 2 devices, 6 links (two competing, one forged, one naming a roster key), 3 revocations, 5 rosters, 3 items per update | the registry, the gate and the device list, over any sequence of updates |
| `DeviceRevokedKey` | violation | the same members, devices and rosters, 2 links of one device, 1 revocation | the finding below |
| `Libp2pSafety` | pass | 2 peers, 2 connections each, 1 CID, queue of 2, inbox of 1, symmetric in the peers | all safety of the transport; `Admission` is implemented |
| `Libp2pLiveness` | pass | 1 peer | evictions complete, silent peers are reaped |
| `ClusterDaemon` | pass | 3 groups and a blank id, 2 served, 2 CIDs and 1 slot, symmetric in the groups and in the CIDs | the maps stay in step and within limits; revocations outlive a leave, and no member with one is a peer as itself again |
| `Redial` | pass | 5 addresses of 2 peers, lists of 2, 1 discovered peer and address, 1 dial per tick; two configured lists, both too long, one with an address twice | the lists stay bounded and come to repeat nothing; late, refused and lost peers get in |
| `IpcServer` | pass | 2 clients, 2 lines each of up to 2 pieces, room for 1 answer | what runs and what is answered is what was asked, in order; the handshake ends, an idle client stays, nobody blocks another |
| `RosterClient` | pass | 1 member, 1 device, 3 links (one forged), 2 revocations (one forged), 2 items per update, 2 requests on their way | revocations take effect and stay in effect over crashes; the registry depends on the last update only |
| `GroupSwarms` | pass | 2 nodes (one pinned, with its own address configured, alone or behind one that names nobody; one with its base at the last port), 2 groups, 3 swarms, 3 ports, 1 seed, lists of 3, 2 dials per tick | connections stay within a group, ports are as configured, a seed in the timer's reach leads to the swarm that made it |
| `Seed` | pass | every list of up to 3 of 18 listeners, 2 addresses in a seed; group ids with each of 7 kinds of characters alone, before an ordinary one and after a `&`, an empty and a too long one; 1 edit with any unit | a seed's text decodes to that seed; whatever else decodes is valid |
| `MeshNet` | pass | 3 nodes in a triangle with three different rosters, 2 CIDs, inbox of 2 | nothing gets to a node all have put out; co-pins are of trusted authors; a file shared again gets through |

Deadlock is checked except in two runs: in `IpcServer` every client may have gone,
and in `Seed` a text that used up its edits goes no further.

Why the bounds are enough. `MaxCmds = 2` bounds when a request may start, not the
queue: one request appends a Disconnect per removed address and per evicted one,
so stale, duplicate and re-ordered-with-Publish cases all occur. Two connections
per peer is the code's own limit. Two peers are needed for the roster to change in
part; no handler relates more. Limits are reduced to 1 or 2 and the inputs exceed
them, so that every "full" branch is taken. Two clients are enough for one to be in
the other's way; a second line is needed for something to follow an over-long one.
Three nodes are the fewest with a relay; the triangle has the put-out node
connected to both others. Three swarms are a leaving one, its successor and a
dialer; the third port is the last, so that the sum of base and offset exceeds it.
The stored links of `RosterClient` exceed what one update may carry. The proofs
have no such bounds.

Fairness. `Libp2pTransport`: a request and a handler run to their end (weak); the
command, sweep and close branches are strong because `select!` polls its branches
in random order, so one that is ready again and again is taken; time passes.
Nothing is assumed of the peers. `Redial`: the timer ticks, every dial ends, and a
dial (and the identify after it) that is repeated for ever to a peer that keeps
answering succeeds at some point. The liveness properties name the rest as their
premise: the address is listed, reachable within a tick's limit and answering.
`IpcServer`: a thread that can go on does (weak; an expired timeout is such a
step), the swarm task answers what is queued (weak), and a thread for which the
mutex is free again and again gets it (strong; `std::sync::Mutex` promises no
order, but nobody holds it for ever and the waiters are woken). Nothing is assumed
of the clients, which is the point. `RosterClient`: the daemon is restarted (weak);
the client goes on sending rosters and, crashes notwithstanding, one is handled now
and then (strong). `GroupSwarms`: an aborted task ends (weak), and a peer that stays away
while an address of it stays `InReach`, with nobody else on that port, is reached
(weak on `Redial(s, t)`); no other dial is assumed to happen. The module `Redial`
shows this under the same premise. `SeedLeads` accepts a connection from either side,
since a peer that has connected by itself is not dialed. `MeshNet`: the task
handles its commands and clients poll (weak); a client shares its file again and
again and the network carries some copies to a peer that stays (strong).

## Findings

`DeviceRevokedKey`: revocation is documented "per device KEY and permanent", so that
a revoked key is out "even if a later link for it arrives" (`device.rs:34-36`), and the
repository's own `formal/DeviceLink.tla:109` has "A revoked key is never re-linked",
whoever links it (113). The code records it per (member, device) (`device.rs:349-355`).
The run's history variable `retired` holds the devices that were admitted, that the
member they were linked to revoked, and that went out for it. In TLC's trace m1 links
d1, which is let in; m1 revokes it, and it goes out; a later update has m2's link of
the same key, and it is let in again. This is not the case of a member revoking a
device that was never theirs, which is rightly without effect (`device.rs:36-37`,
`device_tests.rs:285-297`): such a revocation puts nothing into `retired`.

Observations met while modelling, which no run repeats:

- The identify handler inserts into `connected` on an answer that a roster change
  has overtaken (`libp2p_transport.rs:964-973`), so `connected ⊆ authorized` (225)
  may fail until the queued Disconnect is handled.
- A connection that comes up while its peer is still in `peer_addr`, and outlives
  the connections an eviction closes, is not timed (945-950), although 106-108 says
  such connections are reaped. It is gated and takes no part in the topic.
- `PeerView.member` is documented absent for a member's own identity
  (`ipc.rs:74-75`); `peers()` fills it from a link the gate ignores.
- `devices()` is documented to answer `[]` for an unknown group (`lib.rs:476-477`)
  and answers from what `leave` kept.
- `redial_targets` always starts at the head of the list (1119), so
  `MAX_REDIAL_PER_TICK` dead entries starve the rest (compare 1067-1069). And each
  address of a seed is dialed separately, while libp2p refuses to dial a peer that
  is being dialed: a dead first address hides a live second one, although
  `add_seed` counts both (`lib.rs:404`). So does the old address of a peer that
  re-joined on another port: it stays ahead in the list, and the one of the new seed is
  not dialed by the timer. `BootstrapPeerLetIn` and `SeedLeads` name this in `InReach`.
- A store that has outgrown `MAX_LINKS_PER_UPDATE` is refused whole while its roster
  takes effect (`device.rs:287-291`). After a restart no revocation is in force
  then; `RevocationTakesEffect` excepts that case.
- A re-join right after a leave may find the group's port taken by its own dying
  swarm and get another one, while the port is meant to be stable
  (`libp2p_transport.rs:616-632`). A new seed has the new port.
- A valid seed may have a text longer than `MAX_SEED_LEN`, which `encode` does not
  look at and `decode` refuses; `TextSaysWhatWasSent` excepts it. Of a repeated
  `v` the last counts, and `%+F` passes for an escape (`from_str_radix`); the
  alphabet has no such unit.
- A node that one roster has put out still gets gossip from relays whose own has
  not: `NothingReachesTheBarred` starts with the last of them.
- An inbox that is full each time a CID comes may never list it; `SharedIsListed`
  excepts a peer whose inbox fills up for ever.

## Proofs

All theorems hold for every value of the constants under the named assumptions.
Those say that the markers for "none" are none of what they stand beside
(`AddressAssumption`, `NoPeerAssumption`, `PeerAssumption`, `ClusterDaemon`'s
`GroupAssumption`, `ConnAssumption`, `NoUpdateAssumption`, and parts of
`SwarmAssumption`), that inputs are of their types (`InputAssumption`,
`PoolAssumption`, `SaysAssumption`, `AddrAssumption`, `Seed`'s `GroupAssumption`, the
rest of `SwarmAssumption`, `MeshAssumption`), that limits are naturals
(`LimitsAssumption`, `LimitAssumption`, `BoundAssumption`, `InFlightAssumption`,
`SeedAssumption`; those of a line, the socket's buffer, the re-dial list, the addresses
of a discovered peer and of a seed are positive, as the code's are), that a configured
bootstrap list is one of addresses (`StartAssumption`; it may repeat them), and that there are finitely many CIDs (`CidAssumption`, as `is_valid_cid` bounds their
length), without which a shared set would have no number of elements to bound.
`SeedAssumption` also lets an address be as long as the model's own, of six characters.
Each inductive invariant was checked with
TLC on the run's instance before it was proved.

- `RosterProofs`, of `ClusterSession`: `SessionTypeCorrect`, `WireTracksRosterHolds`
  (inductive with the type), `SessionRefinement`: each operation is an `Admit`, a `Drop`
  or a `Reconcile`.
- `RosterProofs`, of `DeviceRegistry`: `RegistrySound` is inductive. The properties of the allowed
  set follow from it and the lemma `AllowedIs`, which computes the allowed set
  from the effective roster: the members not on device keys with a cluster role,
  and the devices of the active links. It needs `HighestRole`, that a non-empty set
  of roles has a highest one, so that `role_of` is one of the member's roles.
  `AllowedIsEarned` and `CommsKeyRetired` are each put together from two such facts.
  `DevicesListsThePeers` needs `AllowedMembers` besides, the same for the roster alone:
  what `device_roster` reads off any entry, `effective_roster` reads off the highest.
  `ContestedIsNobodys` is inductive on its own. `RevokedForGood` adds that
  `revoked` only grows, and `RevokedForEver` carries it over whole behaviours.
- `Libp2pTransportProofs`:
  - `GateInv` is the strengthening behind `EvictionInFlight`, `GatedUntilIdentified`
    and `OnlineIsReal`. None of these is inductive alone: a handler past
    `IdentifyCheck` is about to expose a peer that may have been removed since, so
    `GateInv` says of it too that the peer is connected, and authorized or with its
    eviction pending; and a queued Disconnect only works if the exposed peer is in
    `peer_addr`, which is `GatedUntilIdentified`.
  - `RosterInv`: what `apply_roster` has done and still has to do adds up to the
    allowed set. It gives `AuthorizedIsAllowed`.
  - `PublishInv`: every queued Publish is behind the Disconnect of each of its
    outsiders that is, or is about to be, exposed. It gives `NoPublishToEvicted` at
    the head of the queue.
  - `LateInv`: only the handler in hand can push for an address that lost its
    authorization. It gives `AtMostOneLateMessage`.
  - `Refinement`: with `authorized` as the allowed set and the exposed, authorized
    peers without a pending eviction as the mesh, every step is a step of `Admission`
    or a stutter. Two lemmas carry it: only `IdentifyAdmit` exposes a peer
    (`ExposedByAdmitOnly`), and a pending eviction ends only with its peer gated
    (`EvictionIsNotLost`).

- `ClusterDaemonProofs`:
  - `WithinLimits` and `SessionFollowsRegistry` are inductive with the types. The
    second needs `AllowedAreAddresses` and `SameRegistry`: whom a registry lets in
    depends on its own fields only, so that a request for one group leaves every
    other in step.
  - `RegistryRefinement`: each group's device state is a behaviour of
    `DeviceRegistry`. `RevocationOutlivesLeave` follows from it, with
    `SessionFollowsRegistry` for the session's side: the revoked pair's link is in no
    registry after the step, and a member with a revocation is on device keys.
- `RosterProofs`, of `RosterClient`: `ClientInv` is the types with `ProcessInv` and `StoreInv`. A
  process that has accepted an update has everything ever confirmed
  (`RevocationSurvivesRestart`); of one that has not, this holds only once an update
  arrives, so the invariant says that every update on its way has everything
  confirmed, and, for it to have that, that the store does. `Holds` says in what
  sense the registry is the one of the last accepted update, under the revocations
  recorded by then; where that update is the store, these are the store's own.
  `ProcessIsRegistry`: every step of the composition is a step of `DeviceRegistry`, a
  stutter, or a crash, which leaves its initial state. So what is inductive for the
  registry holds over restarts too (`RegistrySoundOverRestarts`), with what follows
  from it about who is allowed.
- `MeshNetProofs`: `MeshInv` adds to the types `BarredInv`, that no node has let in
  one that the message on its way is kept from, and `SourceInv`, that each copy, inbox
  entry and listed file has an author whom the node trusted. Which nodes are linked
  plays no part.
- `GroupSwarmsProofs`: `SwarmInv` is the types, `ConnectionsStayInGroup` and `TaskInv`:
  a connection is between running tasks (one whose end is gone would otherwise pass
  to the next swarm in its place), a task that was told to end has no owner, and a
  port is one of those provided. `GroupListenRange` is the arithmetic of
  `group_listen` at the end of the port range. `SeedsAreTrueHolds` is the safety half
  of `SeedLeads`: for as long as the swarm that made a seed runs, the seed names its
  group and the port it got, which is not always the one it asked for.
- `RedialProofs`: `BoundedInv` is `WithinBounds` and that finitely many peers are
  known, without which there is no number of them to compare with the limit.
  `PushedIsBounded` is the step of both lists: dropping the oldest and appending an
  address keeps the limit and, where there are none yet, the freedom from repeats.
  `RepeatsNothingNew` is the second half of `ListsBounded`: an address that comes to
  be repeated would have been appended while it was listed. `WithoutShrinks` is the step of an expired
  record, which takes an address out of a list of any length; it is proved by induction
  over how far the list has been gone through. `TickIsBounded` needs that of a set of
  numbers those with fewer than n before them are at most n (`FirstFew`), which is where
  the code's `take` comes from. `TickDials` is the step that liveness rests on: after a
  tick, every peer in reach that is away is being dialed.
- `IpcServerProofs`: `ServedInOrder` says what was run and answered without the recursion
  of `Listed`. `Lists(rs, D, v)` says that an increasing map takes `rs` onto the places
  `D` of `v`, so that none of them is left out, repeated or out of place. With it, what
  was run is every request behind the bearer up to some line, and what was answered
  every line up to that one or an earlier one, an error at most following. It is the
  inductive half of `ServedAsAsked`; the other half is about sequences alone:
  there is one such map at most (`ListsOnce`), `Listed` has one (`ListedPrefixes`), and
  what lists the first places is where a list of more of them begins (`ListedBegins`).
  - `IpcInv` relates the two ends of a connection: what the client has sent of the line
    under way is what the thread has read of it and what is in the stream
    (`StreamInv`); up to `Consumed` the lines are read, the first of them was the
    bearer (`ConsumedInv`); what was run reaches that far, or one line less while a
    request that was read waits for the mutex.
  - `AnswerInv` says the same of the answers, which are one line behind from the
    reading of a line to the writing of its answer (`Replied`). A thread that reads no
    more has nothing to tie its answers to, as its client may go on sending: `EndedAt`
    keeps where it stopped and why (`Refused`, `Stopped`), which sending more does not
    change.
  - `TypeCorrect` includes mutual exclusion.
- `SeedProofs`: little of it is about behaviours. `Inv` is the types, that the seed given
  out is valid, and that its text is the one of `encode` until somebody edits it. The
  rest is what the codec computes, for texts of any length:
  - `SplitFirst`, `SplitLast` and `SplitWhole`: the pieces of a text with a separator in
    front of, behind or without a piece that lacks it. From them `FieldAdds`: a field at
    the end of a query appends to the values of its own key and leaves the other keys
    alone, if no `&` stands in its value.
  - `PctRoundTrip`: escaping leaves no `&` and no blank standing, and is undone by
    `pct_decode`. With `FieldAdds`, by induction over the addresses, `EncodeSays`: the
    text of a seed has one version, one group and the addresses in order.
    `RoundTrip` follows, as `trim` finds nothing to take off, and with it
    `TextSaysWhatWasSent`.
  - `ReadsValid`: of any text that is not refused, `decode` makes a seed of the right
    types that `validate` accepts. `LaterInFront` and `LaterAtEnd`: a field of another
    key adds to no value that is read, and trims as it did. The first has to see that
    blanks at the end of the text stay the ones that are trimmed (`TrimParts`). These
    are the parts of `DecodeIsSound`.
  - `AddressValid` takes an offered address apart; `SeedAddrs` says that as many are left
    as a seed holds, and one at least if any listener may be offered. They give
    `AnyMachineCanShare`.

Induction over numbers and sequences, where it is needed, is over sets: `Induction` says
that a set with 0, and the successor of each of its numbers, holds all of them
(it follows from `WFMin`, the least element of a well-founded set), `SeqInduction` the
same of sequences and `Append`. A recursive function is shown to be what its recursion
says by `FoldExists`, that there is such a function, before anything is said about it.

Two attempts that failed were right to, and changed the models: `GroupSwarms` had
taken for granted that a configured bootstrap address names another node, and the
cases of `IpcServer`'s `AfterLine` overlapped, so that which of them applied to a
bearer in the handshake was left to the evaluator.

Only model-checked, because fairness and ENABLED are beyond the prover, is liveness:
`EvictionCompletes`, `UnidentifiedIsReaped`, `BootstrapPeerLetIn`, `DiscoveredPeerLetIn`,
`HandshakeEnds`, `ServedDespiteOthers`, `RevocationTakesEffect`, `SeedLeads` (its safety
half is proved) and `SharedIsListed`; and the violation of `RevokedKeyStaysOut`.

## Not modelled

Socket permissions, the runtime directory and how the peer's uid is read
(`server.rs`): calls made once, whose outcome is an input of `IpcServer`. The JSON
of requests and responses. Secret files, key derivation and zeroization. Reading
the configuration from the environment, which ends the program when it fails;
`GroupSwarms` starts from its result. Signature recovery, of which only the
recovered address counts. Connection limits other than the one per peer: they only
refuse connections. A system out of threads, where `thread::spawn` panics
(`server.rs:102`). The soak scripts and the repository's own `formal/` models.

## Plan

1. `MeshNet`: its premise about one node, a publication handled behind the evictions
   queued before it, stated in the terms of `Libp2pTransportProofs`' `PublishInv`.
2. `Seed`: listen addresses of any length, for which `AnyMachineCanShare` would say
   which of them are too long for a seed.
