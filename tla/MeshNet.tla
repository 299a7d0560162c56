------------------------------ MODULE MeshNet ------------------------------
(***************************************************************************)
(* One group's mesh of several nodes.  Each has its own roster, which      *)
(* changes when its own client says so, and its own view of who is in.     *)
(* Gossip is relayed: a node passes on what it takes, before it looks at   *)
(* what it says, to everybody it has let in.                               *)
(*                                                                         *)
(* A node is Libp2pTransport seen from outside, with what is shown there:  *)
(* an eviction is a roster change and, some time later, the handling of    *)
(* its Disconnect; a publication is handled behind the evictions that were *)
(* queued before it.  Gossipsub is external: the mesh, the message cache   *)
(* and the blacklist are modelled from how swarm_loop sets and uses them.  *)
(***************************************************************************)
EXTENDS Naturals, Sequences, FiniteSets

CONSTANTS
  Node, Cid,
  Authors,                 \* who may share what: a set of <<node, cid>>
  Links,                   \* the pairs of nodes that can reach each other
  First,                   \* the roster each node's client has sent first
  Rosters,                 \* the rosters it may send later
  MAX_INBOX, MAX_SHARED_FILES

ASSUME MeshAssumption ==
  /\ Authors \subseteq Node \X Cid
  /\ Links \subseteq SUBSET Node /\ \A l \in Links : Cardinality(l) = 2
  /\ First \in [Node -> SUBSET Node] /\ Rosters \in [Node -> SUBSET SUBSET Node]
  /\ MAX_INBOX \in Nat /\ MAX_SHARED_FILES \in Nat

VARIABLES
  authorized,              \* each node's authorized set
  evictions,               \* the peers whose Disconnect is queued at each node
  conn,                    \* connections: sets of two nodes
  admitted,                \* the peers each node has identified and let in
  copies,                  \* messages on their way: [src, cid, from, to]
  seen,                    \* the nodes that have the message on its way in their cache
  inbox,                   \* each node's inbox, of CIDs
  shared_files,            \* each node's co-pinned set
  barred,                  \* history: who may not see the message on its way
  trusted                  \* history: the nodes each node ever authorized

netVars == <<conn, admitted>>
gossipVars == <<copies, seen>>
rosterVars == <<authorized, evictions, trusted>>
vars == <<rosterVars, netVars, gossipVars, inbox, shared_files, barred>>

Connected(n) == {p \in Node \ {n} : {n, p} \in conn}
Blacklist(n) == Connected(n) \ admitted[n]

\* Every client has sent a roster; nobody is connected yet.
Init ==
  /\ authorized = First
  /\ evictions = [n \in Node |-> {}]
  /\ conn = {}
  /\ admitted = [n \in Node |-> {}]
  /\ copies = {}
  /\ seen = {}
  /\ inbox = [n \in Node |-> <<>>]
  /\ shared_files = [n \in Node |-> {}]
  /\ barred = {}
  /\ trusted = First

-----------------------------------------------------------------------------
(* Rosters and admission, node by node.                                    *)

\* Whom the new roster no longer has is put out, by a command behind the others.
SetRoster(n, new) ==
  /\ new # authorized[n]
  /\ authorized' = [authorized EXCEPT ![n] = new]
  /\ evictions' = [evictions EXCEPT ![n] = @ \cup (authorized[n] \ new)]
  /\ trusted' = [trusted EXCEPT ![n] = @ \cup new]
  /\ UNCHANGED <<netVars, gossipVars, inbox, shared_files, barred>>

\* A connection comes up, gated at both ends.
Connect(n, p) ==
  /\ {n, p} \in Links \ conn
  /\ conn' = conn \cup {{n, p}}
  /\ UNCHANGED <<rosterVars, admitted, gossipVars, inbox, shared_files, barred>>

\* Identify: the peer is let in if the roster has it.  History: whoever is let in
\* somewhere may see what is sent from now on.
Identify(n, p) ==
  /\ p \in (Connected(n) \cap authorized[n]) \ admitted[n]
  /\ admitted' = [admitted EXCEPT ![n] = @ \cup {p}]
  /\ barred' = barred \ {p}
  /\ UNCHANGED <<rosterVars, conn, gossipVars, inbox, shared_files>>

\* Both ends see their last connection closed, and forget the peer.
Disconnected(n, p) ==
  /\ conn' = conn \ {{n, p}}
  /\ admitted' = [admitted EXCEPT ![n] = @ \ {p}, ![p] = @ \ {n}]

\* Identify refuses the peer, or the connection ends for any other reason.
Close(n, p) ==
  /\ p \in Connected(n)
  /\ Disconnected(n, p)
  /\ UNCHANGED <<rosterVars, gossipVars, inbox, shared_files, barred>>

\* A Disconnect is handled: a peer that was let in goes, although it may be
\* authorized again by now.
Evict(n, p) ==
  /\ p \in evictions[n]
  /\ evictions' = [evictions EXCEPT ![n] = @ \ {p}]
  /\ IF p \in admitted[n] THEN Disconnected(n, p) ELSE UNCHANGED netVars
  /\ UNCHANGED <<authorized, trusted, gossipVars, inbox, shared_files, barred>>

-----------------------------------------------------------------------------
(* Gossip.                                                                 *)

\* Mutation: everybody on the topic is sent it (flood_publish).
Targets_flood(n) == Connected(n)

\* Whom a node sends a message to: its mesh, from which the gated are scored out.
Targets(n) == admitted[n]

Copies(m, n, to) == {[src |-> m[1], cid |-> m[2], from |-> n, to |-> p] : p \in to}

\* Mutation: a CID that is listed is not sent again.
ShareFile_once(n, c) ==
  /\ <<n, c>> \in Authors /\ copies = {}
  /\ evictions[n] = {}
  /\ Cardinality(shared_files[n]) < MAX_SHARED_FILES
  /\ c \notin shared_files[n]
  /\ shared_files' = [shared_files EXCEPT ![n] = @ \cup {c}]
  /\ copies' = copies \cup Copies(<<n, c>>, n, Targets(n))
  /\ seen' = {n}
  /\ barred' = {p \in Node \ {n} : \A q \in Node : p \notin admitted[q]}
  /\ UNCHANGED <<rosterVars, netVars, inbox>>

\* ShareFile, up to and including the Publish command, which is behind the
\* evictions queued before it.  Every publication is a new message to the caches;
\* the bound is one on its way at a time.  Nobody there to send it to: it is lost.
ShareFile(n, c) ==
  /\ <<n, c>> \in Authors /\ copies = {}
  /\ evictions[n] = {}
  /\ c \in shared_files[n] \/ Cardinality(shared_files[n]) < MAX_SHARED_FILES
  /\ shared_files' = [shared_files EXCEPT ![n] = @ \cup {c}]
  /\ copies' = copies \cup Copies(<<n, c>>, n, Targets(n))
  /\ seen' = {n}
  /\ barred' = {p \in Node \ {n} : \A q \in Node : p \notin admitted[q]}
  /\ UNCHANGED <<rosterVars, netVars, inbox>>

Lose(x) ==
  /\ copies' = copies \ {x}
  /\ UNCHANGED <<rosterVars, netVars, seen, inbox, shared_files, barred>>

\* Mutation: the neighbour that passed it on is looked at, not who signed it.
Accepts_from_neighbour(n, x) == x.from \in admitted[n] \cap authorized[n]

\* The handler takes a co-pin from a source it has identified and still authorizes.
Accepts(n, x) == x.src \in admitted[n] \cap authorized[n]

\* A copy arrives.  It is ignored if it comes from, or was signed by, a gated peer,
\* or is in the cache; else it is passed on, and may go into the inbox.
Deliver(x) ==
  LET n == x.to
      m == <<x.src, x.cid>>
      ignored == x.from \notin admitted[n] \/ x.src \in Blacklist(n) \/ n \in seen
  IN
  /\ IF ignored
       THEN copies' = copies \ {x} /\ UNCHANGED <<seen, inbox>>
       ELSE /\ copies' = (copies \ {x}) \cup Copies(m, n, Targets(n) \ {x.from, x.src})
            /\ seen' = seen \cup {n}
            /\ inbox' = IF Accepts(n, x) /\ Len(inbox[n]) < MAX_INBOX
                          THEN [inbox EXCEPT ![n] = Append(@, x.cid)] ELSE inbox
  /\ UNCHANGED <<rosterVars, netVars, shared_files, barred>>

\* Status, Poll, SharedFiles: the inbox is drained into the set, as far as it goes.
Poll(n) ==
  /\ inbox[n] # <<>>
  /\ inbox' = [inbox EXCEPT ![n] = <<>>]
  /\ \E s \in SUBSET {inbox[n][i] : i \in DOMAIN inbox[n]} :
       /\ shared_files' = [shared_files EXCEPT ![n] = @ \cup s]
       /\ Cardinality(shared_files'[n]) <= MAX_SHARED_FILES
       /\ \/ Cardinality(shared_files'[n]) = MAX_SHARED_FILES
          \/ \A i \in DOMAIN inbox[n] : inbox[n][i] \in shared_files'[n]
  /\ UNCHANGED <<rosterVars, netVars, gossipVars, barred>>

-----------------------------------------------------------------------------
Next ==
  \/ \E n \in Node : \/ \E new \in Rosters[n] : SetRoster(n, new)
                     \/ \E p \in Node : Connect(n, p) \/ Identify(n, p) \/ Close(n, p)
                                         \/ Evict(n, p)
                     \/ \E c \in Cid : ShareFile(n, c)
                     \/ Poll(n)
  \/ \E x \in copies : Deliver(x) \/ Lose(x)

Spec == Init /\ [][Next]_vars

\* The swarm task handles its commands; clients keep polling and share again what
\* they shared; what is sent to a peer again and again arrives now and then.
FairSpec ==
  /\ Spec
  /\ \A n \in Node : WF_vars(Poll(n)) /\ WF_vars(\E p \in Node : Evict(n, p))
  /\ WF_vars(\E x \in copies : Deliver(x))
  /\ \A m \in Authors :
       /\ SF_vars(m[2] \in shared_files[m[1]] /\ ShareFile(m[1], m[2]))
       /\ \A p \in Node \ {m[1]} :
            SF_vars(\E x \in copies : /\ x = [src |-> m[1], cid |-> m[2], from |-> m[1], to |-> p]
                                      /\ Deliver(x))

-----------------------------------------------------------------------------
(* Properties.                                                             *)

\* The type of the nodes' and the network's state.  A node admits over a
\* connection only.
TypeOK ==
  /\ authorized \in [Node -> SUBSET Node] /\ evictions \in [Node -> SUBSET Node]
  /\ trusted \in [Node -> SUBSET Node]
  /\ conn \subseteq {{n, p} : n \in Node, p \in Node}
  /\ \A n \in Node : admitted[n] \subseteq Connected(n)
  /\ copies \subseteq [src : Node, cid : Cid, from : Node, to : Node]
  /\ seen \subseteq Node /\ barred \subseteq Node
  /\ \A n \in Node : Len(inbox[n]) <= MAX_INBOX /\ Cardinality(shared_files[n]) <= MAX_SHARED_FILES

\* What is shared once everybody has put a node out never gets to it, by any
\* relay, unless somebody lets it in again (gate_peer, flood_publish(false)).
\* Until the last node has, a relay may still send it there.
NothingReachesTheBarred ==
  barred \cap (seen \cup {x.to : x \in copies}) = {}

\* A node lists only its own files and those of nodes it authorized at some time:
\* who relayed them does not count, nor does whom the relay trusts
\* (the Message handler of swarm_loop).  The nodes' state is well typed.
CoPinsAreFromTrusted ==
  /\ TypeOK
  /\ \A n \in Node : \A c \in shared_files[n] \cup {inbox[n][i] : i \in DOMAIN inbox[n]} :
       \E p \in trusted[n] \cup {n} : <<p, c>> \in Authors

\* Two nodes that have each let in the other.
Meshed(n, p) == /\ p \in admitted[n] \cap authorized[n]
                /\ n \in admitted[p] \cap authorized[p]

\* A file that is shared again and again is listed by every peer that stays in the
\* mesh, unless its set is full: although a publication may find nobody, a copy may
\* be lost and a full inbox drops what comes (libp2p_transport.rs:910-911, 1246).
\* An inbox that fills up again and again may drop the same file each time.
SharedIsListed ==
  \A m \in Authors : \A p \in Node \ {m[1]} :
    \/ []<>(Len(inbox[p]) = MAX_INBOX)
    \/ (m[2] \in shared_files[m[1]] /\ Meshed(m[1], p)) ~>
          \/ m[2] \in shared_files[p]
          \/ ~Meshed(m[1], p)
          \/ Cardinality(shared_files[p]) = MAX_SHARED_FILES
=============================================================================
