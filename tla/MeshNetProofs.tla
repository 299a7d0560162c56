---------------------------- MODULE MeshNetProofs ----------------------------
(***************************************************************************)
(* Proofs about MeshNet, for any number of nodes, links and rosters.       *)
(***************************************************************************)
EXTENDS MeshNet, FiniteSetTheorems, TLAPS

\* The type of the state, by part, with what TypeOK leaves open.
RosterType ==
  authorized \in [Node -> SUBSET Node] /\ evictions \in [Node -> SUBSET Node]
  /\ trusted \in [Node -> SUBSET Node]

Pairs == {{n, p} : n \in Node, p \in Node}

NetType ==
  /\ conn \subseteq Pairs
  /\ admitted \in [Node -> SUBSET Node]
  /\ \A n \in Node : \A p \in admitted[n] : p # n /\ {n, p} \in conn

Message == [src : Node, cid : Cid, from : Node, to : Node]

GossipType == copies \subseteq Message /\ seen \subseteq Node /\ barred \subseteq Node

ListType ==
  /\ inbox \in [Node -> Seq(Cid)]
  /\ shared_files \in [Node -> SUBSET Cid]
  /\ \A n \in Node : Len(inbox[n]) <= MAX_INBOX
  /\ \A n \in Node : /\ IsFiniteSet(shared_files[n])
                     /\ Cardinality(shared_files[n]) <= MAX_SHARED_FILES

MeshType == RosterType /\ NetType /\ GossipType /\ ListType

\* Nobody lets in whom the message on its way is kept from, and nobody sends it
\* there.
BarredInv ==
  /\ \A n \in Node : admitted[n] \cap barred = {}
  /\ NothingReachesTheBarred

InboxOf(n) == {inbox[n][i] : i \in DOMAIN inbox[n]}

Vouched(n, c) == \E p \in trusted[n] \cup {n} : <<p, c>> \in Authors

\* Every copy is of a message its source may send; whom a node authorizes now it
\* has trusted; what it lists, or is about to, is from there.
SourceInv ==
  /\ \A x \in copies : <<x.src, x.cid>> \in Authors
  /\ \A n \in Node : authorized[n] \subseteq trusted[n]
  /\ \A n \in Node : \A c \in shared_files[n] : Vouched(n, c)
  /\ \A n \in Node : \A c \in InboxOf(n) : Vouched(n, c)

MeshInv == MeshType /\ BarredInv /\ SourceInv

-----------------------------------------------------------------------------
(* The network.                                                            *)

\* The types the proofs go by imply those of the module.
LEMMA TypesSuffice == MeshType => TypeOK
<1> SUFFICES ASSUME MeshType PROVE TypeOK
  OBVIOUS
<1>1. \A n \in Node : admitted[n] \subseteq Connected(n)
  BY DEF MeshType, NetType, Connected
<1> QED BY <1>1 DEF MeshType, RosterType, NetType, Pairs, GossipType, Message, ListType, TypeOK

\* Closing a connection that is up leaves each end with what it admitted over the
\* others.
LEMMA DisconnectedStep ==
  ASSUME NetType, NEW n \in Node, NEW p \in Connected(n), Disconnected(n, p)
  PROVE  NetType' /\ \A q \in Node : admitted'[q] \subseteq admitted[q]
<1>1. p \in Node /\ p # n
  BY DEF Connected
<1>2. admitted' = [q \in Node |-> IF q = n THEN admitted[n] \ {p}
                                  ELSE IF q = p THEN admitted[p] \ {n} ELSE admitted[q]]
  <2>1. DOMAIN admitted = Node /\ n \in Node
    BY DEF NetType
  <2> QED BY <1>1, <2>1 DEF Disconnected
<1>3. conn' = conn \ {{n, p}}
  BY DEF Disconnected
<1>4. ASSUME NEW q \in Node, NEW r \in admitted'[q]
      PROVE  r \in admitted[q] /\ r # q /\ {q, r} \in conn'
  <2>1. r \in admitted[q] /\ (q = n => r # p) /\ (q = p => r # n)
    BY <1>1, <1>2, <1>4
  <2>2. r # q /\ {q, r} \in conn
    BY <2>1 DEF NetType
  <2>3. {q, r} # {n, p}
    BY <1>1, <2>1
  <2> QED BY <1>3, <2>1, <2>2, <2>3
<1>5. admitted' \in [Node -> SUBSET Node]
  BY <1>1, <1>2 DEF NetType
<1> QED BY <1>3, <1>4, <1>5 DEF NetType

\* What a node sends on.
LEMMA CopiesFacts ==
  ASSUME NEW s, NEW c, NEW n, NEW to
  PROVE  /\ \A x \in Copies(<<s, c>>, n, to) : x.src = s /\ x.cid = c /\ x.to \in to
         /\ s \in Node /\ c \in Cid /\ n \in Node /\ to \subseteq Node
              => Copies(<<s, c>>, n, to) \subseteq Message
BY DEF Copies, Message

\* What an inbox holds is finite.
LEMMA InboxFinite ==
  ASSUME ListType, NEW n \in Node
  PROVE  IsFiniteSet(InboxOf(n)) /\ InboxOf(n) \subseteq Cid
<1>1. inbox[n] \in Seq(Cid)
  BY DEF ListType
<1>2. /\ inbox[n] \in Surjection(DOMAIN inbox[n], InboxOf(n))
      /\ DOMAIN inbox[n] = 1 .. Len(inbox[n]) /\ Len(inbox[n]) \in Nat
  BY <1>1 DEF Surjection, InboxOf
<1>3. IsFiniteSet(DOMAIN inbox[n])
  BY <1>2, FS_Interval
<1>4. IsFiniteSet(InboxOf(n))
  BY <1>2, <1>3, FS_Surjection
<1> QED BY <1>1, <1>4 DEF InboxOf

-----------------------------------------------------------------------------
(* Types.                                                                  *)

\* Every step keeps the types.
LEMMA MeshTypeStep == MeshType /\ [Next]_vars => MeshType'
<1> SUFFICES ASSUME MeshType, [Next]_vars PROVE MeshType'
  OBVIOUS
<1> USE DEF rosterVars, netVars, gossipVars, MeshType
<1>a. ASSUME UNCHANGED rosterVars PROVE RosterType'
  BY <1>a DEF RosterType
<1>b. ASSUME UNCHANGED netVars PROVE NetType'
  BY <1>b DEF NetType
<1>c. ASSUME UNCHANGED <<gossipVars, barred>> PROVE GossipType'
  BY <1>c DEF GossipType
<1>d. ASSUME UNCHANGED <<inbox, shared_files>> PROVE ListType'
  BY <1>d DEF ListType
<1>1. ASSUME NEW n \in Node, NEW new \in Rosters[n], SetRoster(n, new) PROVE MeshType'
  <2>1. new \subseteq Node
    BY MeshAssumption
  <2>2. RosterType'
    BY <1>1, <2>1 DEF SetRoster, RosterType
  <2> QED BY <1>1, <2>2, <1>b, <1>c, <1>d DEF SetRoster
<1>2. ASSUME NEW n \in Node, NEW p \in Node, Connect(n, p) PROVE MeshType'
  <2>1. NetType'
    <3>1. {n, p} \in Pairs
      BY DEF Pairs
    <3>2. conn' = conn \cup {{n, p}} /\ admitted' = admitted
      BY <1>2 DEF Connect
    <3> QED BY <3>1, <3>2 DEF NetType
  <2> QED BY <1>2, <2>1, <1>a, <1>c, <1>d DEF Connect
<1>3. ASSUME NEW n \in Node, NEW p \in Node, Identify(n, p) PROVE MeshType'
  <2>1. NetType'
    <3>1. p # n /\ {n, p} \in conn
      BY <1>3 DEF Identify, Connected
    <3>2. conn' = conn /\ admitted' = [admitted EXCEPT ![n] = @ \cup {p}]
      BY <1>3 DEF Identify
    <3> QED BY <3>1, <3>2 DEF NetType
  <2>2. GossipType'
    BY <1>3 DEF Identify, GossipType
  <2> QED BY <1>3, <2>1, <2>2, <1>a, <1>d DEF Identify
<1>4. ASSUME NEW n \in Node, NEW p \in Node, Close(n, p) PROVE MeshType'
  BY <1>4, <1>a, <1>c, <1>d, DisconnectedStep DEF Close
<1>5. ASSUME NEW n \in Node, NEW p \in Node, Evict(n, p) PROVE MeshType'
  <2>1. NetType'
    BY <1>5, <1>b, DisconnectedStep DEF Evict, NetType, Connected
  <2>2. RosterType'
    BY <1>5 DEF Evict, RosterType
  <2> QED BY <1>5, <2>1, <2>2, <1>c, <1>d DEF Evict
<1>6. ASSUME NEW n \in Node, NEW c \in Cid, ShareFile(n, c) PROVE MeshType'
  <2>1. /\ IsFiniteSet(shared_files[n] \cup {c})
        /\ Cardinality(shared_files[n]) \in Nat
        /\ Cardinality(shared_files[n] \cup {c}) =
             IF c \in shared_files[n] THEN Cardinality(shared_files[n])
             ELSE Cardinality(shared_files[n]) + 1
    BY FS_AddElement, FS_CardinalityType DEF ListType
  <2>2. Cardinality(shared_files[n] \cup {c}) <= MAX_SHARED_FILES
    BY <1>6, <2>1, MeshAssumption DEF ShareFile, ListType
  <2>3. ListType'
    BY <1>6, <2>1, <2>2 DEF ShareFile, ListType
  <2>4. admitted[n] \subseteq Node
    BY DEF NetType
  <2>5. copies' \subseteq Message
    BY <1>6, <2>4, CopiesFacts DEF ShareFile, Targets
  <2>6. GossipType'
    BY <1>6, <2>5 DEF ShareFile, GossipType
  <2> QED BY <1>6, <2>3, <2>6, <1>a, <1>b DEF ShareFile
<1>7. ASSUME NEW x \in copies, Deliver(x) PROVE MeshType'
  <2>1. x.src \in Node /\ x.cid \in Cid /\ x.to \in Node
    BY DEF GossipType, Message
  <2>2. admitted[x.to] \subseteq Node
    BY <2>1 DEF NetType
  <2>3. copies' \subseteq Message
    <3>1. Copies(<<x.src, x.cid>>, x.to, Targets(x.to) \ {x.from, x.src}) \subseteq Message
      BY <2>1, <2>2, CopiesFacts DEF Targets
    <3> QED BY <1>7, <3>1 DEF Deliver, GossipType
  <2>4. GossipType'
    BY <1>7, <2>1, <2>3 DEF Deliver, GossipType
  <2>5. ListType'
    <3>1. CASE inbox' = inbox
      BY <1>7, <3>1, <1>d DEF Deliver
    <3>2. CASE /\ Len(inbox[x.to]) < MAX_INBOX
               /\ inbox' = [inbox EXCEPT ![x.to] = Append(@, x.cid)]
      <4>1. /\ inbox[x.to] \in Seq(Cid) /\ Append(inbox[x.to], x.cid) \in Seq(Cid)
            /\ Len(Append(inbox[x.to], x.cid)) <= MAX_INBOX
        BY <2>1, <3>2, MeshAssumption DEF ListType
      <4> QED BY <1>7, <2>1, <3>2, <4>1 DEF Deliver, ListType
    <3> QED BY <1>7, <3>1, <3>2 DEF Deliver
  <2> QED BY <1>7, <2>4, <2>5, <1>a, <1>b DEF Deliver
<1>8. ASSUME NEW x \in copies, Lose(x) PROVE MeshType'
  <2>1. GossipType'
    BY <1>8 DEF Lose, GossipType
  <2> QED BY <1>8, <2>1, <1>a, <1>b, <1>d DEF Lose
<1>9. ASSUME NEW n \in Node, Poll(n) PROVE MeshType'
  <2>1. PICK s \in SUBSET InboxOf(n) :
          /\ shared_files' = [shared_files EXCEPT ![n] = @ \cup s]
          /\ Cardinality(shared_files'[n]) <= MAX_SHARED_FILES
    BY <1>9 DEF Poll, InboxOf
  <2>2. IsFiniteSet(shared_files[n] \cup s) /\ s \subseteq Cid
    BY InboxFinite, FS_Subset, FS_Union DEF ListType
  <2>3. inbox' = [inbox EXCEPT ![n] = <<>>] /\ <<>> \in Seq(Cid) /\ Len(<<>>) <= MAX_INBOX
    BY <1>9, MeshAssumption DEF Poll
  <2>4. ListType'
    BY <2>1, <2>2, <2>3 DEF ListType
  <2> QED BY <1>9, <2>4, <1>a, <1>b, <1>c DEF Poll
<1>10. CASE UNCHANGED vars
  BY <1>10, <1>a, <1>b, <1>c, <1>d DEF vars
<1> QED BY <1>1, <1>2, <1>3, <1>4, <1>5, <1>6, <1>7, <1>8, <1>9, <1>10 DEF Next

-----------------------------------------------------------------------------
(* Whom a message reaches.                                                 *)

\* No step brings a message to a node it is kept from.
LEMMA BarredStep == MeshType /\ BarredInv /\ [Next]_vars => BarredInv'
<1> SUFFICES ASSUME MeshType, BarredInv, [Next]_vars PROVE BarredInv'
  OBVIOUS
<1> USE DEF rosterVars, netVars, gossipVars, BarredInv, NothingReachesTheBarred
<1>1. ASSUME NEW n \in Node, NEW p \in Node, Identify(n, p) PROVE BarredInv'
  BY <1>1 DEF Identify, MeshType, NetType
<1>2. ASSUME NEW n \in Node, NEW p \in Node, Close(n, p) \/ Evict(n, p) PROVE BarredInv'
  <2>1. UNCHANGED gossipVars /\ barred' = barred
    BY <1>2 DEF Close, Evict
  <2>2. CASE Disconnected(n, p) /\ p \in Connected(n)
    BY <2>1, <2>2, DisconnectedStep DEF MeshType
  <2>3. CASE UNCHANGED netVars
    BY <2>1, <2>3
  <2> QED BY <1>2, <2>2, <2>3 DEF Close, Evict, MeshType, NetType, Connected
<1>3. ASSUME NEW n \in Node, NEW c \in Cid, ShareFile(n, c) PROVE BarredInv'
  <2>1. /\ barred' = {p \in Node \ {n} : \A q \in Node : p \notin admitted[q]}
        /\ seen' = {n} /\ admitted' = admitted
        /\ copies' = Copies(<<n, c>>, n, admitted[n])
    BY <1>3 DEF ShareFile, Targets
  <2>2. \A x \in copies' : x.to \in admitted[n]
    BY <2>1, CopiesFacts
  <2> QED BY <2>1, <2>2
<1>4. ASSUME NEW x \in copies, Deliver(x) PROVE BarredInv'
  <2>1. UNCHANGED <<admitted, barred>> /\ x.to \in Node
    BY <1>4 DEF Deliver, MeshType, GossipType, Message
  <2>2. seen' \subseteq seen \cup {x.to}
    BY <1>4 DEF Deliver
  <2>3. \A y \in copies' : y \in copies \/ y.to \in admitted[x.to]
    BY <1>4, CopiesFacts DEF Deliver, Targets
  <2>4. x.to \notin barred
    OBVIOUS
  <2> QED BY <2>1, <2>2, <2>3, <2>4
<1>5. ASSUME NEW x \in copies, Lose(x) PROVE BarredInv'
  BY <1>5 DEF Lose
<1>6. ASSUME UNCHANGED <<admitted, copies, seen, barred>> PROVE BarredInv'
  BY <1>6
<1> QED BY <1>1, <1>2, <1>3, <1>4, <1>5, <1>6 DEF Next, SetRoster, Connect, Poll, vars

-----------------------------------------------------------------------------
(* Whose files a node lists.                                               *)

\* Every step keeps to authors that are trusted.
LEMMA SourceStep == MeshType /\ SourceInv /\ [Next]_vars => SourceInv'
<1> SUFFICES ASSUME MeshType, SourceInv, [Next]_vars PROVE SourceInv'
  OBVIOUS
<1> USE DEF rosterVars, netVars, gossipVars, SourceInv, MeshType
<1>a. ASSUME NEW n \in Node, trusted[n] \subseteq trusted'[n], NEW c, Vouched(n, c)
      PROVE  Vouched(n, c)'
  BY <1>a DEF Vouched
<1>1. ASSUME NEW n \in Node, NEW new \in Rosters[n], SetRoster(n, new) PROVE SourceInv'
  <2>1. /\ \A m \in Node : trusted[m] \subseteq trusted'[m]
        /\ \A m \in Node : authorized'[m] \subseteq trusted'[m]
    BY <1>1 DEF SetRoster, RosterType
  <2> QED BY <1>1, <2>1, <1>a DEF SetRoster, InboxOf
<1>2. ASSUME NEW n \in Node, NEW c \in Cid, ShareFile(n, c) PROVE SourceInv'
  <2>1. \A x \in copies' : <<x.src, x.cid>> \in Authors
    BY <1>2, CopiesFacts DEF ShareFile
  <2>2. /\ UNCHANGED <<authorized, trusted, inbox>> /\ <<n, c>> \in Authors
        /\ \A m \in Node : shared_files'[m] \subseteq shared_files[m] \cup (IF m = n THEN {c} ELSE {})
    BY <1>2 DEF ShareFile, ListType
  <2>3. Vouched(n, c)
    BY <2>2 DEF Vouched
  <2> QED BY <2>1, <2>2, <2>3, <1>a DEF InboxOf
<1>3. ASSUME NEW x \in copies, Deliver(x) PROVE SourceInv'
  <2>1. UNCHANGED <<authorized, trusted, shared_files>> /\ x.to \in Node /\ x.cid \in Cid
    BY <1>3 DEF Deliver, GossipType, Message
  <2>2. \A y \in copies' : <<y.src, y.cid>> \in Authors
    <3>1. \A y \in Copies(<<x.src, x.cid>>, x.to, Targets(x.to) \ {x.from, x.src}) :
            y.src = x.src /\ y.cid = x.cid
      BY CopiesFacts
    <3> QED BY <1>3, <3>1 DEF Deliver
  <2>3. ASSUME NEW n \in Node, NEW c \in InboxOf(n)' PROVE Vouched(n, c)
    <3>1. CASE inbox' = inbox
      BY <3>1, <2>3 DEF InboxOf
    <3>2. CASE Accepts(x.to, x) /\ inbox' = [inbox EXCEPT ![x.to] = Append(@, x.cid)]
      <4>1. CASE n # x.to
        BY <2>3, <3>2, <4>1 DEF ListType, InboxOf
      <4>2. CASE n = x.to
        <5>1. inbox[n] \in Seq(Cid) /\ inbox'[n] = Append(inbox[n], x.cid)
          BY <2>1, <3>2, <4>2 DEF ListType
        <5>2. c \in InboxOf(n) \/ c = x.cid
          BY <2>1, <2>3, <5>1 DEF InboxOf
        <5>3. Vouched(n, x.cid)
          BY <2>1, <3>2, <4>2 DEF Accepts, Vouched
        <5> QED BY <5>2, <5>3
      <4> QED BY <4>1, <4>2
    <3> QED BY <1>3, <3>1, <3>2 DEF Deliver
  <2> QED BY <2>1, <2>2, <2>3, <1>a
<1>4. ASSUME NEW x \in copies, Lose(x) PROVE SourceInv'
  BY <1>4, <1>a DEF Lose, InboxOf
<1>5. ASSUME NEW n \in Node, Poll(n) PROVE SourceInv'
  <2>1. UNCHANGED <<authorized, trusted, copies>>
    BY <1>5 DEF Poll
  <2>2. \A m \in Node : shared_files'[m] \subseteq shared_files[m] \cup InboxOf(m)
    BY <1>5 DEF Poll, ListType, InboxOf
  <2>3. \A m \in Node : InboxOf(m)' \subseteq InboxOf(m)
    BY <1>5 DEF Poll, ListType, InboxOf
  <2> QED BY <2>1, <2>2, <2>3, <1>a
<1>6. ASSUME UNCHANGED <<authorized, trusted, copies, inbox, shared_files>> PROVE SourceInv'
  BY <1>6, <1>a DEF InboxOf
<1> QED BY <1>1, <1>2, <1>3, <1>4, <1>5, <1>6
        DEF Next, Connect, Identify, Close, Evict, vars

-----------------------------------------------------------------------------

\* The invariant of the mesh holds.
LEMMA MeshInvariant == Spec => []MeshInv
<1>1. Init => MeshInv
  <2> SUFFICES ASSUME Init PROVE MeshInv
    OBVIOUS
  <2> USE MeshAssumption DEF Init
  <2>1. MeshType
    BY FS_EmptySet DEF MeshType, RosterType, NetType, GossipType, ListType
  <2>2. BarredInv
    BY DEF BarredInv, NothingReachesTheBarred
  <2>3. SourceInv
    BY DEF SourceInv, InboxOf
  <2> QED BY <2>1, <2>2, <2>3 DEF MeshInv
<1>2. MeshInv /\ [Next]_vars => MeshInv'
  BY MeshTypeStep, BarredStep, SourceStep DEF MeshInv
<1> QED BY <1>1, <1>2, PTL DEF Spec

\* What is shared once everybody has put a node out never gets to it, over any
\* number of relays in any topology, unless somebody lets it in again (gate_peer,
\* flood_publish(false)).
THEOREM NothingReachesTheBarredHolds == Spec => []NothingReachesTheBarred
<1>1. MeshInv => NothingReachesTheBarred
  BY DEF MeshInv, BarredInv
<1> QED BY <1>1, MeshInvariant, PTL

\* A node lists only its own files and those of nodes it authorized at some time,
\* whoever relayed them and whomever the relays trust (the Message handler of
\* swarm_loop); the state is well typed.
THEOREM CoPinsAreFromTrustedHolds == Spec => []CoPinsAreFromTrusted
<1>1. MeshInv => CoPinsAreFromTrusted
  BY TypesSuffice DEF MeshInv, SourceInv, InboxOf, Vouched, CoPinsAreFromTrusted
<1> QED BY <1>1, MeshInvariant, PTL
=============================================================================
