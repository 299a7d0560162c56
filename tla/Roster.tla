------------------------------- MODULE Roster -------------------------------
(***************************************************************************)
(* The roster vocabulary of cluster-core: roles, the spellings of an       *)
(* address, and the derivation of the allowed set from a roster.           *)
(***************************************************************************)
EXTENDS Naturals

CONSTANTS
  Address,      \* canonical addresses
  Garbage,      \* the body of a string that is not 40 hex digits
  NoAddress     \* canonical_address's None

ASSUME AddressAssumption == Garbage \notin Address /\ NoAddress \notin Address

Role == {"owner", "admin", "partner", "member", "agent", "guest", "stranger"}

\* "stranger" stands for every role string the code does not know.
role_rank(role) ==
  CASE role = "owner"   -> 5
    [] role = "admin"   -> 4
    [] role = "partner" -> 3
    [] role = "member"  -> 2
    [] role = "agent"   -> 1
    [] OTHER            -> 0

MIN_CLUSTER_RANK == 2

InCluster(role) == role_rank(role) >= MIN_CLUSTER_RANK

\* How an address may be written.  Blanks around it, any number of "0x" and
\* upper-case digits are normalised away; an upper-case "0X" is not stripped.
Spelling == {"canonical", "0x", "upper", "padded", "0X"}
RawAddress == [body : Address \cup {Garbage}, spelling : Spelling]

canonical_address(raw) ==
  IF raw.body \in Address /\ raw.spelling # "0X" THEN raw.body ELSE NoAddress

Canonical(a) == [body |-> a, spelling |-> "canonical"]

\* A roster is a list of entries; its order never matters.
Entry == [addr : RawAddress, role : Role]

allowed_set(roster) ==
  {canonical_address(e.addr) : e \in {x \in roster : InCluster(x.role)}} \ {NoAddress}

\* The canonical addresses a roster names, whatever their role.
allowed_peers(roster) == {canonical_address(e.addr) : e \in roster} \ {NoAddress}
=============================================================================
