-------------------------- MODULE MCClusterSession --------------------------
(* Five addresses in several spellings; every roster of at most five of    *)
(* nine entries, so that every set of addresses is the allowed one.       *)
EXTENDS ClusterSession, FiniteSets

CONSTANTS a, b, c, d, e

Raw(addr, spelling) == [body |-> addr, spelling |-> spelling]

MCCandidates == {Raw(a, "0x"), Raw(b, "upper"), Raw(c, "canonical"), Raw(d, "padded"),
                 Raw(e, "upper"), Raw(a, "0X"),
                 Raw(Garbage, "canonical")}

MCEntries == {
  [addr |-> Raw(a, "canonical"), role |-> "owner"],
  [addr |-> Raw(a, "padded"), role |-> "guest"],
  [addr |-> Raw(b, "0x"), role |-> "member"],
  [addr |-> Raw(b, "0X"), role |-> "admin"],
  [addr |-> Raw(c, "upper"), role |-> "agent"],
  [addr |-> Raw(c, "canonical"), role |-> "partner"],
  [addr |-> Raw(d, "canonical"), role |-> "member"],
  [addr |-> Raw(e, "0x"), role |-> "stranger"],
  [addr |-> Raw(e, "upper"), role |-> "admin"] }

MCRosters == {r \in SUBSET MCEntries : Cardinality(r) <= 5}
=============================================================================
