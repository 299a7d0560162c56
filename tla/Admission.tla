----------------------------- MODULE Admission -----------------------------
(***************************************************************************)
(* What a group's mesh promises, whichever transport carries it: a peer    *)
(* enters the mesh only while it is allowed, and a change of the allowed   *)
(* set takes the peers that fall out of it along, in the same step.        *)
(***************************************************************************)
CONSTANT Address
VARIABLES allowed, meshed

vars == <<allowed, meshed>>

Init == allowed = {} /\ meshed = {}

Admit(a) == a \in allowed /\ meshed' = meshed \cup {a} /\ UNCHANGED allowed

Drop == meshed' \subseteq meshed /\ UNCHANGED allowed

Reconcile(new) == allowed' = new /\ meshed' \subseteq meshed \cap new

Next == \/ \E a \in Address : Admit(a)
        \/ Drop
        \/ \E new \in SUBSET Address : Reconcile(new)

Spec == Init /\ [][Next]_vars

\* No unauthorized peer is ever in the mesh (cluster-core's lib.rs:4).
OnlyAllowed == meshed \subseteq allowed
=============================================================================
