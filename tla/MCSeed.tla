------------------------------- MODULE MCSeed -------------------------------
(* Group ids with a character of every kind: alone, before an ordinary one *)
(* and after a '&', and one that is too long.                              *)
EXTENDS Seed

MCKinds == {"x", " ", "&", "=", "%", "ctl", "u"}

MCGroups == BoundedSeq(MCKinds, 1) \cup {<<c, "x">> : c \in MCKinds}
            \cup {<<"&", c>> : c \in MCKinds} \cup {<<"x", "x", "x">>}
=============================================================================
