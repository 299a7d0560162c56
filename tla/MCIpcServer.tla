----------------------------- MODULE MCIpcServer -----------------------------
(* One client says anything, and the bearer and a request in pieces; the   *)
(* other knows the bearer and makes the daemon wait for its swarm task.    *)
EXTENDS IpcServer

CONSTANTS c1, c2

MCSays == (c1 :> {p \in Piece : p.ends \/ p.says \in {"token", "request"}}) @@
          (c2 :> [says : {"token", "seed"}, ends : {TRUE}])
=============================================================================
