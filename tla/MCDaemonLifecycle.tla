--------------------------- MODULE MCDaemonLifecycle ---------------------------
(* One administrator's connection and one kind of signal beside the loop and five tasks:   *)
(* the presence worker is left out because nothing here tells it from the publication      *)
(* worker (critical, cancelled in the same phase).                                         *)
EXTENDS DaemonLifecycle

Spawned == DOMAIN CancelledIn \ {"presence_worker"}

(* The process has exited. *)
Ended == at = "exited" /\ UNCHANGED daemonVars
MCSpec == Init /\ [][Next \/ Ended]_daemonVars /\ Fairness
=============================================================================
