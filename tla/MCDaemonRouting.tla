-------------------------- MODULE MCDaemonRouting --------------------------
(* The cfg files give the processes; there is nothing else to define. *)
EXTENDS DaemonRouting
=============================================================================
