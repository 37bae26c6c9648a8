---------------------------- MODULE MCLogMonitor -----------------------------
(* Deployments of the monitor on one server, for LogMonitor. *)
EXTENDS LogMonitor
=============================================================================
