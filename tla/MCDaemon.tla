------------------------------ MODULE MCDaemon ------------------------------
(***************************************************************************)
(* TLC instance of Daemon: two runs, and a process that asks for stops.    *)
(***************************************************************************)
EXTENDS Daemon
=============================================================================
