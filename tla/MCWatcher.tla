----------------------------- MODULE MCWatcher ------------------------------
(***************************************************************************)
(* TLC instance of Watcher: two timer threads.                             *)
(***************************************************************************)
EXTENDS Watcher
=============================================================================
