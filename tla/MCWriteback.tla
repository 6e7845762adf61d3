---------------------------- MODULE MCWriteback -----------------------------
(***************************************************************************)
(* TLC instance of Writeback: a file with two texts, a second path that    *)
(* may hold a text, links inside the folder or one that leads out of it    *)
(* and that a scan may fail to read, and a path outside the folder.        *)
(***************************************************************************)
EXTENDS Writeback, TLC

CONSTANTS f1, f2, out, a, b, l, e

MCInitial == {f1 :> a @@ f2 :> l @@ out :> a,
              f1 :> Absent @@ f2 :> e @@ out :> a}
MCHolds == f1 :> {a, b, Absent} @@ f2 :> {a, l} @@ out :> {b}
MCCopyOfLink == l :> l
=============================================================================
