------------------------------ MODULE MCPrune -------------------------------
(***************************************************************************)
(* TLC instance of Prune: the vault of one file that may hold two          *)
(* contents, one cleanup process, one observer.                            *)
(***************************************************************************)
EXTENDS Prune, TLC

Symmetry == Permutations(Content)
=============================================================================
