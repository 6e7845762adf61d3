------------------------------ MODULE MCVault -------------------------------
(***************************************************************************)
(* TLC instance of Vault: two files, two contents that either may hold,    *)
(* one cleanup process and one observer.                                   *)
(***************************************************************************)
EXTENDS Vault, TLC

\* Files and contents are compared for equality only.
Symmetry == Permutations(File) \cup Permutations(Content)
=============================================================================
