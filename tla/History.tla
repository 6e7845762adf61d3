------------------------------ MODULE History -------------------------------
(***************************************************************************)
(* What SafeVault promises about the past of a protected folder: a set of  *)
(* versions that can be restored, each with an identifier of its own.      *)
(* Recording only adds versions with identifiers above all those in use;   *)
(* forgetting never takes the newest content of a file, nor the marker     *)
(* that says when a file was deleted.                                      *)
(*                                                                         *)
(* The objects, the database, its lock and the processes are absent here:  *)
(* module Vault implements this specification with them.                   *)
(***************************************************************************)
EXTENDS Naturals

CONSTANTS
  File,       \* relative paths under the protected root
  Content,    \* what a file can hold, one value per content hash
  None        \* no content: the hash of a deletion marker

VARIABLE history  \* the versions a restore can bring back

HistoryTypeOK ==
  \A v \in history : /\ v.id \in Nat
                     /\ v.file \in File
                     /\ v.hash \in Content \cup {None}

\* v is the last version of its file that has content.
NewestContent(v, S) ==
  /\ v.hash # None
  /\ \A w \in S : w.file = v.file /\ w.hash # None => w.id <= v.id

Init == history = {}

Record ==
  /\ history \subseteq history'
  /\ \A v \in history, n \in history' \ history : v.id < n.id

Forget ==
  /\ history' \subseteq history
  /\ \A v \in history \ history' : v.hash # None /\ ~NewestContent(v, history)

Next == Record \/ Forget

Spec == Init /\ [][Next]_history
=============================================================================
