------------------------------- MODULE Prune --------------------------------
(***************************************************************************)
(* The vault together with prune.prune_unreferenced_objects.               *)
(*                                                                         *)
(* Prune reads the hashes the committed database references, closes its    *)
(* connection, then lists the object store and unlinks what it did not     *)
(* find.  It takes no lock, so a snapshot may run between any two of these *)
(* steps, or be running already: the rows it has not committed do not      *)
(* protect the objects it has stored or found in place.                    *)
(***************************************************************************)
EXTENDS Vault

VARIABLES
  pruner,      \* where prune_unreferenced_objects is
  referenced,  \* the hashes its query returned
  doomed,      \* the objects it has listed and will unlink
  overlapped   \* history: a snapshot was writing while prune ran

pruneVars == <<pruner, referenced, doomed>>
allVars == <<vars, pruner, referenced, doomed, overlapped>>

\* prune.py: types, and at each phase what the query and the listing hold.  Nothing
\* is doomed that the query returned, and no prune knows what an earlier one read.
PruneTypeOK ==
  /\ TypeOK
  /\ pruner \in {"idle", "list", "unlink"}
  /\ referenced \subseteq Content
  /\ doomed \subseteq Content \ referenced
  /\ overlapped \in BOOLEAN
  /\ pruner = "idle" => referenced = {}
  /\ pruner # "unlink" => doomed = {}

\* A snapshot is writing while prune is somewhere between its steps.
Overlap == pruner' # "idle" /\ writer' = "snapshot"

\* Mutant: what the files' rows refer to, not the versions.
ReadCurrent ==
  /\ pruner = "idle"
  /\ pruner' = "list"
  /\ referenced' = {db.files[f].hash : f \in File} \ {None}
  /\ UNCHANGED <<vars, doomed>>
  /\ overlapped' = (overlapped \/ Overlap)

ReadReferenced ==
  /\ pruner = "idle"
  /\ pruner' = "list"
  /\ referenced' = Hashes(db.versions)
  /\ UNCHANGED <<vars, doomed>>
  /\ overlapped' = (overlapped \/ Overlap)

\* Mutant: the whole store is listed.
ListEverything ==
  /\ pruner = "list"
  /\ pruner' = "unlink"
  /\ doomed' = objects
  /\ UNCHANGED <<vars, referenced, overlapped>>

ListObjects ==
  /\ pruner = "list"
  /\ pruner' = "unlink"
  /\ doomed' = objects \ referenced
  /\ UNCHANGED <<vars, referenced, overlapped>>

UnlinkObject(h) ==
  /\ pruner = "unlink"
  /\ h \in doomed
  /\ objects' = objects \ {h}
  /\ doomed' = doomed \ {h}
  /\ UNCHANGED <<userVars, db, txn, writer, walkVars, cleanVars, noted, pruner,
                 referenced, overlapped>>

\* The last object is gone, or an exception or a kill cuts the loop short.
EndPrune ==
  /\ pruner # "idle"
  /\ pruner' = "idle"
  /\ referenced' = {}
  /\ doomed' = {}
  /\ UNCHANGED <<vars, overlapped>>

VaultStep ==
  /\ Next
  /\ UNCHANGED pruneVars
  /\ overlapped' = (overlapped \/ Overlap)

PruneInit ==
  /\ Init
  /\ pruner = "idle"
  /\ referenced = {}
  /\ doomed = {}
  /\ overlapped = FALSE

PruneNext ==
  \/ VaultStep
  \/ ReadReferenced
  \/ ListObjects
  \/ \E h \in Content : UnlinkObject(h)
  \/ EndPrune

PruneSpec == PruneInit /\ [][PruneNext]_allVars

-----------------------------------------------------------------------------
\* Prune is safe as long as no snapshot is being written while it runs, also
\* beside retention cleanup and the watcher's deletion markers.
AloneIsSafe == ~overlapped => Recoverable
=============================================================================
