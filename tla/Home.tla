------------------------------- MODULE Home ---------------------------------
(***************************************************************************)
(* Where the vault is kept: the home that the location file names, moved   *)
(* by storage.migrate_storage, copied out by exporter.export_vault and     *)
(* brought in by importer.import_vault.                                    *)
(*                                                                         *)
(* A home is its database (the contents its versions refer to) and its     *)
(* objects; some objects may be corrupt.  Every call of get_safevault_home *)
(* reads the location file again, so a snapshot or a cleanup that is under *)
(* way when a migration switches may find its objects in one home and its  *)
(* open database in another.  A process may die between any two steps.     *)
(***************************************************************************)
EXTENDS Naturals, FiniteSets

CONSTANTS
  Homes,      \* folders that may hold a vault
  First,      \* the one it is in to begin with
  Contents,   \* contents of versions, that is, objects
  Initial,    \* the contents the vault begins with
  Migrators,  \* processes that may call migrate_storage
  Writers,    \* processes that may take a snapshot
  Absent,     \* there is nothing at this place
  MaxMoves,   \* bound: migrations begun
  MaxCalls,   \* bound: snapshots, cleanups, exports and imports begun
  MaxFaults   \* bound: exceptions, deaths and objects that are copied wrong

Vaults == [db : SUBSET Contents, objects : SUBSET Contents, bad : SUBSET Contents]

ASSUME HomeAssumption ==
  /\ First \in Homes /\ Absent \notin Homes \cup Contents \cup Vaults
  /\ Initial \subseteq Contents
  /\ {MaxMoves, MaxCalls, MaxFaults} \subseteq Nat

Empty == [db |-> {}, objects |-> {}, bad |-> {}]

\* What may happen that the properties below speak of: a state file or a lock left
\* by a migrator that is gone, a source that had moved before the lock was taken,
\* a switch in the middle of a cleanup or onto the target of an import, a copy that
\* went wrong and was not verified deeply.
Marks == {"state", "lock", "stale", "cleanup", "import", "shallow"}

VARIABLES
  disk,       \* what each home holds
  pointer,    \* the location file
  lock,       \* the migration lock file is there
  state,      \* the migration state file
  mig,        \* per migrator: where it is
  writer,     \* per writer: where its snapshot is
  cleanup,    \* the cleanup of one content: its open database, its phase
  exporter, importer,
  archive,    \* the file a finished export has left
  saved,      \* history: versions committed, not cleaned, beside no migration
  marred,     \* history: what has happened that the code does not guard against
  moves, calls, faults

otherVars == <<writer, cleanup, saved, calls>>
copyVars == <<exporter, importer, archive>>
vars == <<disk, pointer, lock, state, mig, otherVars, copyVars, marred, moves,
          faults>>

NoMigration == [phase |-> "idle", source |-> First, target |-> First,
                remove |-> FALSE, deep |-> FALSE, must |-> {}, stage |-> Absent]
NoSnapshot == [phase |-> "idle", home |-> Absent, content |-> Absent, mixed |-> FALSE]
NoCleanup == [phase |-> "idle", content |-> Absent]
NoExport == [phase |-> "idle", home |-> Absent, db |-> {}, deep |-> FALSE,
             todo |-> {}, packed |-> {}, bad |-> {}]
NoImport == [phase |-> "idle", target |-> First, temp |-> Absent]

Init ==
  /\ disk = [h \in Homes |-> IF h = First
                             THEN [db |-> Initial, objects |-> Initial, bad |-> {}]
                             ELSE Absent]
  /\ pointer = First
  /\ lock = FALSE
  /\ state = [status |-> "none", destination |-> First]
  /\ mig = [m \in Migrators |-> NoMigration]
  /\ writer = [w \in Writers |-> NoSnapshot]
  /\ cleanup = NoCleanup
  /\ exporter = NoExport
  /\ importer = NoImport
  /\ archive = Absent
  /\ saved = Initial
  /\ marred = {}
  /\ moves = 0 /\ calls = 0 /\ faults = 0

Call == calls < MaxCalls /\ calls' = calls + 1
Fault == faults < MaxFaults /\ faults' = faults + 1

\* Some migration has begun to copy and has not switched yet.
Migrating == \E m \in Migrators :
               mig[m].phase \in {"copying", "copied", "backedUp", "verified", "placed"}

\* A migrator that is past the lock.
Holding(m) == mig[m].phase \notin {"idle", "stated"}

\* rmtree of a home: a connection to its database and a file in its tmp directory
\* are lost, whatever is at that place later.
Remove(h) ==
  /\ disk' = [disk EXCEPT ![h] = Absent]
  /\ writer' = [w \in Writers |-> [writer[w] EXCEPT !.home = IF @ = h THEN Absent ELSE @]]
  /\ exporter' = [exporter EXCEPT !.home = IF @ = h THEN Absent ELSE @]

\* ensure_home_layout and _copy_home take a home that is not there for an empty one.
At(h) == IF disk[h] = Absent THEN Empty ELSE disk[h]

\* connect: ensure_home_layout and SQLite make what is not there.
Connect == disk' = [disk EXCEPT ![pointer] = At(pointer)]

-----------------------------------------------------------------------------
\* _write_migration_state: the whole state file, by an atomic replace.
Says(status, t) == state' = [status |-> status, destination |-> t]

\* read_migration_state, and validate_storage_destination.
Busy == state.status \in {"queued", "running"}
Destination(t) == t # pointer /\ disk[t] = Absent

\* start_storage_migration_from_ui, up to the process it starts: MigrateStart.
QueueFromUi(t) ==
  /\ ~Busy
  /\ Destination(t) /\ moves < MaxMoves
  /\ Says("queued", t)
  /\ UNCHANGED <<disk, pointer, lock, mig, otherVars, copyVars, marred, moves,
                 faults>>

\* validate_storage_destination, then the state file, before the lock is tried.
MigrateStart(m, t, remove, deep) ==
  /\ mig[m].phase = "idle" /\ Destination(t) /\ moves < MaxMoves
  /\ moves' = moves + 1
  /\ Says("running", t)
  /\ mig' = [mig EXCEPT ![m] = [NoMigration EXCEPT !.phase = "stated",
               !.source = pointer, !.target = t, !.remove = remove, !.deep = deep]]
  /\ UNCHANGED <<disk, pointer, lock, otherVars, copyVars, marred, faults>>

\* Mutant: the finally clause that removes the lock covers the taking of it.
TakeLockInTry(m) ==
  /\ mig[m].phase = "stated"
  /\ lock' = ~lock
  /\ IF lock
     THEN mig' = [mig EXCEPT ![m] = NoMigration] /\ marred' = marred \cup {"state"}
     ELSE mig' = [mig EXCEPT ![m].phase = "locked"] /\ UNCHANGED marred
  /\ UNCHANGED <<disk, pointer, state, otherVars, copyVars, moves, faults>>

\* O_EXCL.  Who is refused leaves without a word in the state file; who is not
\* keeps the source it has read before.
TakeLock(m) ==
  /\ mig[m].phase = "stated"
  /\ lock' = TRUE
  /\ IF lock
     THEN mig' = [mig EXCEPT ![m] = NoMigration] /\ marred' = marred \cup {"state"}
     ELSE /\ mig' = [mig EXCEPT ![m].phase = "locked"]
          /\ marred' = IF mig[m].source = pointer THEN marred ELSE marred \cup {"stale"}
  /\ UNCHANGED <<disk, pointer, state, otherVars, copyVars, moves, faults>>

\* The daemon is stopped, the free space is enough; _copy_home begins.
BeginCopy(m) ==
  /\ mig[m].phase = "locked"
  /\ mig' = [mig EXCEPT ![m].phase = "copying", ![m].stage = Empty,
                        ![m].must = At(mig[m].source).objects]
  /\ Says("running", mig[m].target)
  /\ writer' = [w \in Writers |-> [writer[w] EXCEPT !.mixed = TRUE]]
  /\ UNCHANGED <<disk, pointer, lock, cleanup, saved, calls, copyVars, marred,
                 moves, faults>>

\* _copy_home ends: whatever came or went while it walked may be there or not.
EndCopy(m) ==
  /\ mig[m].phase = "copying"
  /\ LET now == At(mig[m].source)
     IN  \E extra \in SUBSET (now.objects \ mig[m].must), wrong \in SUBSET now.objects :
           LET copied == (mig[m].must \cap now.objects) \cup extra
           IN  /\ wrong \subseteq copied
               /\ IF wrong = {} THEN UNCHANGED faults ELSE Fault
               /\ mig' = [mig EXCEPT ![m].phase = "copied",
                            ![m].stage.objects = copied,
                            ![m].stage.bad = (now.bad \cap copied) \cup wrong]
  /\ UNCHANGED <<disk, pointer, lock, state, otherVars, copyVars, marred, moves>>

\* If the source has a database, backup_database_to copies that of the home in use.
BackupDatabase(m) ==
  /\ mig[m].phase = "copied"
  /\ mig' = [mig EXCEPT ![m].phase = "backedUp",
               ![m].stage.db = IF disk[mig[m].source] = Absent THEN {} ELSE At(pointer).db]
  /\ IF disk[mig[m].source] = Absent THEN UNCHANGED disk ELSE Connect
  /\ Says("running", mig[m].target)
  /\ UNCHANGED <<pointer, lock, otherVars, copyVars, marred, moves, faults>>

\* Mutant: what the walk of _copy_home found counts, not what the source holds.
VerifiedAsCopied(m) ==
  /\ mig[m].must \subseteq mig[m].stage.objects
  /\ mig[m].deep => mig[m].must \cap mig[m].stage.bad = {}

\* _verify_migrated_home: every object the source holds by now has been copied, and
\* copied right if the check is deep.  Of a copy whose object has gone it asks nothing.
Verified(m) ==
  LET objects == At(mig[m].source).objects
  IN  /\ objects \subseteq mig[m].stage.objects
      /\ mig[m].deep => objects \cap mig[m].stage.bad = {}

Verify(m) ==
  /\ mig[m].phase = "backedUp" /\ Verified(m)
  /\ mig' = [mig EXCEPT ![m].phase = "verified"]
  /\ UNCHANGED <<disk, pointer, lock, state, otherVars, copyVars, marred, moves,
                 faults>>

\* target.rmdir() and os.replace: only onto an empty place.
Place(m) ==
  /\ mig[m].phase = "verified" /\ disk[mig[m].target] = Absent
  /\ disk' = [disk EXCEPT ![mig[m].target] = mig[m].stage]
  /\ mig' = [mig EXCEPT ![m].phase = "placed", ![m].stage = Absent]
  /\ UNCHANGED <<pointer, lock, state, otherVars, copyVars, marred, moves, faults>>

\* Mutant: the pointer is set before the stage is put in its place.
SwitchBeforePlace(m) ==
  /\ mig[m].phase = "verified"
  /\ pointer' = mig[m].target
  /\ mig' = [mig EXCEPT ![m].phase = "switched"]
  /\ UNCHANGED <<disk, lock, state, otherVars, copyVars, marred, moves, faults>>

\* set_safevault_home_location, an atomic replace.
Switch(m) ==
  /\ mig[m].phase = "placed"
  /\ pointer' = mig[m].target
  /\ mig' = [mig EXCEPT ![m].phase = "switched"]
  /\ marred' = marred
       \cup (IF cleanup.phase = "checked" THEN {"cleanup"} ELSE {})
       \cup (IF importer.phase # "idle" /\ importer.target = mig[m].target
             THEN {"import"} ELSE {})
       \cup (IF ~mig[m].deep /\ At(mig[m].target).db \cap At(mig[m].target).bad # {}
             THEN {"shallow"} ELSE {})
  /\ UNCHANGED <<disk, lock, state, otherVars, copyVars, moves, faults>>

\* rmtree of the old home, if the user confirmed it; an OSError is only noted.
RemoveSource(m) ==
  /\ mig[m].phase = "switched"
  /\ \/ mig[m].remove /\ Remove(mig[m].source)
     \/ UNCHANGED <<disk, writer, exporter>>
  /\ mig' = [mig EXCEPT ![m].phase = "removed"]
  /\ UNCHANGED <<pointer, lock, state, cleanup, saved, calls, importer, archive,
                 marred, moves, faults>>

Report(m) ==
  /\ mig[m].phase = "removed"
  /\ Says("complete", mig[m].target)
  /\ mig' = [mig EXCEPT ![m].phase = "reported"]
  /\ UNCHANGED <<disk, pointer, lock, otherVars, copyVars, marred, moves, faults>>

\* The daemon is restarted; the lock goes last, unless its unlink is denied.
Release(m) ==
  /\ mig[m].phase = "reported"
  /\ \/ lock' = FALSE /\ UNCHANGED <<marred, faults>>
     \/ UNCHANGED lock /\ marred' = marred \cup {"lock"} /\ Fault
  /\ mig' = [mig EXCEPT ![m] = NoMigration]
  /\ UNCHANGED <<disk, pointer, state, otherVars, copyVars, moves>>

\* What a step needs is not there, or something raises where it must not.
MustFail(m) == \/ mig[m].phase = "backedUp" /\ ~Verified(m)
               \/ mig[m].phase = "verified" /\ disk[mig[m].target] # Absent

\* Mutant: the except clause leaves the state file alone.
FailQuietly(m) ==
  /\ Holding(m)
  /\ IF MustFail(m) THEN UNCHANGED faults ELSE Fault
  /\ lock' = FALSE
  /\ mig' = [mig EXCEPT ![m] = NoMigration]
  /\ UNCHANGED <<disk, pointer, state, otherVars, copyVars, marred, moves>>

\* The except and finally clauses, also after the switch.  Each may fail in turn:
\* the state file then stays as it is, or the lock does.
FailMigration(m) ==
  /\ Holding(m)
  /\ \E recorded, unlocked \in BOOLEAN :
       /\ IF MustFail(m) /\ recorded /\ unlocked THEN UNCHANGED faults ELSE Fault
       /\ IF recorded THEN Says("failed", mig[m].target) ELSE UNCHANGED state
       /\ lock' = ~unlocked
       /\ marred' = marred \cup (IF recorded THEN {} ELSE {"state"})
                           \cup (IF unlocked THEN {} ELSE {"lock"})
  /\ mig' = [mig EXCEPT ![m] = NoMigration]
  /\ UNCHANGED <<disk, pointer, otherVars, copyVars, moves>>

\* Lock, state and stage stay behind.
Die(m) ==
  /\ mig[m].phase # "idle" /\ Fault
  /\ mig' = [mig EXCEPT ![m] = NoMigration]
  /\ marred' = marred \cup (IF Holding(m) THEN {"state", "lock"} ELSE {"state"})
  /\ UNCHANGED <<disk, pointer, lock, state, otherVars, copyVars, moves>>

-----------------------------------------------------------------------------
(* A snapshot.  Its connection stays with the home that was in use when it  *)
(* was opened; each object goes to the home in use when it is stored.  What *)
(* a snapshot and a cleanup of the same home do to each other is Prune's.   *)

migVars == <<pointer, lock, state, mig, marred, moves, faults>>

Open(w, c) ==
  /\ writer[w].phase = "idle" /\ cleanup.phase = "idle" /\ c \notin saved
  /\ writer' = [writer EXCEPT ![w] = [phase |-> "open", home |-> pointer,
                                      content |-> c, mixed |-> Migrating]]
  /\ Connect
  /\ Call
  /\ UNCHANGED <<migVars, cleanup, saved, copyVars>>

\* An object that is there and corrupt is replaced.
Store(w) ==
  /\ writer[w].phase = "open"
  /\ disk' = [disk EXCEPT ![pointer] =
                [At(pointer) EXCEPT !.objects = @ \cup {writer[w].content},
                                    !.bad = @ \ {writer[w].content}]]
  /\ writer' = [writer EXCEPT ![w].phase = "stored"]
  /\ UNCHANGED <<migVars, cleanup, saved, calls, copyVars>>

\* A row written to a database that has been removed is gone with it.
Commit(w) ==
  LET h == writer[w].home
  IN  /\ writer[w].phase = "stored"
      /\ disk' = IF h = Absent THEN disk
                 ELSE [disk EXCEPT ![h].db = @ \cup {writer[w].content}]
      /\ saved' = IF writer[w].mixed THEN saved ELSE saved \cup {writer[w].content}
      /\ writer' = [writer EXCEPT ![w] = NoSnapshot]
      /\ UNCHANGED <<migVars, cleanup, calls, copyVars>>

Writing == \E w \in Writers : writer[w].phase # "idle"

\* cleanup_eligible_history: the rows go in one transaction.
CleanRow(c) ==
  /\ cleanup.phase = "idle" /\ ~Writing
  /\ c \in At(pointer).db
  /\ disk' = [disk EXCEPT ![pointer].db = @ \ {c}]
  /\ saved' = saved \ {c}
  /\ cleanup' = [phase |-> "rows", content |-> c]
  /\ Call
  /\ UNCHANGED <<migVars, writer, copyVars>>

\* _delete_unreferenced_candidates opens the database again and asks it.
CleanCheck ==
  /\ cleanup.phase = "rows"
  /\ cleanup' = IF cleanup.content \in At(pointer).db
                THEN NoCleanup
                ELSE [cleanup EXCEPT !.phase = "checked"]
  /\ Connect
  /\ UNCHANGED <<migVars, writer, saved, calls, copyVars>>

\* object_path follows the location file once more.  What is removed between the
\* dump of the database and the comparison of objects is not missed there.
CleanObject ==
  /\ cleanup.phase = "checked"
  /\ disk' = IF disk[pointer] = Absent THEN disk
             ELSE [disk EXCEPT ![pointer].objects = @ \ {cleanup.content},
                               ![pointer].bad = @ \ {cleanup.content}]
  /\ cleanup' = NoCleanup
  /\ marred' = IF \E m \in Migrators : mig[m].phase = "backedUp"
               THEN marred \cup {"cleanup"} ELSE marred
  /\ UNCHANGED <<pointer, lock, state, mig, moves, faults, writer, saved, calls,
                 copyVars>>

-----------------------------------------------------------------------------
(* export_vault and import_vault.                                           *)

\* The checks, and backup_database_to a file under the tmp directory of the home.
ExportDb(deep) ==
  /\ exporter.phase = "idle" /\ archive = Absent
  /\ exporter' = [NoExport EXCEPT !.phase = "validating", !.home = pointer, !.deep = deep,
                                  !.db = At(pointer).db, !.todo = At(pointer).db]
  /\ Connect
  /\ Call
  /\ UNCHANGED <<migVars, writer, cleanup, saved, importer, archive>>

exportOnly == <<disk, migVars, otherVars, importer>>

Found(c) == c \in exporter.todo /\ c \in At(pointer).objects

\* validate_referenced_objects: each object in its turn, of the home in use by then.
ValidateObject(c) ==
  /\ exporter.phase = "validating" /\ Found(c)
  /\ exporter.deep => c \notin At(pointer).bad
  /\ exporter' = [exporter EXCEPT !.todo = @ \ {c}]
  /\ UNCHANGED <<exportOnly, archive>>

\* archive.add of the dump, which a migration may have removed with its home.
PackDatabase ==
  /\ exporter.phase = "validating" /\ exporter.todo = {} /\ exporter.home # Absent
  /\ exporter' = [exporter EXCEPT !.phase = "packing", !.todo = exporter.db]
  /\ UNCHANGED <<exportOnly, archive>>

\* Mutant: what has been validated and is gone by now is left out.
PackIfThere(c) ==
  /\ exporter.phase = "packing" /\ c \in exporter.todo
  /\ exporter' = [exporter EXCEPT !.todo = @ \ {c},
                                  !.packed = @ \cup ({c} \cap At(pointer).objects),
                                  !.bad = @ \cup ({c} \cap At(pointer).bad)]
  /\ UNCHANGED <<exportOnly, archive>>

\* is_file once more, and archive.add of what is at the path now.
PackObject(c) ==
  /\ exporter.phase = "packing" /\ Found(c)
  /\ exporter' = [exporter EXCEPT !.todo = @ \ {c}, !.packed = @ \cup {c},
                                  !.bad = @ \cup ({c} \cap At(pointer).bad)]
  /\ UNCHANGED <<exportOnly, archive>>

\* os.replace onto the output.
ExportDone ==
  /\ exporter.phase = "packing" /\ exporter.todo = {}
  /\ archive' = [db |-> exporter.db, objects |-> exporter.packed, bad |-> exporter.bad]
  /\ exporter' = NoExport
  /\ UNCHANGED exportOnly

\* An object is missing or corrupt, or what was dumped is gone; the finally clause
\* removes the archive that was begun.
ExportFail ==
  /\ \/ /\ exporter.phase = "validating"
        /\ \/ exporter.todo = {} /\ exporter.home = Absent
           \/ \E c \in exporter.todo :
                ~Found(c) \/ (exporter.deep /\ c \in At(pointer).bad)
     \/ exporter.phase = "packing" /\ \E c \in exporter.todo : ~Found(c)
  /\ exporter' = NoExport
  /\ UNCHANGED <<exportOnly, archive>>

\* _validated_members and _validate_import_layout: nothing is missing or too much.
Importable(a, skip) == a.db = a.objects /\ (skip \/ a.bad = {})

\* Mutant: the target may be the home in use.
ImportOverHome(t, overwrite, skip) ==
  /\ importer.phase = "idle" /\ archive # Absent /\ Importable(archive, skip)
  /\ overwrite \/ disk[t] = Absent
  /\ importer' = [phase |-> IF overwrite THEN "clear" ELSE "place", target |-> t,
                  temp |-> archive]
  /\ Call
  /\ UNCHANGED <<disk, migVars, writer, cleanup, saved, exporter, archive>>

\* The checks of target and archive, and the extraction beside the target.
ImportStart(t, overwrite, skip) ==
  /\ importer.phase = "idle" /\ archive # Absent /\ Importable(archive, skip)
  /\ t # pointer /\ (overwrite \/ disk[t] = Absent)
  /\ importer' = [phase |-> IF overwrite THEN "clear" ELSE "place", target |-> t,
                  temp |-> archive]
  /\ Call
  /\ UNCHANGED <<disk, migVars, writer, cleanup, saved, exporter, archive>>

\* rmtree of the target that overwrite allows.
ImportClear ==
  /\ importer.phase = "clear"
  /\ Remove(importer.target)
  /\ importer' = [importer EXCEPT !.phase = "place"]
  /\ marred' = IF \E m \in Migrators : mig[m].phase = "placed"
                                        /\ mig[m].target = importer.target
               THEN marred \cup {"import"} ELSE marred
  /\ UNCHANGED <<pointer, lock, state, mig, moves, faults, cleanup, saved, calls,
                 archive>>

\* target.rmdir() and os.replace.
ImportPlace ==
  /\ importer.phase = "place" /\ disk[importer.target] = Absent
  /\ disk' = [disk EXCEPT ![importer.target] = importer.temp]
  /\ importer' = NoImport
  /\ UNCHANGED <<migVars, otherVars, exporter, archive>>

\* Something raises: the temporary copy goes, what was cleared does not come back.
ImportFail ==
  /\ importer.phase # "idle"
  /\ IF importer.phase = "place" /\ disk[importer.target] # Absent
     THEN UNCHANGED faults ELSE Fault
  /\ importer' = NoImport
  /\ UNCHANGED <<disk, pointer, lock, state, mig, marred, moves, otherVars, exporter,
                 archive>>

-----------------------------------------------------------------------------
Migration(m) ==
  \/ \E t \in Homes, remove, deep \in BOOLEAN : MigrateStart(m, t, remove, deep)
  \/ TakeLock(m) \/ BeginCopy(m) \/ EndCopy(m) \/ BackupDatabase(m) \/ Verify(m)
  \/ Place(m) \/ Switch(m) \/ RemoveSource(m) \/ Report(m) \/ Release(m)
  \/ FailMigration(m) \/ Die(m)

Snapshot(w) == (\E c \in Contents : Open(w, c)) \/ Store(w) \/ Commit(w)

Cleanup == (\E c \in Contents : CleanRow(c)) \/ CleanCheck \/ CleanObject

Export ==
  \/ \E deep \in BOOLEAN : ExportDb(deep)
  \/ \E c \in Contents : ValidateObject(c) \/ PackObject(c)
  \/ PackDatabase \/ ExportDone \/ ExportFail

Import ==
  \/ \E t \in Homes, overwrite, skip \in BOOLEAN : ImportStart(t, overwrite, skip)
  \/ ImportClear \/ ImportPlace \/ ImportFail

Next ==
  \/ \E t \in Homes : QueueFromUi(t)
  \/ \E m \in Migrators : Migration(m)
  \/ \E w \in Writers : Snapshot(w)
  \/ Cleanup \/ Export \/ Import

Spec == Init /\ [][Next]_vars

-----------------------------------------------------------------------------
\* Types; one migrator at most is past the lock, which is there while it is, and
\* else only where one died or could not remove it; a stage exists from the copy
\* until it is put in its place.
HomeTypeOK ==
  /\ disk \in [Homes -> Vaults \cup {Absent}] /\ pointer \in Homes
  /\ lock \in BOOLEAN /\ marred \subseteq Marks
  /\ saved \subseteq Contents /\ archive \in Vaults \cup {Absent}
  /\ lock => "lock" \in marred \/ \E m \in Migrators : Holding(m)
  /\ \A m \in Migrators : Holding(m) =>
       /\ lock
       /\ \A n \in Migrators \ {m} : ~Holding(n)
       /\ mig[m].stage # Absent <=>
            mig[m].phase \in {"copying", "copied", "backedUp", "verified"}

\* storage.py: "copies and verifies data before switching locations".  Whatever a
\* snapshot, a cleanup, an import or a crash does beside a migration, every
\* version of the vault in use has its object there, whole if the copies were
\* verified deeply, unless a cleanup was
\* between its check and its unlink when the location switched, an import was
\* to replace the home that came into use, or the source was an old home.
ActiveComplete ==
  marred \cap {"stale", "cleanup", "import"} = {} =>
    /\ disk[pointer] # Absent
    /\ disk[pointer].db \subseteq disk[pointer].objects
    /\ "shallow" \notin marred => disk[pointer].db \cap disk[pointer].bad = {}

\* storage.py: what was committed beside no copying migration is in the vault in
\* use after any number of moves, failed moves and crashes, until it is cleaned.
SavedIsKept ==
  marred \cap {"stale", "import"} = {} => saved \subseteq At(pointer).db

\* storage.py: the state file is what the user waits for.  It says complete only
\* of the home in use, and running only while a migrator is, unless one died, was
\* refused by the lock or could not write that it failed.
StateIsTrue ==
  /\ state.status = "complete" => pointer = state.destination
  /\ state.status = "running" =>
       \/ "state" \in marred
       \/ \E m \in Migrators : mig[m].phase # "idle"

\* exporter.py: though its database is dumped first, its objects validated next and
\* packed last, each where the home is by then, and a cleanup, a switch or an import
\* may come between any two of these, a finished archive has an object for every
\* version, so that an import of it is complete.
ArchiveRestores ==
  /\ archive # Absent => archive.db \subseteq archive.objects
  /\ importer.temp # Absent => importer.temp.db \subseteq importer.temp.objects

\* docs/releases/v1.1.0.md:28: "Migration does not compress or discard history".
\* False of the code: the source is read before the lock is taken.
HistoryMoved == "import" \notin marred => saved \subseteq At(pointer).db

\* CHANGELOG.md:19: "Object files are removed only after their final database
\* reference is deleted".  False of the code: between the check and the unlink a
\* migration may switch, and object_path then leads to a home with an older database.
RemovedAfterReference ==
  [][\A h \in Homes : disk[h] # Absent /\ disk'[h] # Absent =>
       disk[h].db \cap (disk[h].objects \ disk'[h].objects) = {}]_vars

\* importer.py:49: "refusing to import into or inside current SAFEVAULT_HOME".  False
\* of the code: the home may become the target before the target is cleared.
ImportSparesHome == [][disk[pointer] # Absent => disk'[pointer] # Absent]_vars
=============================================================================
