------------------------------- MODULE Vault --------------------------------
(***************************************************************************)
(* The heart of SafeVault: the working tree of one protected root, the     *)
(* content-addressed object store, the SQLite database with its single     *)
(* writer lock, and the code that moves content between them:              *)
(*                                                                         *)
(*   - snapshot.create_snapshot, entry by entry, with the stable capture   *)
(*     of a file that may change under it;                                 *)
(*   - retention_cleanup.apply_retention_cleanup, whose database and file  *)
(*     halves are two transactions;                                        *)
(*   - daemon.record_deleted_marker, called by the file watcher.           *)
(*                                                                         *)
(* A snapshot's INSERT opens a transaction that is committed only at its   *)
(* end, so the writer lock is held for the whole walk and `txn', the       *)
(* uncommitted image of the database, belongs to the lock's holder.        *)
(* Everybody else reads the committed image `db'.  Between transactions    *)
(* the two are equal.                                                      *)
(***************************************************************************)
EXTENDS Naturals, FiniteSets

CONSTANTS
  File,          \* relative paths under the root
  Content,       \* what a file can hold; stands for its hash as well
  None,          \* no content (an absent file), no hash, no file
  Cleaners,      \* processes that run retention cleanup
  Observers,     \* watchdog threads that report deletions
  MaxAttempts,   \* capture attempts per entry: max_retries + 1
  MaxEdits,      \* bound: changes made to the working tree
  MaxVersions,   \* bound: highest version id
  MaxSnapshots   \* bound: highest snapshot id

ASSUME NoneIsNoValue == None \notin File \cup Content

ASSUME ProcessesDiffer ==
  /\ Cleaners \cap Observers = {}
  /\ {"free", "snapshot"} \cap Cleaners = {}

ASSUME BoundsAreNaturals ==
  /\ MaxAttempts \in Nat \ {0}
  /\ MaxEdits \in Nat
  /\ MaxVersions \in Nat
  /\ MaxSnapshots \in Nat

VARIABLES
  tree,      \* file -> its content, None when absent
  stamp,     \* file -> the size and mtime lstat reports
  edits,     \* how many changes the user has made: the source of stamps
  held,      \* history: every content a file has had
  events,    \* deletions the watcher has not been told of yet
  objects,   \* the hashes whose object file is in place
  db,        \* the committed database
  txn,       \* the database as its writer sees it
  writer,    \* who holds SQLite's writer lock
  phase,     \* where the snapshot that holds it is
  walk,      \* what that snapshot has visited
  capture,   \* the entry it is capturing
  cleaner,   \* cleaner -> where its run is
  garbage,   \* cleaner -> hashes it set out to reclaim
  noted      \* observer -> the deletion it is about to record

userVars  == <<tree, stamp, edits, held, events>>
cleanVars == <<cleaner, garbage>>
walkVars == <<phase, walk, capture>>
vars == <<tree, stamp, edits, held, events, objects, db, txn, writer, phase,
          walk, capture, cleaner, garbage, noted>>

-----------------------------------------------------------------------------
(* The database.                                                           *)

VersionId  == 1..MaxVersions
SnapshotId == 1..MaxSnapshots

Row == [status : {"none", "active", "deleted"},
        hash   : Content \cup {None},
        stamp  : 0..MaxEdits]

\* A deletion marker is the version without a hash.
Version == [id : VersionId, file : File, snap : SnapshotId,
            hash : Content \cup {None}]

\* started counts on the clock that versions are numbered by.
Snapshot == [id      : SnapshotId,
             started : 1..(MaxVersions + 1),
             status  : {"running", "complete", "failed"},
             point   : {"none", "plain", "important"}]

Database == [files     : [File -> Row],
             versions  : SUBSET Version,
             snapshots : SUBSET Snapshot]

NoRow == [status |-> "none", hash |-> None, stamp |-> 0]

EmptyDatabase == [files     |-> [f \in File |-> NoRow],
                  versions  |-> {},
                  snapshots |-> {}]

\* SQLite gives a new row the highest id in the table plus one.
IsNextId(id, S) ==
  /\ \A r \in S : r.id < id
  /\ id = 1 \/ \E r \in S : r.id + 1 = id

Hashes(S) == {v.hash : v \in {w \in S : w.hash # None}}

Active(d, f) == d.files[f].status = "active"

\* Mutant: the newest version is protected, a deletion marker when there is one.
NewestOfAnyKind(v, S) == \A w \in S : w.file = v.file => w.id <= v.id

\* The version retention protects: the file's last one with content.
NewestContent(v, S) ==
  /\ v.hash # None
  /\ \A w \in S : w.file = v.file /\ w.hash # None => w.id <= v.id

\* Add the version of file f with hash h to the open transaction t.
InsertVersion(t, id, f, s, h) ==
  [t EXCEPT !.versions = @ \cup {[id |-> id, file |-> f, snap |-> s, hash |-> h]}]

\* The row of f becomes deleted and keeps its last hash and stamp.
MarkDeleted(t, id, f, s) ==
  [InsertVersion(t, id, f, s, None) EXCEPT !.files[f].status = "deleted"]

FinishSnapshot(t, s, status, point) ==
  [t EXCEPT !.snapshots =
     {IF r.id = s THEN [r EXCEPT !.status = status, !.point = point] ELSE r
        : r \in @}]

-----------------------------------------------------------------------------
(* The snapshot's walk.                                                    *)

Phases == {"idle", "walk", "stat", "read", "check"}

Walk == [todo      : SUBSET File,            \* where scandir has not been yet
         seen      : SUBSET File,
         skipped   : SUBSET File,            \* there but not captured
         snap      : SnapshotId \cup {0},
         important : BOOLEAN,                \* from the snapshot's reason
         began     : 0..MaxEdits]            \* edits when the walk began

Capture == [file     : File \cup {None},
            attempts : 0..MaxAttempts,
            before   : 0..MaxEdits,          \* stamp at the first lstat
            got      : Content \cup {None}]  \* hash of the bytes read

NoWalk == [todo |-> {}, seen |-> {}, skipped |-> {}, snap |-> 0,
           important |-> FALSE, began |-> 0]

NoCapture == [file |-> None, attempts |-> 0, before |-> 0, got |-> None]

\* Go on to the next entry.
NextEntry == phase' = "walk" /\ capture' = NoCapture

TypeOK ==
  /\ tree \in [File -> Content \cup {None}]
  /\ stamp \in [File -> 0..MaxEdits]
  /\ edits \in 0..MaxEdits
  /\ held \in [File -> SUBSET Content]
  /\ events \in SUBSET File
  /\ objects \in SUBSET Content
  /\ db \in Database
  /\ txn \in Database
  /\ writer \in {"free", "snapshot"} \cup Cleaners
  /\ phase \in Phases
  /\ walk \in Walk
  /\ capture \in Capture
  /\ cleaner \in [Cleaners -> {"idle", "reclaim", "unlink"}]
  /\ garbage \in [Cleaners -> SUBSET Content]
  /\ noted \in [Observers -> File \cup {None}]

-----------------------------------------------------------------------------
(* The user and the programs that work in the folder.                      *)

\* A write gives the file a size and mtime it has not had before.
Edit(f, c) ==
  /\ edits < MaxEdits
  /\ edits' = edits + 1
  /\ tree' = [tree EXCEPT ![f] = c]
  /\ stamp' = [stamp EXCEPT ![f] = edits + 1]
  /\ held' = [held EXCEPT ![f] = @ \cup {c}]
  /\ UNCHANGED <<events, objects, db, txn, writer, walkVars, cleanVars, noted>>

Remove(f) ==
  /\ edits < MaxEdits
  /\ tree[f] # None
  /\ edits' = edits + 1
  /\ tree' = [tree EXCEPT ![f] = None]
  /\ events' = events \cup {f}
  /\ UNCHANGED <<stamp, held, objects, db, txn, writer, walkVars, cleanVars, noted>>

-----------------------------------------------------------------------------
(* create_snapshot.                                                        *)

\* The INSERT into snapshots takes the writer lock, and the walk begins.
BeginSnapshot(important) ==
  /\ writer = "free"
  /\ \E s \in SnapshotId, t \in 1..(MaxVersions + 1) :
       /\ IsNextId(s, db.snapshots)
       /\ IsNextId(t, db.versions)
       /\ txn' = [db EXCEPT !.snapshots = @ \cup
                    {[id |-> s, started |-> t, status |-> "running", point |-> "none"]}]
       /\ walk' = [todo |-> File, seen |-> {}, skipped |-> {}, snap |-> s,
                   important |-> important, began |-> edits]
  /\ writer' = "snapshot"
  /\ phase' = "walk"
  /\ UNCHANGED <<userVars, objects, db, capture, cleanVars, noted>>

\* What scandir does not find, or finds and is gone by its lstat, is not seen,
SkipVanished(f) ==
  /\ phase = "walk"
  /\ f \in walk.todo
  /\ tree[f] = None
  /\ walk' = [walk EXCEPT !.todo = @ \ {f}]
  /\ UNCHANGED <<userVars, objects, db, txn, writer, phase, capture, cleanVars,
                 noted>>

\* and neither is an entry whose directory scandir fails on with OSError.
SkipUnlisted(f) ==
  /\ phase = "walk"
  /\ f \in walk.todo
  /\ tree[f] # None
  /\ walk' = [walk EXCEPT !.todo = @ \ {f}, !.skipped = @ \cup {f}]
  /\ UNCHANGED <<userVars, objects, db, txn, writer, phase, capture, cleanVars,
                 noted>>

\* Visit f, which is then seen and so not taken for deleted.
Visit(f) == [walk EXCEPT !.todo = @ \ {f}, !.seen = @ \cup {f}]

\* PermissionError or OSError from its lstat or readlink.
SkipUnreadable(f) ==
  /\ phase = "walk"
  /\ f \in walk.todo
  /\ tree[f] # None
  /\ walk' = [Visit(f) EXCEPT !.skipped = @ \cup {f}]
  /\ UNCHANGED <<userVars, objects, db, txn, writer, phase, capture, cleanVars,
                 noted>>

\* Mutant: the row's status is not asked for.
UnmodifiedWhateverStatus(f) == txn.files[f].stamp = stamp[f]

\* Same size and mtime as the active row: the content is not read.
Unmodified(f) == Active(txn, f) /\ txn.files[f].stamp = stamp[f]

SkipUnmodified(f) ==
  /\ phase = "walk"
  /\ f \in walk.todo
  /\ tree[f] # None
  /\ Unmodified(f)
  /\ walk' = Visit(f)
  /\ UNCHANGED <<userVars, objects, db, txn, writer, phase, capture, cleanVars,
                 noted>>

VisitModified(f) ==
  /\ phase = "walk"
  /\ f \in walk.todo
  /\ tree[f] # None
  /\ ~Unmodified(f)
  /\ walk' = Visit(f)
  /\ phase' = "stat"
  /\ capture' = [NoCapture EXCEPT !.file = f]
  /\ UNCHANGED <<userVars, objects, db, txn, writer, cleanVars, noted>>

\* capture_entry_stable, returning CaptureFailure("missing").
CaptureMissing(f) ==
  /\ phase \in {"stat", "read", "check"}
  /\ f = capture.file
  /\ tree[f] = None
  /\ walk' = [walk EXCEPT !.seen = @ \ {f}]
  /\ NextEntry
  /\ UNCHANGED <<userVars, objects, db, txn, writer, cleanVars, noted>>

\* CaptureFailure("unreadable") or ("unstable") from an OSError.
CaptureUnreadable ==
  /\ phase \in {"stat", "read", "check"}
  /\ walk' = [walk EXCEPT !.skipped = @ \cup {capture.file}]
  /\ NextEntry
  /\ UNCHANGED <<userVars, objects, db, txn, writer, cleanVars, noted>>

StatBefore ==
  /\ phase = "stat"
  /\ tree[capture.file] # None
  /\ phase' = "read"
  /\ capture' = [capture EXCEPT !.attempts = @ + 1,
                               !.before = stamp[capture.file]]
  /\ UNCHANGED <<userVars, objects, db, txn, writer, walk, cleanVars, noted>>

\* store_file copies and hashes the bytes, then puts the object in place
\* unless a valid one is there.  When the file was written to since the first
\* lstat the bytes read are any mixture, and are stored all the same.  (The
\* payload of a symbolic link is stored only after the check: fewer orphans.)
StoreObject ==
  LET f == capture.file IN
  /\ phase = "read"
  /\ tree[f] # None
  /\ \E c \in Content :
       /\ stamp[f] = capture.before => c = tree[f]
       /\ objects' = objects \cup {c}
       /\ capture' = [capture EXCEPT !.got = c]
  /\ phase' = "check"
  /\ UNCHANGED <<userVars, db, txn, writer, walk, cleanVars, noted>>

\* Mutant: the retry count is off by one.
CaptureAgainOnceMore ==
  LET f == capture.file IN
  /\ phase = "check"
  /\ tree[f] # None
  /\ stamp[f] # capture.before
  /\ capture.attempts <= MaxAttempts
  /\ phase' = "stat"
  /\ UNCHANGED <<userVars, objects, db, txn, writer, walk, capture, cleanVars,
                 noted>>

\* Mutant: the retry looks at the file again and does not read it again.
CaptureAgainUnread ==
  LET f == capture.file IN
  /\ phase = "check"
  /\ tree[f] # None
  /\ stamp[f] # capture.before
  /\ capture.attempts < MaxAttempts
  /\ capture' = [capture EXCEPT !.attempts = @ + 1, !.before = stamp[f]]
  /\ UNCHANGED <<userVars, objects, db, txn, writer, phase, walk, cleanVars,
                 noted>>

\* The second lstat differs from the first: another attempt ...
CaptureAgain ==
  LET f == capture.file IN
  /\ phase = "check"
  /\ tree[f] # None
  /\ stamp[f] # capture.before
  /\ capture.attempts < MaxAttempts
  /\ phase' = "stat"
  /\ UNCHANGED <<userVars, objects, db, txn, writer, walk, capture, cleanVars,
                 noted>>

\* ... or CaptureFailure("unstable") after the last one.
CaptureUnstable ==
  LET f == capture.file IN
  /\ phase = "check"
  /\ tree[f] # None
  /\ stamp[f] # capture.before
  /\ capture.attempts = MaxAttempts
  /\ walk' = [walk EXCEPT !.skipped = @ \cup {f}]
  /\ NextEntry
  /\ UNCHANGED <<userVars, objects, db, txn, writer, cleanVars, noted>>

\* Mutant: a deleted row with the same hash is taken for unchanged.
RecordCaptureWhateverStatus(t, f, h, st, s, id) ==
  LET t2 == [t EXCEPT !.files[f] = [status |-> "active", hash |-> h, stamp |-> st]]
  IN  IF t.files[f].hash = h THEN t2 ELSE InsertVersion(t2, id, f, s, h)

\* The transaction t after _upsert_file, and _insert_version unless the active
\* row has that hash already.
RecordCapture(t, f, h, st, s, id) ==
  LET row == [status |-> "active", hash |-> h, stamp |-> st]
      t2  == [t EXCEPT !.files[f] = row]
  IN  IF Active(t, f) /\ t.files[f].hash = h
      THEN t2
      ELSE InsertVersion(t2, id, f, s, h)

\* Mutant: the second lstat is not compared with the first.
CaptureUnchecked ==
  /\ phase = "check"
  /\ tree[capture.file] # None
  /\ \E id \in VersionId :
       /\ IsNextId(id, txn.versions)
       /\ txn' = RecordCapture(txn, capture.file, capture.got,
                               stamp[capture.file], walk.snap, id)
  /\ NextEntry
  /\ UNCHANGED <<userVars, objects, db, writer, walk, cleanVars, noted>>

CaptureStable ==
  LET f == capture.file IN
  /\ phase = "check"
  /\ tree[f] # None
  /\ stamp[f] = capture.before
  /\ \E id \in VersionId :
       /\ IsNextId(id, txn.versions)
       /\ txn' = RecordCapture(txn, f, capture.got, stamp[f], walk.snap, id)
  /\ NextEntry
  /\ UNCHANGED <<userVars, objects, db, writer, walk, cleanVars, noted>>

\* After the walk, every active file it has not seen is marked deleted.
Missing(f) == Active(txn, f) /\ f \notin walk.seen

MarkMissing(f) ==
  /\ phase = "walk"
  /\ walk.todo = {}
  /\ Missing(f)
  /\ \E id \in VersionId :
       /\ IsNextId(id, txn.versions)
       /\ txn' = MarkDeleted(txn, id, f, walk.snap)
  /\ UNCHANGED <<userVars, objects, db, writer, walkVars, cleanVars, noted>>

\* Commit d and let go of the lock.
Commit(d) ==
  /\ db' = d
  /\ txn' = d
  /\ writer' = "free"
  /\ phase' = "idle"
  /\ walk' = NoWalk
  /\ capture' = NoCapture

CommitSnapshot ==
  /\ phase = "walk"
  /\ walk.todo = {}
  /\ \A f \in File : ~Missing(f)
  /\ Commit(FinishSnapshot(txn, walk.snap, "complete",
                           IF walk.important THEN "important" ELSE "plain"))
  /\ UNCHANGED <<userVars, objects, cleanVars, noted>>

\* The except clause commits whatever the walk had recorded so far.
FailSnapshot ==
  /\ writer = "snapshot"
  /\ Commit(FinishSnapshot(txn, walk.snap, "failed", "none"))
  /\ UNCHANGED <<userVars, objects, cleanVars, noted>>

\* The process dies: SQLite rolls back, the objects it stored stay.
CrashSnapshot ==
  /\ writer = "snapshot"
  /\ Commit(db)
  /\ UNCHANGED <<userVars, objects, cleanVars, noted>>

-----------------------------------------------------------------------------
(* Retention cleanup.                                                      *)

\* Mutants: the newest content, or the important points, are not protected.
CandidatesWithNewest(d, cutoff) ==
  {v \in d.versions :
     /\ v.hash # None
     /\ \A s \in d.snapshots : s.id = v.snap => s.point # "important"
     /\ v.id < cutoff}

CandidatesOfPoints(d, cutoff) ==
  {v \in d.versions :
     /\ v.hash # None
     /\ ~NewestContent(v, d.versions)
     /\ v.id < cutoff}

\* _build_retention_plan: what is older than the cutoff and not protected.  The two
\* snapshots that an AI session names are protected once more for that; their reasons
\* make them important points in the first place (snapshot.py:459-463).
CandidateVersions(d, cutoff) ==
  {v \in d.versions :
     /\ v.hash # None
     /\ ~NewestContent(v, d.versions)
     /\ \A s \in d.snapshots : s.id = v.snap => s.point # "important"
     /\ v.id < cutoff}

\* Mutant: one version to delete is enough to delete its snapshot.
SnapshotsOfAny(d, cutoff) ==
  {s \in d.snapshots :
     /\ s.point # "important"
     /\ s.started < cutoff
     /\ \E v \in CandidateVersions(d, cutoff) : v.snap = s.id}

CandidateSnapshots(d, cutoff) ==
  {s \in d.snapshots :
     LET own == {v \in d.versions : v.snap = s.id} IN
     /\ s.point # "important"
     /\ s.started < cutoff
     /\ own # {}
     /\ own \subseteq CandidateVersions(d, cutoff)}

Pruned(d, cutoff) ==
  [d EXCEPT !.versions  = @ \ CandidateVersions(d, cutoff),
            !.snapshots = @ \ CandidateSnapshots(d, cutoff)]

\* The first transaction deletes the rows; the hashes that lost their last
\* reference are carried over to the second.
ApplyPlan(c, cutoff) ==
  LET d    == Pruned(db, cutoff)
      lost == Hashes(db.versions) \ Hashes(d.versions)
  IN
  /\ writer = "free"
  /\ cleaner[c] = "idle"
  /\ db' = d
  /\ txn' = d
  /\ garbage' = [garbage EXCEPT ![c] = lost]
  /\ cleaner' = [cleaner EXCEPT ![c] = IF lost = {} THEN "idle" ELSE "reclaim"]
  /\ UNCHANGED <<userVars, objects, writer, walkVars, noted>>

\* Mutant: the second transaction trusts the list of the first.
LockWithoutRecheck(c) ==
  /\ writer = "free"
  /\ cleaner[c] = "reclaim"
  /\ writer' = c
  /\ cleaner' = [cleaner EXCEPT ![c] = "unlink"]
  /\ UNCHANGED <<userVars, objects, db, txn, walkVars, garbage, noted>>

\* The second transaction takes the lock again and drops from the list what
\* has been referenced since.
LockAndRecheck(c) ==
  /\ writer = "free"
  /\ cleaner[c] = "reclaim"
  /\ writer' = c
  /\ cleaner' = [cleaner EXCEPT ![c] = "unlink"]
  /\ garbage' = [garbage EXCEPT ![c] = @ \ Hashes(db.versions)]
  /\ UNCHANGED <<userVars, objects, db, txn, walkVars, noted>>

\* An unlink that fails with OSError leaves the object and goes on.
Unlink(c, h) ==
  /\ cleaner[c] = "unlink"
  /\ h \in garbage[c]
  /\ objects' \in {objects, objects \ {h}}
  /\ garbage' = [garbage EXCEPT ![c] = @ \ {h}]
  /\ UNCHANGED <<userVars, db, txn, writer, walkVars, cleaner, noted>>

FinishCleanup(c) ==
  /\ cleaner[c] = "unlink"
  /\ garbage[c] = {}
  /\ cleaner' = [cleaner EXCEPT ![c] = "idle"]
  /\ writer' = "free"
  /\ UNCHANGED <<userVars, objects, db, txn, walkVars, garbage, noted>>

\* Between the transactions or inside the second one: the process dies, or the
\* lock stays busy past its timeout.  The objects not yet removed are orphans.
AbandonCleanup(c) ==
  /\ cleaner[c] # "idle"
  /\ cleaner' = [cleaner EXCEPT ![c] = "idle"]
  /\ garbage' = [garbage EXCEPT ![c] = {}]
  /\ writer' = IF writer = c THEN "free" ELSE writer
  /\ UNCHANGED <<userVars, objects, db, txn, walkVars, noted>>

-----------------------------------------------------------------------------
(* record_deleted_marker, on the observer's thread.                        *)

\* The SELECT that finds the active row runs outside any transaction.
FindActiveRow(o, f) ==
  /\ noted[o] = None
  /\ f \in events
  /\ events' = events \ {f}
  /\ noted' = [noted EXCEPT ![o] = IF Active(db, f) THEN f ELSE None]
  /\ UNCHANGED <<tree, stamp, edits, held, objects, db, txn, writer, walkVars,
                 cleanVars>>

\* The first INSERT waits for the writer lock; one commit ends it.
WriteMarker(o) ==
  LET f == noted[o] IN
  /\ f # None
  /\ writer = "free"
  /\ \E s \in SnapshotId, id \in VersionId :
       /\ IsNextId(s, db.snapshots)
       /\ IsNextId(id, db.versions)
       /\ LET snap == [id |-> s, started |-> id, status |-> "complete",
                       point |-> "plain"]
              d == [MarkDeleted(db, id, f, s) EXCEPT !.snapshots = @ \cup {snap}]
          IN  db' = d /\ txn' = d
  /\ noted' = [noted EXCEPT ![o] = None]
  /\ UNCHANGED <<userVars, objects, writer, walkVars, cleanVars>>

\* Locked: once more from the start ...
RetryMarker(o) ==
  /\ noted[o] # None
  /\ writer # "free"
  /\ events' = events \cup {noted[o]}
  /\ noted' = [noted EXCEPT ![o] = None]
  /\ UNCHANGED <<tree, stamp, edits, held, objects, db, txn, writer, walkVars,
                 cleanVars>>

\* ... or for the second time: left to the next snapshot.
LeaveToSnapshot(o) ==
  /\ noted[o] # None
  /\ writer # "free"
  /\ noted' = [noted EXCEPT ![o] = None]
  /\ UNCHANGED <<userVars, objects, db, txn, writer, walkVars, cleanVars>>

-----------------------------------------------------------------------------
Init ==
  /\ tree = [f \in File |-> None]
  /\ stamp = [f \in File |-> 0]
  /\ edits = 0
  /\ held = [f \in File |-> {}]
  /\ events = {}
  /\ objects = {}
  /\ db = EmptyDatabase
  /\ txn = EmptyDatabase
  /\ writer = "free"
  /\ phase = "idle"
  /\ walk = NoWalk
  /\ capture = NoCapture
  /\ cleaner = [c \in Cleaners |-> "idle"]
  /\ garbage = [c \in Cleaners |-> {}]
  /\ noted = [o \in Observers |-> None]

UserNext == \E f \in File : Remove(f) \/ \E c \in Content : Edit(f, c)

SnapshotNext ==
  \/ \E important \in BOOLEAN : BeginSnapshot(important)
  \/ \E f \in File :
       \/ SkipVanished(f)
       \/ SkipUnlisted(f)
       \/ SkipUnreadable(f)
       \/ SkipUnmodified(f)
       \/ VisitModified(f)
       \/ CaptureMissing(f)
       \/ MarkMissing(f)
  \/ CaptureUnreadable
  \/ StatBefore
  \/ StoreObject
  \/ CaptureAgain
  \/ CaptureUnstable
  \/ CaptureStable
  \/ CommitSnapshot
  \/ FailSnapshot
  \/ CrashSnapshot

CleanupNext ==
  \E c \in Cleaners :
    \/ \E cutoff \in 1..(MaxVersions + 1) : ApplyPlan(c, cutoff)
    \/ LockAndRecheck(c)
    \/ \E h \in Content : Unlink(c, h)
    \/ FinishCleanup(c)
    \/ AbandonCleanup(c)

ObserverNext ==
  \E o \in Observers :
    \/ \E f \in File : FindActiveRow(o, f)
    \/ WriteMarker(o)
    \/ RetryMarker(o)
    \/ LeaveToSnapshot(o)

Next == UserNext \/ SnapshotNext \/ CleanupNext \/ ObserverNext

Spec == Init /\ [][Next]_vars

-----------------------------------------------------------------------------
(* Safety.                                                                 *)

\* Every version a user can see in the database has its bytes in the object
\* store: the reason the object file is put in place before the row is written
\* and unlinked under the writer lock only after the row is gone.
Recoverable == Hashes(db.versions) \subseteq objects

\* The row of a tracked file, deleted or not, carries the hash of that file's
\* newest version with content; cleanup never takes the version it stands on.
CurrentContentKept ==
  \A f \in File : db.files[f].status # "none" =>
    \E v \in db.versions : /\ v.file = f
                           /\ v.hash = db.files[f].hash
                           /\ NewestContent(v, db.versions)

\* A file counts as deleted exactly when the last thing recorded of it is a
\* deletion marker, whichever of snapshot and watcher recorded it.
StatusMatchesHistory ==
  \A v \in db.versions :
    (\A w \in db.versions : w.file = v.file => w.id <= v.id) =>
      (v.hash = None <=> db.files[v.file].status = "deleted")

\* The snapshot of every version is in the table: cleanup removes a snapshot
\* only with all its versions, or the foreign key would refuse the whole plan.
SnapshotsKept ==
  \A v \in db.versions : \E s \in db.snapshots : s.id = v.snap

\* A version holds what its file held at some moment, never a mixture of two
\* writes: capture_entry_stable discards what it read between unequal lstats.
NoTornVersion ==
  \A v \in db.versions : v.hash # None => v.hash \in held[v.file]

\* The size-and-mtime shortcut never hides a change: an active row with the
\* stamp of the file has the content of the file.
ShortcutSound ==
  \A f \in File :
    Active(db, f) /\ tree[f] # None /\ db.files[f].stamp = stamp[f]
      => db.files[f].hash = tree[f]

-----------------------------------------------------------------------------
(* What a step may never do.                                               *)

Completes ==
  writer = "snapshot" /\ \E s \in db'.snapshots :
                            s.id = walk.snap /\ s.status = "complete"

\* A snapshot that completes while nobody touched the folder leaves the rows
\* in agreement with it, except for entries it could not read.
CompleteSnapshotMatchesTree ==
  [][Completes /\ walk.began = edits =>
       \A f \in File \ walk.skipped :
         /\ Active(db', f) <=> tree[f] # None
         /\ tree[f] # None => db'.files[f].hash = tree[f]]_vars

\* What the stability tests say of an unreadable file: an entry that was there
\* all along is not marked deleted by the snapshot that could not read it.
PresentFileNotMarkedDeleted ==
  [][\A f \in File :
       writer = "snapshot" /\ walk.began = edits /\ tree[f] # None /\ Active(txn, f)
         => txn'.files[f].status # "deleted"]_vars

\* An important restore point stays, with every version it recorded.
RestorePointKept ==
  [][\A s \in db.snapshots : s.point = "important" =>
       /\ s \in db'.snapshots
       /\ \A v \in db.versions : v.snap = s.id => v \in db'.versions]_vars

\* SQLite gives the highest id out again once its row is gone, and versions and
\* snapshots are named by their ids in restore commands and in the UI.  No step
\* removes the highest row, so no id ever comes to mean something else.
IdsNotReused ==
  [][/\ \A v \in db.versions : \E w \in db'.versions : v.id <= w.id
     /\ \A s \in db.snapshots : \E r \in db'.snapshots : s.id <= r.id]_vars

\* The version of f that was current when snapshot s was taken.
IsCurrentAt(v, f, s, S) ==
  /\ v.file = f /\ v.snap <= s
  /\ \A w \in S : w.file = f /\ w.snap <= s => w.id <= v.id

\* What the user guide promises of an important restore point: the content of
\* every file at that point can still be restored.  A snapshot records only
\* the files that changed since the one before, so this asks cleanup to keep
\* versions of earlier snapshots too.
RestorePointContentKept ==
  [][\A s \in db.snapshots, v \in db.versions :
       /\ s.point = "important"
       /\ v.hash # None
       /\ IsCurrentAt(v, v.file, s.id, db.versions)
       => v \in db'.versions]_vars

\* The vault implements the abstract history of restorable versions.
Restorable == {v \in db.versions : v.hash = None \/ v.hash \in objects}

Promise == INSTANCE History WITH history <- Restorable

HistorySpec == Promise!Spec
=============================================================================
