---------------------------- MODULE VaultProofs -----------------------------
(***************************************************************************)
(* Proofs about module Vault, for every number of files, contents,         *)
(* cleaners and observers and for every value of the bounds.               *)
(***************************************************************************)
EXTENDS Vault, TLAPS

\* What the phase of a snapshot says of its walk and its capture.
WalkOK ==
  /\ phase # "idle" => walk.snap \in SnapshotId
  /\ phase \in {"stat", "read", "check"} => capture.file \in File
  /\ phase = "stat" => capture.attempts < MaxAttempts
  /\ phase = "check" => capture.got \in Content

TypeInv == TypeOK /\ WalkOK

-----------------------------------------------------------------------------
(* The operators on databases keep their type.                             *)

LEMMA InsertVersionType ==
  ASSUME NEW t \in Database, NEW id \in VersionId, NEW f \in File,
         NEW s \in SnapshotId, NEW h \in Content \cup {None}
  PROVE  /\ InsertVersion(t, id, f, s, h) \in Database
         /\ InsertVersion(t, id, f, s, h).files = t.files
         /\ InsertVersion(t, id, f, s, h).snapshots = t.snapshots
         /\ InsertVersion(t, id, f, s, h).versions =
              t.versions \cup {[id |-> id, file |-> f, snap |-> s, hash |-> h]}
  BY DEF InsertVersion, Database, Version

LEMMA MarkDeletedType ==
  ASSUME NEW t \in Database, NEW id \in VersionId, NEW f \in File,
         NEW s \in SnapshotId
  PROVE  /\ MarkDeleted(t, id, f, s) \in Database
         /\ MarkDeleted(t, id, f, s).files =
              [t.files EXCEPT ![f].status = "deleted"]
         /\ MarkDeleted(t, id, f, s).snapshots = t.snapshots
         /\ MarkDeleted(t, id, f, s).versions =
              t.versions \cup {[id |-> id, file |-> f, snap |-> s, hash |-> None]}
<1> DEFINE u == InsertVersion(t, id, f, s, None)
<1>1. /\ u \in Database
      /\ u.files = t.files
      /\ u.snapshots = t.snapshots
      /\ u.versions = t.versions \cup
                        {[id |-> id, file |-> f, snap |-> s, hash |-> None]}
  BY InsertVersionType
<1>2. [u.files EXCEPT ![f].status = "deleted"] \in [File -> Row]
  BY <1>1 DEF Database, Row
<1>3. MarkDeleted(t, id, f, s) = [u EXCEPT !.files[f].status = "deleted"]
  BY DEF MarkDeleted
<1> HIDE DEF u
<1>4. QED
  BY <1>1, <1>2, <1>3 DEF Database

LEMMA FinishSnapshotType ==
  ASSUME NEW t \in Database, NEW s \in SnapshotId,
         NEW status \in {"running", "complete", "failed"},
         NEW point \in {"none", "plain", "important"}
  PROVE  /\ FinishSnapshot(t, s, status, point) \in Database
         /\ FinishSnapshot(t, s, status, point).files = t.files
         /\ FinishSnapshot(t, s, status, point).versions = t.versions
<1> DEFINE S == {IF r.id = s THEN [r EXCEPT !.status = status, !.point = point]
                 ELSE r : r \in t.snapshots}
<1>1. ASSUME NEW r \in t.snapshots
      PROVE  (IF r.id = s THEN [r EXCEPT !.status = status, !.point = point]
              ELSE r) \in Snapshot
  BY DEF Database, Snapshot
<1>2. S \in SUBSET Snapshot
  BY <1>1
<1>3. FinishSnapshot(t, s, status, point) = [t EXCEPT !.snapshots = S]
  BY DEF FinishSnapshot
<1> HIDE DEF S
<1>4. QED
  BY <1>2, <1>3 DEF Database

LEMMA RecordCaptureType ==
  ASSUME NEW t \in Database, NEW f \in File, NEW h \in Content,
         NEW st \in 0..MaxEdits, NEW s \in SnapshotId, NEW id \in VersionId
  PROVE  LET new == [id |-> id, file |-> f, snap |-> s, hash |-> h]
             row == [status |-> "active", hash |-> h, stamp |-> st]
             t2  == RecordCapture(t, f, h, st, s, id)
         IN  /\ t2 \in Database
             /\ t2.files = [t.files EXCEPT ![f] = row]
             /\ t2.snapshots = t.snapshots
             /\ IF Active(t, f) /\ t.files[f].hash = h
                THEN t2.versions = t.versions
                ELSE t2.versions = t.versions \cup {new}
<1> DEFINE row == [status |-> "active", hash |-> h, stamp |-> st]
           t2  == [t EXCEPT !.files[f] = row]
<1>1. row \in Row
  BY DEF Row
<1>2. /\ t2 \in Database
      /\ t2.files = [t.files EXCEPT ![f] = row]
      /\ t2.snapshots = t.snapshots
      /\ t2.versions = t.versions
  BY <1>1 DEF Database
<1>3. RecordCapture(t, f, h, st, s, id) =
        IF Active(t, f) /\ t.files[f].hash = h
        THEN t2 ELSE InsertVersion(t2, id, f, s, h)
  BY DEF RecordCapture
<1> HIDE DEF t2
<1>4. CASE Active(t, f) /\ t.files[f].hash = h
  BY <1>2, <1>3, <1>4
<1>5. CASE ~(Active(t, f) /\ t.files[f].hash = h)
  BY <1>2, <1>3, <1>5, InsertVersionType
<1>6. QED
  BY <1>4, <1>5

LEMMA PrunedType ==
  ASSUME NEW d \in Database, NEW cutoff
  PROVE  /\ Pruned(d, cutoff) \in Database
         /\ Pruned(d, cutoff).files = d.files
         /\ Pruned(d, cutoff).versions = d.versions \ CandidateVersions(d, cutoff)
         /\ Pruned(d, cutoff).snapshots = d.snapshots \ CandidateSnapshots(d, cutoff)
  BY DEF Pruned, Database

-----------------------------------------------------------------------------
(* Type correctness.                                                       *)

LEMMA NoWalkType == NoWalk \in Walk /\ NoCapture \in Capture
  BY BoundsAreNaturals DEF NoWalk, Walk, NoCapture, Capture

LEMMA EmptyDatabaseType == EmptyDatabase \in Database
  BY BoundsAreNaturals DEF EmptyDatabase, Database, NoRow, Row

LEMMA InitType == Init => TypeInv
<1> SUFFICES ASSUME Init PROVE TypeInv
  OBVIOUS
<1>1. 0 \in 0..MaxEdits
  BY BoundsAreNaturals
<1>2. TypeOK
  BY <1>1, NoWalkType, EmptyDatabaseType DEF Init, TypeOK, Phases
<1>3. WalkOK
  BY DEF Init, WalkOK
<1>4. QED
  BY <1>2, <1>3 DEF TypeInv

\* The steps of the user: the folder changes, nothing else does.
LEMMA UserType == TypeInv /\ UserNext => TypeInv'
<1> SUFFICES ASSUME TypeInv, UserNext PROVE TypeInv'
  OBVIOUS
<1> USE DEF TypeInv, TypeOK, WalkOK
<1>1. ASSUME NEW f \in File, NEW c \in Content, Edit(f, c)
      PROVE  TypeInv'
  BY <1>1, BoundsAreNaturals DEF Edit, walkVars, cleanVars
<1>2. ASSUME NEW f \in File, Remove(f)
      PROVE  TypeInv'
  BY <1>2, BoundsAreNaturals DEF Remove, walkVars, cleanVars
<1>3. QED
  BY <1>1, <1>2 DEF UserNext

LEMMA BeginSnapshotType ==
  ASSUME TypeInv, NEW important \in BOOLEAN, BeginSnapshot(important)
  PROVE  TypeInv'
<1> USE DEF TypeInv, TypeOK
<1>1. PICK s \in SnapshotId, t \in 1..(MaxVersions + 1) :
        /\ txn' = [db EXCEPT !.snapshots = @ \cup
             {[id |-> s, started |-> t, status |-> "running", point |-> "none"]}]
        /\ walk' = [todo |-> File, seen |-> {}, skipped |-> {}, snap |-> s,
                    important |-> important, began |-> edits]
  BY DEF BeginSnapshot
<1>2. [id |-> s, started |-> t, status |-> "running", point |-> "none"] \in Snapshot
  BY DEF Snapshot
<1>3. txn' \in Database
  BY <1>1, <1>2 DEF Database
<1>4. walk' \in Walk /\ walk'.snap = s
  BY <1>1 DEF Walk
<1>5. phase' = "walk"
  BY DEF BeginSnapshot
<1>6. QED
  BY <1>3, <1>4, <1>5 DEF BeginSnapshot, userVars, cleanVars, WalkOK, Phases

\* The steps of the walk that leave the database and the objects alone.
WalkStep ==
  \/ \E f \in File : \/ SkipVanished(f)
                     \/ SkipUnlisted(f)
                     \/ SkipUnreadable(f)
                     \/ SkipUnmodified(f)
                     \/ VisitModified(f)
                     \/ CaptureMissing(f)
  \/ CaptureUnreadable
  \/ StatBefore
  \/ CaptureAgain
  \/ CaptureUnstable

LEMMA WalkStepFrame ==
  WalkStep => /\ UNCHANGED <<userVars, objects, db, txn, writer, cleanVars, noted>>
              /\ phase # "idle"
              /\ phase' \in {"walk", "stat", "read"}
              /\ phase' = "read" => phase = "stat"
  BY DEF WalkStep, SkipVanished, SkipUnlisted, SkipUnreadable, SkipUnmodified,
         VisitModified, CaptureMissing, CaptureUnreadable, StatBefore, CaptureAgain,
         CaptureUnstable, NextEntry

LEMMA WalkStepType == TypeInv /\ WalkStep => TypeInv'
<1> SUFFICES ASSUME TypeInv, WalkStep PROVE TypeInv'
  OBVIOUS
<1> DEFINE Goal == /\ walk' \in Walk
                   /\ capture' \in Capture
                   /\ WalkOK'
<1> USE NoWalkType DEF TypeInv, TypeOK, WalkOK, NextEntry
<1>1. ASSUME NEW f \in File PROVE Visit(f) \in Walk /\ Visit(f).snap = walk.snap
  BY DEF Visit, Walk
<1>2. ASSUME NEW f \in File, SkipVanished(f) PROVE Goal
  BY <1>2 DEF SkipVanished, Walk
<1>11. ASSUME NEW f \in File, SkipUnlisted(f) PROVE Goal
  <2>1. [walk EXCEPT !.todo = walk.todo \ {f},
                     !.skipped = walk.skipped \cup {f}] \in Walk
    BY DEF Walk
  <2>2. walk' \in Walk /\ walk'.snap = walk.snap
    BY <1>11, <2>1 DEF SkipUnlisted, Walk
  <2>3. QED
    BY <1>11, <2>2 DEF SkipUnlisted
<1>3. ASSUME NEW f \in File, SkipUnreadable(f) PROVE Goal
  BY <1>1, <1>3 DEF SkipUnreadable, Walk
<1>4. ASSUME NEW f \in File, SkipUnmodified(f) PROVE Goal
  BY <1>1, <1>4 DEF SkipUnmodified
<1>5. ASSUME NEW f \in File, VisitModified(f) PROVE Goal
  BY <1>1, <1>5, BoundsAreNaturals DEF VisitModified, NoCapture, Capture
<1>6. ASSUME NEW f \in File, CaptureMissing(f) PROVE Goal
  BY <1>6 DEF CaptureMissing, Walk
<1>7. ASSUME CaptureUnreadable PROVE Goal
  BY <1>7 DEF CaptureUnreadable, Walk
<1>8. ASSUME StatBefore PROVE Goal
  <2>1. /\ capture.file \in File
        /\ stamp[capture.file] \in 0..MaxEdits
        /\ capture.attempts + 1 \in 0..MaxAttempts
    BY <1>8, BoundsAreNaturals DEF StatBefore, Capture
  <2>2. capture' \in Capture /\ capture'.file = capture.file
    BY <1>8, <2>1 DEF StatBefore, Capture
  <2>3. QED
    BY <1>8, <2>1, <2>2 DEF StatBefore
<1>9. ASSUME CaptureAgain PROVE Goal
  BY <1>9 DEF CaptureAgain
<1>10. ASSUME CaptureUnstable PROVE Goal
  BY <1>10 DEF CaptureUnstable, Walk
<1>12. Goal
  BY <1>2, <1>3, <1>4, <1>5, <1>6, <1>7, <1>8, <1>9, <1>10, <1>11 DEF WalkStep
<1>13. QED
  BY <1>12, WalkStepFrame DEF userVars, cleanVars, Phases

LEMMA StoreObjectType == TypeInv /\ StoreObject => TypeInv'
<1> SUFFICES ASSUME TypeInv, StoreObject PROVE TypeInv'
  OBVIOUS
<1> USE DEF TypeInv, TypeOK
<1>1. PICK c \in Content : /\ objects' = objects \cup {c}
                           /\ capture' = [capture EXCEPT !.got = c]
  BY DEF StoreObject
<1>2. capture' \in Capture /\ capture'.file = capture.file /\ capture'.got = c
  BY <1>1 DEF Capture
<1>3. QED
  BY <1>1, <1>2 DEF StoreObject, userVars, cleanVars, WalkOK, Phases

LEMMA CaptureStableType == TypeInv /\ CaptureStable => TypeInv'
<1> SUFFICES ASSUME TypeInv, CaptureStable PROVE TypeInv'
  OBVIOUS
<1> USE DEF TypeInv, TypeOK
<1>1. PICK id \in VersionId :
        txn' = RecordCapture(txn, capture.file, capture.got,
                             stamp[capture.file], walk.snap, id)
  BY DEF CaptureStable
<1>2. /\ capture.file \in File
      /\ capture.got \in Content
      /\ walk.snap \in SnapshotId
      /\ stamp[capture.file] \in 0..MaxEdits
  BY DEF CaptureStable, WalkOK
<1>3. txn' \in Database
  BY <1>1, <1>2, RecordCaptureType
<1>4. QED
  BY <1>3, NoWalkType
     DEF CaptureStable, NextEntry, userVars, cleanVars, WalkOK, Phases

LEMMA MarkMissingType ==
  ASSUME TypeInv, NEW f \in File, MarkMissing(f)
  PROVE  TypeInv'
<1> USE DEF TypeInv, TypeOK
<1>1. PICK id \in VersionId : txn' = MarkDeleted(txn, id, f, walk.snap)
  BY DEF MarkMissing
<1>2. txn' \in Database
  BY <1>1, MarkDeletedType DEF MarkMissing, WalkOK
<1>3. QED
  BY <1>2 DEF MarkMissing, userVars, walkVars, cleanVars, WalkOK

\* A commit of a well-typed image ends the snapshot.
LEMMA CommitType ==
  ASSUME TypeInv, NEW d \in Database, Commit(d),
         UNCHANGED <<userVars, objects, cleanVars, noted>>
  PROVE  TypeInv'
  BY NoWalkType DEF Commit, TypeInv, TypeOK, WalkOK, Phases, userVars, cleanVars

\* Who holds the lock: the phase says whether a snapshot does, the state of a
\* cleaner whether it does; nobody else has an uncommitted image.
LockInv ==
  /\ writer = "snapshot" <=> phase # "idle"
  /\ \A c \in Cleaners : writer = c <=> cleaner[c] = "unlink"
  /\ phase = "idle" => txn = db

EndSnapshot == CommitSnapshot \/ FailSnapshot \/ CrashSnapshot

\* However a snapshot ends, what it commits is its own image or nothing.
LEMMA EndSnapshotStep ==
  ASSUME TypeInv, LockInv, EndSnapshot
  PROVE  /\ phase # "idle"
         /\ UNCHANGED <<userVars, objects, cleanVars, noted>>
         /\ \E d \in Database :
              /\ Commit(d)
              /\ d.versions \in {db.versions, txn.versions}
<1> USE DEF TypeInv, TypeOK, LockInv
<1>1. phase # "idle" /\ walk.snap \in SnapshotId
  BY DEF EndSnapshot, CommitSnapshot, FailSnapshot, CrashSnapshot, WalkOK
<1>2. CASE CommitSnapshot
  <2> DEFINE p == IF walk.important THEN "important" ELSE "plain"
             d == FinishSnapshot(txn, walk.snap, "complete", p)
  <2>1. p \in {"none", "plain", "important"}
    OBVIOUS
  <2> HIDE DEF p
  <2>2. d \in Database /\ d.versions = txn.versions
    BY <1>1, <2>1, FinishSnapshotType
  <2>3. Commit(d) /\ UNCHANGED <<userVars, objects, cleanVars, noted>>
    BY <1>2 DEF CommitSnapshot, p
  <2> HIDE DEF d
  <2>4. QED
    BY <1>1, <2>2, <2>3
<1>3. CASE FailSnapshot
  <2> DEFINE d == FinishSnapshot(txn, walk.snap, "failed", "none")
  <2>1. d \in Database /\ d.versions = txn.versions
    BY <1>1, FinishSnapshotType
  <2>2. Commit(d) /\ UNCHANGED <<userVars, objects, cleanVars, noted>>
    BY <1>3 DEF FailSnapshot
  <2> HIDE DEF d
  <2>3. QED
    BY <1>1, <2>1, <2>2
<1>4. CASE CrashSnapshot
  BY <1>1, <1>4 DEF CrashSnapshot
<1>5. QED
  BY <1>2, <1>3, <1>4 DEF EndSnapshot

LEMMA EndSnapshotType ==
  ASSUME TypeInv, LockInv, EndSnapshot
  PROVE  TypeInv'
<1>1. PICK d \in Database : Commit(d)
  BY EndSnapshotStep
<1>2. QED
  BY <1>1, EndSnapshotStep, CommitType

LEMMA ApplyPlanType ==
  ASSUME TypeInv, NEW c \in Cleaners, NEW cutoff, ApplyPlan(c, cutoff)
  PROVE  TypeInv'
<1> USE DEF TypeInv, TypeOK
<1>1. db' \in Database /\ txn' \in Database
  BY PrunedType DEF ApplyPlan
<1>2. Hashes(db.versions) \in SUBSET Content
  BY DEF Hashes, Database, Version
<1>3. garbage' \in [Cleaners -> SUBSET Content]
  BY <1>2 DEF ApplyPlan
<1>4. cleaner' \in [Cleaners -> {"idle", "reclaim", "unlink"}]
  BY DEF ApplyPlan
<1>5. QED
  BY <1>1, <1>3, <1>4 DEF ApplyPlan, userVars, walkVars, WalkOK

\* The steps of the second cleanup transaction.
ReclaimStep(c) ==
  \/ LockAndRecheck(c)
  \/ \E h \in Content : Unlink(c, h)
  \/ FinishCleanup(c)
  \/ AbandonCleanup(c)

LEMMA ReclaimStepType ==
  ASSUME TypeInv, NEW c \in Cleaners, ReclaimStep(c)
  PROVE  TypeInv'
<1> USE DEF TypeInv, TypeOK, walkVars, userVars, WalkOK
<1>1. CASE LockAndRecheck(c)
  BY <1>1 DEF LockAndRecheck
<1>2. ASSUME NEW h \in Content, Unlink(c, h) PROVE TypeInv'
  BY <1>2 DEF Unlink
<1>3. CASE FinishCleanup(c)
  BY <1>3 DEF FinishCleanup
<1>4. CASE AbandonCleanup(c)
  BY <1>4 DEF AbandonCleanup
<1>5. QED
  BY <1>1, <1>2, <1>3, <1>4 DEF ReclaimStep

\* What a deletion marker adds to the committed database.
LEMMA WriteMarkerStep ==
  ASSUME TypeInv, NEW o \in Observers, WriteMarker(o)
  PROVE  /\ db' \in Database
         /\ txn' = db'
         /\ \E s \in SnapshotId, id \in VersionId :
              /\ IsNextId(s, db.snapshots)
              /\ IsNextId(id, db.versions)
              /\ db'.files = [db.files EXCEPT ![noted[o]].status = "deleted"]
              /\ db'.versions = db.versions \cup
                   {[id |-> id, file |-> noted[o], snap |-> s, hash |-> None]}
              /\ db'.snapshots = db.snapshots \cup
                   {[id |-> s, started |-> id, status |-> "complete",
                     point |-> "plain"]}
<1>1. noted[o] \in File /\ db \in Database
  BY DEF WriteMarker, TypeInv, TypeOK
<1>2. PICK s \in SnapshotId, id \in VersionId :
        /\ IsNextId(s, db.snapshots)
        /\ IsNextId(id, db.versions)
        /\ db' = [MarkDeleted(db, id, noted[o], s) EXCEPT !.snapshots = @ \cup
             {[id |-> s, started |-> id, status |-> "complete", point |-> "plain"]}]
        /\ txn' = db'
  BY DEF WriteMarker
<1> DEFINE snap == [id |-> s, started |-> id, status |-> "complete",
                    point |-> "plain"]
           m == MarkDeleted(db, id, noted[o], s)
<1>3. snap \in Snapshot
  <2>1. id \in 1..(MaxVersions + 1)
    BY BoundsAreNaturals DEF VersionId
  <2>2. QED
    BY <2>1 DEF Snapshot
<1>4. /\ m \in Database
      /\ m.files = [db.files EXCEPT ![noted[o]].status = "deleted"]
      /\ m.snapshots = db.snapshots
      /\ m.versions = db.versions \cup
           {[id |-> id, file |-> noted[o], snap |-> s, hash |-> None]}
  BY <1>1, MarkDeletedType
<1>5. db' = [m EXCEPT !.snapshots = m.snapshots \cup {snap}]
  BY <1>2 DEF MarkDeleted
<1> HIDE DEF snap, m
<1>6. /\ db' \in Database
      /\ db'.files = m.files
      /\ db'.versions = m.versions
      /\ db'.snapshots = m.snapshots \cup {snap}
  BY <1>3, <1>4, <1>5 DEF Database
<1>7. QED
  BY <1>2, <1>4, <1>6 DEF snap

LEMMA ObserverType == TypeInv /\ ObserverNext => TypeInv'
<1> SUFFICES ASSUME TypeInv, ObserverNext PROVE TypeInv'
  OBVIOUS
<1> USE DEF TypeInv, TypeOK, walkVars, userVars, cleanVars, WalkOK
<1>1. ASSUME NEW o \in Observers, NEW f \in File, FindActiveRow(o, f)
      PROVE  TypeInv'
  BY <1>1 DEF FindActiveRow
<1>2. ASSUME NEW o \in Observers, WriteMarker(o) PROVE TypeInv'
  <2>1. db' \in Database /\ txn' \in Database
    BY <1>2, WriteMarkerStep
  <2>2. QED
    BY <1>2, <2>1 DEF WriteMarker
<1>3. ASSUME NEW o \in Observers, RetryMarker(o) \/ LeaveToSnapshot(o)
      PROVE  TypeInv'
  BY <1>3 DEF RetryMarker, LeaveToSnapshot
<1>4. QED
  BY <1>1, <1>2, <1>3 DEF ObserverNext

-----------------------------------------------------------------------------
(* The cases of a step, by what they do to the database and the objects.   *)

LEMMA NextCases ==
  ASSUME [Next]_vars
  PROVE  \/ UserNext
         \/ \E important \in BOOLEAN : BeginSnapshot(important)
         \/ WalkStep
         \/ StoreObject
         \/ CaptureStable
         \/ \E f \in File : MarkMissing(f)
         \/ EndSnapshot
         \/ \E c \in Cleaners :
              \/ \E cutoff \in 1..(MaxVersions + 1) : ApplyPlan(c, cutoff)
              \/ ReclaimStep(c)
         \/ ObserverNext
         \/ UNCHANGED vars
  BY DEF Next, SnapshotNext, CleanupNext, WalkStep, EndSnapshot, ReclaimStep

LEMMA LockInit == Init => LockInv
<1> SUFFICES ASSUME Init PROVE LockInv
  OBVIOUS
<1>1. \A c \in Cleaners : c # "free"
  BY ProcessesDiffer
<1>2. QED
  BY <1>1 DEF Init, LockInv

LEMMA LockNext ==
  ASSUME TypeInv, LockInv, [Next]_vars
  PROVE  LockInv'
<1> USE DEF TypeInv, TypeOK, LockInv
<1>0. \A c \in Cleaners : c # "free" /\ c # "snapshot"
  BY ProcessesDiffer
<1>1. CASE UserNext
  BY <1>1 DEF UserNext, Edit, Remove, walkVars, cleanVars
<1>2. ASSUME NEW important \in BOOLEAN, BeginSnapshot(important)
      PROVE  LockInv'
  BY <1>0, <1>2 DEF BeginSnapshot, cleanVars
<1>3. CASE WalkStep
  BY <1>3, WalkStepFrame DEF cleanVars
<1>4. CASE StoreObject
  BY <1>4 DEF StoreObject, cleanVars
<1>5. CASE CaptureStable
  BY <1>5 DEF CaptureStable, NextEntry, cleanVars
<1>6. ASSUME NEW f \in File, MarkMissing(f) PROVE LockInv'
  BY <1>6 DEF MarkMissing, walkVars, cleanVars
<1>7. CASE EndSnapshot
  BY <1>0, <1>7, EndSnapshotStep DEF Commit, cleanVars
<1>8. ASSUME NEW c \in Cleaners, NEW cutoff, ApplyPlan(c, cutoff)
      PROVE  LockInv'
  BY <1>0, <1>8 DEF ApplyPlan, walkVars
<1>9. ASSUME NEW c \in Cleaners, ReclaimStep(c) PROVE LockInv'
  <2>1. CASE LockAndRecheck(c)
    BY <1>0, <2>1 DEF LockAndRecheck, walkVars
  <2>2. ASSUME NEW h \in Content, Unlink(c, h) PROVE LockInv'
    BY <2>2 DEF Unlink, walkVars
  <2>3. CASE FinishCleanup(c)
    BY <1>0, <2>3 DEF FinishCleanup, walkVars
  <2>4. CASE AbandonCleanup(c)
    BY <1>0, <2>4 DEF AbandonCleanup, walkVars
  <2>5. QED
    BY <1>9, <2>1, <2>2, <2>3, <2>4 DEF ReclaimStep
<1>10. CASE ObserverNext
  <2>1. ASSUME NEW o \in Observers, NEW f \in File, FindActiveRow(o, f)
        PROVE  LockInv'
    BY <2>1 DEF FindActiveRow, walkVars, cleanVars
  <2>2. ASSUME NEW o \in Observers, WriteMarker(o) PROVE LockInv'
    BY <2>2 DEF WriteMarker, walkVars, cleanVars
  <2>3. ASSUME NEW o \in Observers, RetryMarker(o) \/ LeaveToSnapshot(o)
        PROVE  LockInv'
    BY <2>3 DEF RetryMarker, LeaveToSnapshot, walkVars, cleanVars
  <2>4. QED
    BY <1>10, <2>1, <2>2, <2>3 DEF ObserverNext
<1>11. CASE UNCHANGED vars
  BY <1>11 DEF vars
<1>12. QED
  BY <1>1, <1>2, <1>3, <1>4, <1>5, <1>6, <1>7, <1>8, <1>9, <1>10, <1>11,
     NextCases

LEMMA TypeNext ==
  ASSUME TypeInv, LockInv, [Next]_vars
  PROVE  TypeInv'
<1>1. CASE UNCHANGED vars
  BY <1>1 DEF vars, TypeInv, TypeOK, WalkOK
<1>2. QED
  BY <1>1, NextCases, UserType, BeginSnapshotType, WalkStepType,
     StoreObjectType, CaptureStableType, MarkMissingType, EndSnapshotType,
     ApplyPlanType, ReclaimStepType, ObserverType

\* Every reachable state is well typed, and its writer lock, its uncommitted
\* image and the phases of its processes agree: the code's transactions never
\* mix.
THEOREM TypeAndLock == Spec => [](TypeInv /\ LockInv)
<1>1. Init => TypeInv /\ LockInv
  BY InitType, LockInit
<1>2. TypeInv /\ LockInv /\ [Next]_vars => (TypeInv /\ LockInv)'
  BY TypeNext, LockNext
<1>3. QED
  BY <1>1, <1>2, PTL DEF Spec

\* The type invariant the runs check.
THEOREM TypeCorrect == Spec => []TypeOK
<1>1. TypeInv => TypeOK
  BY DEF TypeInv
<1>2. QED
  BY <1>1, TypeAndLock, PTL

-----------------------------------------------------------------------------
(* No version without its object.                                          *)

LEMMA HashesMonotone ==
  ASSUME NEW S, NEW T, S \subseteq T
  PROVE  Hashes(S) \subseteq Hashes(T)
  BY DEF Hashes

LEMMA HashesOfOneMore ==
  ASSUME NEW S, NEW v
  PROVE  /\ Hashes(S \cup {v}) \subseteq Hashes(S) \cup {v.hash}
         /\ v.hash = None => Hashes(S \cup {v}) = Hashes(S)
  BY DEF Hashes

\* Committed and uncommitted versions have their objects, the hash a capture
\* has just stored is in place, and what a cleaner unlinks under the lock is
\* not referenced.
RecoveryInv ==
  /\ Recoverable
  /\ Hashes(txn.versions) \subseteq objects
  /\ phase = "check" => capture.got \in objects
  /\ \A c \in Cleaners :
       cleaner[c] = "unlink" => garbage[c] \cap Hashes(db.versions) = {}

\* What recording a capture or a marker does to the hashes referenced.
LEMMA RecordCaptureHashes ==
  ASSUME NEW t \in Database, NEW f \in File, NEW h \in Content,
         NEW st \in 0..MaxEdits, NEW s \in SnapshotId, NEW id \in VersionId
  PROVE  Hashes(RecordCapture(t, f, h, st, s, id).versions)
           \subseteq Hashes(t.versions) \cup {h}
<1> DEFINE new == [id |-> id, file |-> f, snap |-> s, hash |-> h]
           t2  == RecordCapture(t, f, h, st, s, id)
<1>1. t2.versions = t.versions \/ t2.versions = t.versions \cup {new}
  BY DEF RecordCapture, InsertVersion, Database
<1>2. new.hash = h
  OBVIOUS
<1> HIDE DEF new, t2
<1>3. Hashes(t2.versions) \subseteq Hashes(t.versions) \cup {h}
  BY <1>1, <1>2, HashesOfOneMore
<1>4. QED
  BY <1>3 DEF t2

LEMMA MarkDeletedHashes ==
  ASSUME NEW t \in Database, NEW id \in VersionId, NEW f \in File,
         NEW s \in SnapshotId
  PROVE  Hashes(MarkDeleted(t, id, f, s).versions) = Hashes(t.versions)
<1> DEFINE new == [id |-> id, file |-> f, snap |-> s, hash |-> None]
           t2  == MarkDeleted(t, id, f, s)
<1>1. t2.versions = t.versions \cup {new}
  BY DEF MarkDeleted, InsertVersion, Database
<1>2. new.hash = None
  OBVIOUS
<1> HIDE DEF new, t2
<1>3. Hashes(t2.versions) = Hashes(t.versions)
  BY <1>1, <1>2, HashesOfOneMore
<1>4. QED
  BY <1>3 DEF t2

LEMMA RecoveryInit == Init => RecoveryInv
  BY DEF Init, RecoveryInv, Recoverable, Hashes, EmptyDatabase

LEMMA RecoveryNext ==
  ASSUME TypeInv, LockInv, RecoveryInv, [Next]_vars
  PROVE  RecoveryInv'
<1> USE DEF RecoveryInv, Recoverable
<1>0. \A c \in Cleaners : c # "free" /\ c # "snapshot"
  BY ProcessesDiffer
<1>t. /\ db \in Database /\ txn \in Database
      /\ cleaner \in [Cleaners -> {"idle", "reclaim", "unlink"}]
      /\ garbage \in [Cleaners -> SUBSET Content]
  BY DEF TypeInv, TypeOK
<1>d. txn \in Database
  BY <1>t
<1>1. CASE UserNext
  BY <1>1 DEF UserNext, Edit, Remove, walkVars, cleanVars
<1>2. ASSUME NEW important \in BOOLEAN, BeginSnapshot(important)
      PROVE  RecoveryInv'
  <2>1. txn'.versions = db.versions
    BY <1>2, <1>t DEF BeginSnapshot, Database
  <2>2. QED
    BY <1>2, <2>1 DEF BeginSnapshot, cleanVars
<1>3. CASE WalkStep
  BY <1>3, WalkStepFrame DEF cleanVars
<1>4. CASE StoreObject
  BY <1>t, <1>4 DEF StoreObject, cleanVars, TypeInv, TypeOK, Capture
<1>5. CASE CaptureStable
  <2>1. PICK id \in VersionId :
          txn' = RecordCapture(txn, capture.file, capture.got,
                               stamp[capture.file], walk.snap, id)
    BY <1>5 DEF CaptureStable
  <2>2. /\ capture.file \in File
        /\ capture.got \in Content
        /\ walk.snap \in SnapshotId
        /\ stamp[capture.file] \in 0..MaxEdits
    BY <1>5 DEF CaptureStable, TypeInv, TypeOK, WalkOK
  <2>3. Hashes(txn'.versions) \subseteq Hashes(txn.versions) \cup {capture.got}
    BY <1>d, <2>1, <2>2, RecordCaptureHashes
  <2>4. QED
    BY <1>5, <2>3 DEF CaptureStable, NextEntry, cleanVars
<1>6. ASSUME NEW f \in File, MarkMissing(f) PROVE RecoveryInv'
  <2>1. PICK id \in VersionId : txn' = MarkDeleted(txn, id, f, walk.snap)
    BY <1>6 DEF MarkMissing
  <2>2. walk.snap \in SnapshotId
    BY <1>6 DEF MarkMissing, TypeInv, WalkOK
  <2>3. Hashes(txn'.versions) = Hashes(txn.versions)
    BY <1>d, <2>1, <2>2, MarkDeletedHashes
  <2>4. QED
    BY <1>6, <2>3 DEF MarkMissing, walkVars, cleanVars
<1>7. CASE EndSnapshot
  <2>1. PICK d \in Database : Commit(d) /\ d.versions \in {db.versions, txn.versions}
    BY <1>7, EndSnapshotStep
  <2>2. UNCHANGED <<objects, cleanVars>> /\ phase # "idle"
    BY <1>7, EndSnapshotStep
  <2>3. \A c \in Cleaners : cleaner[c] # "unlink"
    BY <1>0, <2>2 DEF LockInv
  <2>4. QED
    BY <2>1, <2>2, <2>3 DEF Commit, cleanVars
<1>8. ASSUME NEW c \in Cleaners, NEW cutoff, ApplyPlan(c, cutoff)
      PROVE  RecoveryInv'
  <2>1. /\ db'.versions \subseteq db.versions
        /\ txn' = db'
        /\ UNCHANGED <<objects, phase, capture>>
    BY <1>t, <1>8, PrunedType DEF ApplyPlan, walkVars
  <2>2. Hashes(db'.versions) \subseteq objects
    BY <2>1, HashesMonotone
  <2>3. \A e \in Cleaners : cleaner'[e] # "unlink"
    BY <1>0, <1>t, <1>8 DEF ApplyPlan, LockInv
  <2>4. QED
    BY <2>1, <2>2, <2>3
<1>9. ASSUME NEW c \in Cleaners, ReclaimStep(c) PROVE RecoveryInv'
  <2>1. CASE LockAndRecheck(c)
    BY <1>t, <2>1 DEF LockAndRecheck, walkVars
  <2>2. ASSUME NEW h \in Content, Unlink(c, h) PROVE RecoveryInv'
    <3>1. /\ phase = "idle"
          /\ txn = db
          /\ h \notin Hashes(db.versions)
      BY <1>0, <2>2 DEF Unlink, LockInv
    <3>2. QED
      BY <1>t, <2>2, <3>1 DEF Unlink, walkVars
  <2>3. CASE FinishCleanup(c)
    BY <1>t, <2>3 DEF FinishCleanup, walkVars
  <2>4. CASE AbandonCleanup(c)
    BY <1>t, <2>4 DEF AbandonCleanup, walkVars
  <2>5. QED
    BY <1>9, <2>1, <2>2, <2>3, <2>4 DEF ReclaimStep
<1>10. CASE ObserverNext
  <2>1. ASSUME NEW o \in Observers, NEW f \in File, FindActiveRow(o, f)
        PROVE  RecoveryInv'
    BY <2>1 DEF FindActiveRow, walkVars, cleanVars
  <2>2. ASSUME NEW o \in Observers, WriteMarker(o) PROVE RecoveryInv'
    <3>1. PICK v : /\ v.hash = None
                   /\ db'.versions = db.versions \cup {v}
      BY <2>2, WriteMarkerStep
    <3>2. Hashes(db.versions \cup {v}) = Hashes(db.versions)
      BY <3>1, HashesOfOneMore
    <3>3. txn' = db'
      BY <2>2, WriteMarkerStep
    <3>4. QED
      BY <2>2, <3>1, <3>2, <3>3 DEF WriteMarker, walkVars, cleanVars
  <2>3. ASSUME NEW o \in Observers, RetryMarker(o) \/ LeaveToSnapshot(o)
        PROVE  RecoveryInv'
    BY <2>3 DEF RetryMarker, LeaveToSnapshot, walkVars, cleanVars
  <2>4. QED
    BY <1>10, <2>1, <2>2, <2>3 DEF ObserverNext
<1>11. CASE UNCHANGED vars
  BY <1>11 DEF vars
<1>12. QED
  BY <1>1, <1>2, <1>3, <1>4, <1>5, <1>6, <1>7, <1>8, <1>9, <1>10, <1>11,
     NextCases

\* Whatever snapshots, cleanups, deletion markers, crashes and busy locks do,
\* and in whatever order, every committed version can be read back.
THEOREM VersionsAreRecoverable == Spec => []Recoverable
<1>1. Init => RecoveryInv
  BY RecoveryInit
<1>2. TypeInv /\ LockInv /\ RecoveryInv /\ [Next]_vars => RecoveryInv'
  BY RecoveryNext
<1>3. RecoveryInv => Recoverable
  BY DEF RecoveryInv
<1>4. QED
  BY <1>1, <1>2, <1>3, TypeAndLock, PTL DEF Spec

-----------------------------------------------------------------------------
(* What a snapshot captures.                                               *)

\* A version holds what its file once held, and an active row with the stamp of its
\* file has the file's content.
RowsTrue(d) ==
  /\ \A v \in d.versions : v.hash # None => v.hash \in held[v.file]
  /\ \A f \in File : Active(d, f) =>
       /\ d.files[f].stamp <= stamp[f]
       /\ d.files[f].stamp = stamp[f] /\ tree[f] # None => d.files[f].hash = tree[f]

Capturing == phase \in {"stat", "read", "check"}

\* The bytes read are the file's unless its stamp has changed since the first lstat.
CaptureTrue ==
  /\ phase \in {"read", "check"} => capture.before <= stamp[capture.file]
  /\ phase = "check" /\ stamp[capture.file] = capture.before /\ tree[capture.file] # None =>
       capture.got = tree[capture.file]

\* The files the walk is done with, in a folder nobody has touched: those it has seen
\* are there, with their rows up to date.
WalkTrue ==
  phase # "idle" =>
    /\ walk.began <= edits
    /\ walk.seen \cap walk.todo = {}
    /\ Capturing => capture.file \in walk.seen
    /\ walk.began = edits =>
         \A f \in File \ (walk.todo \cup walk.skipped) : ~(Capturing /\ f = capture.file) =>
           /\ f \in walk.seen <=> tree[f] # None
           /\ f \in walk.seen => Active(txn, f) /\ txn.files[f].hash = tree[f]

CaptureInv ==
  /\ \A f \in File : stamp[f] <= edits /\ (tree[f] # None => tree[f] \in held[f])
  /\ RowsTrue(db) /\ RowsTrue(txn) /\ CaptureTrue /\ WalkTrue

LEMMA CaptureInit == Init => CaptureInv
<1> SUFFICES ASSUME Init PROVE CaptureInv
  OBVIOUS
<1>1. RowsTrue(EmptyDatabase)
  BY DEF RowsTrue, EmptyDatabase, NoRow, Active
<1>2. CaptureTrue /\ WalkTrue
  BY DEF Init, CaptureTrue, WalkTrue
<1>3. QED
  BY <1>1, <1>2 DEF Init, CaptureInv

\* Types, as the proofs below need them.
LEMMA VaultIs ==
  ASSUME TypeInv
  PROVE  /\ tree \in [File -> Content \cup {None}] /\ stamp \in [File -> 0..MaxEdits]
         /\ edits \in 0..MaxEdits /\ held \in [File -> SUBSET Content]
         /\ db \in Database /\ txn \in Database /\ walk \in Walk /\ capture \in Capture
         /\ MaxEdits \in Nat
         /\ \A f \in File : stamp[f] \in Nat
         /\ \A d \in Database, f \in File : d.files[f].stamp \in Nat
  BY BoundsAreNaturals DEF TypeInv, TypeOK, Database, Row

\* Rows that tell the truth do so while the folder and their files are left alone.
LEMMA SameRowsTrue ==
  ASSUME NEW d, NEW e, RowsTrue(d), e.versions \subseteq d.versions, e.files = d.files,
         UNCHANGED <<tree, stamp, held>>
  PROVE  RowsTrue(e) /\ RowsTrue(e)'
  BY DEF RowsTrue, Active

\* A file that is written to gets a stamp no row has.
LEMMA UserRowsTrue ==
  ASSUME TypeInv, CaptureInv, UserNext, NEW d \in Database, RowsTrue(d)
  PROVE  RowsTrue(d)'
<1>0. \A f \in File : d.files[f].stamp \in Nat /\ stamp[f] \in Nat /\ stamp[f] <= edits
  BY VaultIs DEF CaptureInv
<1>1. ASSUME NEW f \in File, NEW c \in Content, Edit(f, c) PROVE RowsTrue(d)'
  <2>1. /\ tree' = [tree EXCEPT ![f] = c] /\ stamp' = [stamp EXCEPT ![f] = edits + 1]
        /\ held' = [held EXCEPT ![f] = @ \cup {c}]
    BY <1>1 DEF Edit
  <2>2. \A v \in d.versions : v.hash # None => v.hash \in held'[v.file]
    <3>1. \A v \in d.versions : v.file \in File
      BY DEF Database, Version
    <3>2. QED
      BY <2>1, <3>1, VaultIs DEF RowsTrue
  <2>3. ASSUME NEW g \in File, Active(d, g)
        PROVE  /\ d.files[g].stamp <= stamp'[g]
               /\ d.files[g].stamp = stamp'[g] /\ tree'[g] # None => d.files[g].hash = tree'[g]
    <3>1. CASE g = f
      <4>1. stamp'[g] = edits + 1 /\ d.files[g].stamp <= stamp[g]
        BY <2>1, <2>3, <3>1, VaultIs DEF RowsTrue
      <4>2. d.files[g].stamp <= edits /\ edits \in Nat
        BY <1>0, <4>1, VaultIs
      <4>3. QED
        BY <1>0, <4>1, <4>2
    <3>2. CASE g # f
      <4>1. stamp'[g] = stamp[g] /\ tree'[g] = tree[g]
        BY <2>1, <3>2, VaultIs
      <4>2. QED
        BY <2>3, <4>1 DEF RowsTrue
    <3>3. QED
      BY <3>1, <3>2
  <2>4. QED
    BY <2>2, <2>3 DEF RowsTrue, Active
<1>2. ASSUME NEW f \in File, Remove(f) PROVE RowsTrue(d)'
  <2>1. /\ \A g \in File : tree'[g] # None => tree'[g] = tree[g]
        /\ UNCHANGED <<stamp, held>>
    BY <1>2, VaultIs DEF Remove
  <2>2. QED
    BY <2>1 DEF RowsTrue, Active
<1>3. QED
  BY <1>1, <1>2 DEF UserNext

LEMMA UserCapture ==
  ASSUME TypeInv, CaptureInv, UserNext
  PROVE  CaptureInv'
<1>0. /\ edits' = edits + 1 /\ edits \in Nat
      /\ UNCHANGED <<objects, db, txn, walk, phase, capture>>
  BY VaultIs DEF UserNext, Edit, Remove, walkVars
<1>1. RowsTrue(db)' /\ RowsTrue(txn)'
  BY <1>0, UserRowsTrue, VaultIs DEF CaptureInv, RowsTrue, Active
<1>2. walk.began \in Nat
  BY VaultIs DEF Walk
<1>3. WalkTrue'
  BY <1>0, <1>2 DEF CaptureInv, WalkTrue, Capturing
<1>4. \A f \in File : stamp'[f] <= edits' /\ (tree'[f] # None => tree'[f] \in held'[f])
  <2>1. \A f \in File : stamp[f] \in Nat /\ stamp[f] <= edits
    BY VaultIs DEF CaptureInv
  <2>2. QED
    BY <1>0, <2>1, VaultIs DEF UserNext, Edit, Remove, CaptureInv
<1>5. CaptureTrue'
  <2> DEFINE f == capture.file
  <2> SUFFICES ASSUME phase \in {"read", "check"}
               PROVE  /\ capture.before <= stamp'[f]
                      /\ phase = "check" /\ stamp'[f] = capture.before /\ tree'[f] # None =>
                           capture.got = tree'[f]
    BY <1>0 DEF CaptureTrue
  <2>1. f \in File /\ capture.before \in Nat /\ stamp[f] \in Nat /\ stamp[f] <= edits
        /\ capture.before <= stamp[f]
    BY VaultIs DEF CaptureInv, CaptureTrue, TypeInv, WalkOK, Capture
  <2>2. \/ stamp'[f] = edits + 1
        \/ stamp'[f] = stamp[f] /\ tree'[f] \in {tree[f], None}
    BY <2>1, VaultIs DEF UserNext, Edit, Remove
  <2> HIDE DEF f
  <2>3. CASE stamp'[f] = edits + 1
    BY <1>0, <2>1, <2>3
  <2>4. CASE stamp'[f] = stamp[f] /\ tree'[f] \in {tree[f], None}
    BY <2>1, <2>4 DEF CaptureInv, CaptureTrue, f
  <2>5. QED
    BY <2>2, <2>3, <2>4
<1>6. QED
  BY <1>1, <1>3, <1>4, <1>5 DEF CaptureInv

\* A step that leaves the folder alone.
LEMMA FolderFrame ==
  ASSUME CaptureInv, UNCHANGED <<tree, stamp, edits, held>>, RowsTrue(db)', RowsTrue(txn)',
         CaptureTrue', WalkTrue'
  PROVE  CaptureInv'
  BY DEF CaptureInv

\* A step of the walk changes neither the folder nor the rows.
LEMMA WalkStepCapture ==
  ASSUME TypeInv, CaptureInv, WalkStep
  PROVE  CaptureInv'
<1>0. /\ UNCHANGED <<tree, stamp, edits, held, db, txn>>
      /\ phase # "idle" /\ phase' \in {"walk", "stat", "read"}
      /\ phase' = "read" => phase = "stat"
  BY WalkStepFrame DEF userVars
<1>1. RowsTrue(db)' /\ RowsTrue(txn)'
  BY <1>0 DEF CaptureInv, RowsTrue, Active
<1>2. /\ walk \in Walk /\ capture \in Capture /\ \A f \in File : stamp[f] \in Nat
      /\ Capturing => capture.file \in File
  BY VaultIs DEF TypeInv, WalkOK, Capturing
<1>3. CaptureTrue'
  <2>1. CASE phase' # "read"
    BY <1>0, <2>1 DEF CaptureTrue
  <2>2. CASE phase' = "read"
    <3>1. StatBefore
      BY <2>2 DEF WalkStep, SkipVanished, SkipUnlisted, SkipUnreadable, SkipUnmodified,
         VisitModified, CaptureMissing, CaptureUnreadable, CaptureAgain, CaptureUnstable,
         NextEntry
    <3>2. capture'.before = stamp[capture.file] /\ capture'.file = capture.file
          /\ capture.file \in File
      BY <1>2, <3>1 DEF StatBefore, Capture, Capturing
    <3>3. QED
      BY <1>0, <1>2, <2>2, <3>2 DEF CaptureTrue
  <2>3. QED
    BY <2>1, <2>2
<1>4. WalkTrue'
  <2>0. WalkTrue /\ RowsTrue(txn)
    BY DEF CaptureInv
  <2> USE <1>0, <1>2 DEF Capturing
  <2>1. ASSUME NEW f \in File, SkipVanished(f) PROVE WalkTrue'
    <3>1. /\ walk'.todo = walk.todo \ {f} /\ walk'.seen = walk.seen
          /\ walk'.skipped = walk.skipped /\ walk'.began = walk.began
          /\ f \in walk.todo /\ tree[f] = None /\ phase = "walk" /\ phase' = "walk"
      BY <2>1 DEF SkipVanished, Walk
    <3>2. QED
      BY <2>0, <3>1 DEF WalkTrue
  <2>2. ASSUME NEW f \in File, SkipUnlisted(f) PROVE WalkTrue'
    <3>1. /\ walk'.todo = walk.todo \ {f} /\ walk'.seen = walk.seen
          /\ walk'.skipped = walk.skipped \cup {f} /\ walk'.began = walk.began
          /\ phase = "walk" /\ phase' = "walk"
      BY <2>2 DEF SkipUnlisted, Walk
    <3>2. QED
      BY <2>0, <3>1 DEF WalkTrue
  <2>3. ASSUME NEW f \in File, SkipUnreadable(f) PROVE WalkTrue'
    <3>1. /\ walk'.todo = walk.todo \ {f} /\ walk'.seen = walk.seen \cup {f}
          /\ walk'.skipped = walk.skipped \cup {f} /\ walk'.began = walk.began
          /\ phase = "walk" /\ phase' = "walk"
      BY <2>3 DEF SkipUnreadable, Visit, Walk
    <3>2. QED
      BY <2>0, <3>1 DEF WalkTrue
  <2>4. ASSUME NEW f \in File, SkipUnmodified(f) PROVE WalkTrue'
    <3>1. /\ walk'.todo = walk.todo \ {f} /\ walk'.seen = walk.seen \cup {f}
          /\ walk'.skipped = walk.skipped /\ walk'.began = walk.began
          /\ phase = "walk" /\ phase' = "walk" /\ f \in walk.todo
      BY <2>4 DEF SkipUnmodified, Visit, Walk
    <3>2. tree[f] # None /\ Active(txn, f) /\ txn.files[f].hash = tree[f]
      BY <2>0, <2>4 DEF SkipUnmodified, Unmodified, RowsTrue
    <3>3. QED
      BY <2>0, <3>1, <3>2 DEF WalkTrue, Active
  <2>5. ASSUME NEW f \in File, VisitModified(f) PROVE WalkTrue'
    <3>1. /\ walk'.todo = walk.todo \ {f} /\ walk'.seen = walk.seen \cup {f}
          /\ walk'.skipped = walk.skipped /\ walk'.began = walk.began
          /\ phase = "walk" /\ phase' = "stat" /\ f \in walk.todo /\ capture'.file = f
      BY <2>5 DEF VisitModified, Visit, Walk, NoCapture
    <3>2. QED
      BY <2>0, <3>1 DEF WalkTrue, Active
  <2>6. ASSUME NEW f \in File, CaptureMissing(f) PROVE WalkTrue'
    <3>1. /\ walk'.todo = walk.todo /\ walk'.seen = walk.seen \ {f}
          /\ walk'.skipped = walk.skipped /\ walk'.began = walk.began
          /\ phase \in {"stat", "read", "check"} /\ phase' = "walk" /\ capture.file = f
          /\ tree[f] = None
      BY <2>6 DEF CaptureMissing, NextEntry, Walk
    <3>2. QED
      BY <2>0, <3>1 DEF WalkTrue, Active
  <2>7. ASSUME CaptureUnreadable \/ CaptureUnstable PROVE WalkTrue'
    <3>1. /\ walk'.todo = walk.todo /\ walk'.seen = walk.seen
          /\ walk'.skipped = walk.skipped \cup {capture.file} /\ walk'.began = walk.began
          /\ phase \in {"stat", "read", "check"} /\ phase' = "walk"
      BY <2>7 DEF CaptureUnreadable, CaptureUnstable, NextEntry, Walk
    <3>2. QED
      BY <2>0, <3>1 DEF WalkTrue, Active
  <2>8. ASSUME StatBefore \/ CaptureAgain PROVE WalkTrue'
    <3>1. /\ walk' = walk /\ capture'.file = capture.file
          /\ phase \in {"stat", "read", "check"} /\ phase' \in {"stat", "read", "check"}
      BY <2>8 DEF StatBefore, CaptureAgain, Capture
    <3>2. QED
      BY <2>0, <3>1 DEF WalkTrue, Active
  <2>9. QED
    BY <2>1, <2>2, <2>3, <2>4, <2>5, <2>6, <2>7, <2>8 DEF WalkStep
<1>5. QED
  BY <1>0, <1>1, <1>3, <1>4, FolderFrame

LEMMA StoreObjectCapture ==
  ASSUME TypeInv, CaptureInv, StoreObject
  PROVE  CaptureInv'
<1>1. PICK c \in Content : /\ stamp[capture.file] = capture.before => c = tree[capture.file]
                           /\ capture' = [capture EXCEPT !.got = c]
  BY DEF StoreObject
<1>2. /\ phase = "read" /\ phase' = "check" /\ capture.file \in File
      /\ UNCHANGED <<tree, stamp, edits, held, db, txn, walk>>
  BY DEF StoreObject, userVars, TypeInv, WalkOK
<1>3. capture'.file = capture.file /\ capture'.before = capture.before /\ capture'.got = c
  BY <1>1, VaultIs DEF Capture
<1>4. RowsTrue(db)' /\ RowsTrue(txn)'
  BY <1>2 DEF CaptureInv, RowsTrue, Active
<1>5. CaptureTrue'
  BY <1>1, <1>2, <1>3 DEF CaptureInv, CaptureTrue
<1>6. WalkTrue'
  BY <1>2, <1>3 DEF CaptureInv, WalkTrue, Capturing, Active
<1>7. QED
  BY <1>2, <1>4, <1>5, <1>6, FolderFrame

LEMMA BeginSnapshotCapture ==
  ASSUME TypeInv, CaptureInv, NEW important \in BOOLEAN, BeginSnapshot(important)
  PROVE  CaptureInv'
<1>1. PICK s \in SnapshotId, t \in 1..(MaxVersions + 1) :
        /\ txn' = [db EXCEPT !.snapshots = @ \cup
             {[id |-> s, started |-> t, status |-> "running", point |-> "none"]}]
        /\ walk' = [todo |-> File, seen |-> {}, skipped |-> {}, snap |-> s,
                    important |-> important, began |-> edits]
  BY DEF BeginSnapshot
<1>2. phase' = "walk" /\ UNCHANGED <<tree, stamp, edits, held, db>> /\ edits \in Nat
  BY VaultIs DEF BeginSnapshot, userVars
<1>3. txn'.versions = db.versions /\ txn'.files = db.files
  BY <1>1, VaultIs DEF Database
<1>4. RowsTrue(db)' /\ RowsTrue(txn)'
  BY <1>2, <1>3 DEF CaptureInv, RowsTrue, Active
<1>5. CaptureTrue'
  BY <1>2 DEF CaptureTrue
<1>6. WalkTrue'
  BY <1>1, <1>2 DEF WalkTrue, Capturing
<1>7. QED
  BY <1>2, <1>4, <1>5, <1>6, FolderFrame

\* What is recorded was read between two lstats that agree, so it is the file's content.
LEMMA CaptureStableCapture ==
  ASSUME TypeInv, CaptureInv, CaptureStable
  PROVE  CaptureInv'
<1> DEFINE f == capture.file
           h == capture.got
           row == [status |-> "active", hash |-> h, stamp |-> stamp[f]]
<1>0. /\ f \in File /\ h \in Content /\ walk.snap \in SnapshotId /\ txn \in Database
      /\ stamp[f] \in 0..MaxEdits /\ stamp[f] \in Nat
  BY VaultIs DEF CaptureStable, TypeInv, WalkOK
<1>1. /\ phase = "check" /\ tree[f] # None /\ stamp[f] = capture.before /\ phase' = "walk"
      /\ UNCHANGED <<tree, stamp, edits, held, db, walk>>
  BY DEF CaptureStable, NextEntry, userVars
<1>2. h = tree[f] /\ h \in held[f]
  BY <1>0, <1>1 DEF CaptureInv, CaptureTrue
<1>3. PICK id \in VersionId : txn' = RecordCapture(txn, f, h, stamp[f], walk.snap, id)
  BY DEF CaptureStable
<1> DEFINE new == [id |-> id, file |-> f, snap |-> walk.snap, hash |-> h]
<1>4. /\ txn'.files = [txn.files EXCEPT ![f] = row]
      /\ txn'.versions \in {txn.versions, txn.versions \cup {new}}
  BY <1>0, <1>3, RecordCaptureType
<1>5. row.status = "active" /\ row.hash = h /\ row.stamp = stamp[f]
      /\ new.file = f /\ new.hash = h
  OBVIOUS
<1> HIDE DEF row, new, f, h
<1>6. /\ txn'.files[f] = row /\ \A g \in File \ {f} : txn'.files[g] = txn.files[g]
  BY <1>0, <1>4 DEF Database
<1>7. RowsTrue(db)'
  BY <1>1 DEF CaptureInv, RowsTrue, Active
<1>8. RowsTrue(txn)'
  <2>1. \A v \in txn'.versions : v.hash # None => v.hash \in held[v.file]
    BY <1>2, <1>4, <1>5 DEF CaptureInv, RowsTrue
  <2>2. \A g \in File : txn'.files[g].status = "active" =>
          /\ txn'.files[g].stamp <= stamp[g]
          /\ txn'.files[g].stamp = stamp[g] /\ tree[g] # None => txn'.files[g].hash = tree[g]
    BY <1>0, <1>2, <1>5, <1>6 DEF CaptureInv, RowsTrue, Active
  <2>3. QED
    BY <1>1, <2>1, <2>2 DEF RowsTrue, Active
<1>9. CaptureTrue'
  BY <1>1 DEF CaptureTrue
<1>10. WalkTrue'
  <2>1. WalkTrue /\ Capturing /\ capture.file = f
    BY <1>1 DEF CaptureInv, Capturing, f
  <2>2. \A g \in File \ {f} : Active(txn', g) <=> Active(txn, g)
    BY <1>6 DEF Active
  <2>3. Active(txn', f) /\ txn'.files[f].hash = tree[f]
    BY <1>2, <1>5, <1>6 DEF Active
  <2>4. f \in walk.seen
    BY <1>1, <2>1 DEF WalkTrue
  <2>5. QED
    BY <1>1, <1>6, <2>1, <2>2, <2>3, <2>4 DEF WalkTrue, Capturing, Active
<1>11. QED
  BY <1>1, <1>7, <1>8, <1>9, <1>10, FolderFrame

LEMMA MarkMissingCapture ==
  ASSUME TypeInv, CaptureInv, NEW f \in File, MarkMissing(f)
  PROVE  CaptureInv'
<1>1. PICK id \in VersionId : txn' = MarkDeleted(txn, id, f, walk.snap)
  BY DEF MarkMissing
<1>2. /\ phase = "walk" /\ f \notin walk.seen
      /\ UNCHANGED <<tree, stamp, edits, held, db, walk, phase, capture>>
  BY DEF MarkMissing, Missing, userVars, walkVars
<1> DEFINE new == [id |-> id, file |-> f, snap |-> walk.snap, hash |-> None]
<1>3. /\ txn \in Database /\ walk.snap \in SnapshotId
      /\ txn'.files = [txn.files EXCEPT ![f].status = "deleted"]
      /\ txn'.versions = txn.versions \cup {new} /\ new.hash = None
  <2>1. txn \in Database /\ walk.snap \in SnapshotId
    BY <1>2, VaultIs DEF TypeInv, WalkOK
  <2>2. QED
    BY <1>1, <2>1, MarkDeletedType
<1> HIDE DEF new
<1>4. /\ ~Active(txn', f) /\ \A g \in File \ {f} : txn'.files[g] = txn.files[g]
  BY <1>3 DEF Active, Database, Row
<1>5. RowsTrue(db)' /\ RowsTrue(txn)'
  BY <1>2, <1>3, <1>4 DEF CaptureInv, RowsTrue, Active
<1>6. CaptureTrue' /\ WalkTrue'
  BY <1>2, <1>4 DEF CaptureInv, CaptureTrue, WalkTrue, Capturing, Active
<1>7. QED
  BY <1>2, <1>5, <1>6, FolderFrame

\* What a snapshot commits has the rows of its image, or those of before.
LEMMA EndSnapshotFiles ==
  ASSUME TypeInv, LockInv, EndSnapshot
  PROVE  \E d \in {db, txn} :
           db'.files = d.files /\ db'.versions = d.versions /\ txn' = db'
<1>1. walk.snap \in SnapshotId /\ txn \in Database
  BY VaultIs DEF EndSnapshot, CommitSnapshot, FailSnapshot, CrashSnapshot, LockInv, TypeInv,
     WalkOK
<1>2. CASE CommitSnapshot
  <2> DEFINE p == IF walk.important THEN "important" ELSE "plain"
  <2>1. p \in {"none", "plain", "important"}
    OBVIOUS
  <2>2. db' = FinishSnapshot(txn, walk.snap, "complete", p) /\ txn' = db'
    BY <1>2 DEF CommitSnapshot, Commit
  <2> HIDE DEF p
  <2>3. QED
    BY <1>1, <2>1, <2>2, FinishSnapshotType
<1>3. CASE FailSnapshot
  BY <1>1, <1>3, FinishSnapshotType DEF FailSnapshot, Commit
<1>4. CASE CrashSnapshot
  BY <1>4 DEF CrashSnapshot, Commit
<1>5. QED
  BY <1>2, <1>3, <1>4 DEF EndSnapshot

\* Outside a snapshot rows are committed at once, and the walk is idle.
LEMMA CommittedCapture ==
  ASSUME CaptureInv, UNCHANGED <<tree, stamp, edits, held>>, phase' = "idle",
         RowsTrue(db)', txn' = db'
  PROVE  CaptureInv'
<1>1. RowsTrue(txn)'
  BY DEF RowsTrue, Active
<1>2. CaptureTrue' /\ WalkTrue'
  BY DEF CaptureTrue, WalkTrue
<1>3. QED
  BY <1>1, <1>2, FolderFrame

LEMMA CaptureNext ==
  ASSUME TypeInv, LockInv, CaptureInv, [Next]_vars
  PROVE  CaptureInv'
<1>0. RowsTrue(db) /\ RowsTrue(txn) /\ db \in Database
  BY VaultIs DEF CaptureInv
<1>1. CASE EndSnapshot
  <2>1. PICK d \in {db, txn} :
          db'.files = d.files /\ db'.versions = d.versions /\ txn' = db'
    BY <1>1, EndSnapshotFiles
  <2>2. UNCHANGED <<tree, stamp, edits, held>> /\ phase' = "idle"
    BY <1>1, EndSnapshotStep DEF userVars, Commit
  <2>3. RowsTrue(db)'
    BY <1>0, <2>1, <2>2 DEF RowsTrue, Active
  <2>4. QED
    BY <2>1, <2>2, <2>3, CommittedCapture
<1>2. ASSUME NEW c \in Cleaners, NEW cutoff, ApplyPlan(c, cutoff) PROVE CaptureInv'
  <2>1. /\ db' = Pruned(db, cutoff) /\ txn' = db' /\ phase' = "idle"
        /\ UNCHANGED <<tree, stamp, edits, held>>
    BY <1>2 DEF ApplyPlan, walkVars, userVars, LockInv
  <2>2. db'.files = db.files /\ db'.versions \subseteq db.versions
    BY <1>0, <2>1, PrunedType
  <2>3. RowsTrue(db)'
    BY <1>0, <2>1, <2>2 DEF RowsTrue, Active
  <2>4. QED
    BY <2>1, <2>3, CommittedCapture
<1>3. ASSUME UNCHANGED <<tree, stamp, edits, held, db, txn, walkVars>> PROVE CaptureInv'
  BY <1>3 DEF CaptureInv, RowsTrue, CaptureTrue, WalkTrue, Capturing, Active, walkVars
<1>4. ASSUME NEW c \in Cleaners, ReclaimStep(c) PROVE CaptureInv'
  BY <1>3, <1>4 DEF ReclaimStep, LockAndRecheck, Unlink, FinishCleanup, AbandonCleanup,
     userVars
<1>5. CASE ObserverNext
  <2>1. ASSUME NEW o \in Observers, WriteMarker(o) PROVE CaptureInv'
    <3>0. PICK s \in SnapshotId, id \in VersionId :
            /\ db'.files = [db.files EXCEPT ![noted[o]].status = "deleted"]
            /\ db'.versions = db.versions \cup
                 {[id |-> id, file |-> noted[o], snap |-> s, hash |-> None]}
      BY <2>1, WriteMarkerStep
    <3>1. \E v : v.hash = None /\ db'.versions = db.versions \cup {v}
      BY <3>0
    <3>2. /\ txn' = db' /\ phase' = "idle" /\ UNCHANGED <<tree, stamp, edits, held>>
      BY <2>1, WriteMarkerStep DEF WriteMarker, walkVars, userVars, LockInv
    <3>3. \A f \in File : Active(db', f) => db'.files[f] = db.files[f]
      BY <1>0, <3>0 DEF Active, Database, Row
    <3>4. RowsTrue(db)'
      BY <1>0, <3>1, <3>2, <3>3 DEF RowsTrue, Active
    <3>5. QED
      BY <3>2, <3>4, CommittedCapture
  <2>2. QED
    BY <1>3, <1>5, <2>1 DEF ObserverNext, FindActiveRow, RetryMarker, LeaveToSnapshot, userVars
<1>6. CASE UNCHANGED vars
  BY <1>3, <1>6 DEF vars, walkVars
<1>7. QED
  BY <1>1, <1>2, <1>4, <1>5, <1>6, UserCapture, BeginSnapshotCapture, WalkStepCapture,
     StoreObjectCapture, CaptureStableCapture, MarkMissingCapture, NextCases

\* capture_entry_stable and the walk: rows, captures and the entries that were
\* seen agree with what the files held, in every reachable state.
THEOREM CaptureInvariant == Spec => []CaptureInv
<1>1. TypeInv /\ LockInv /\ CaptureInv /\ [Next]_vars => CaptureInv'
  BY CaptureNext
<1>2. QED
  BY <1>1, CaptureInit, TypeAndLock, PTL DEF Spec

\* capture_entry_stable: whatever is written while a file is read, a version holds
\* what the file held at some moment.
THEOREM NothingIsTorn == Spec => []NoTornVersion
<1>1. CaptureInv => NoTornVersion
  BY DEF CaptureInv, RowsTrue, NoTornVersion
<1>2. QED
  BY <1>1, CaptureInvariant, PTL

\* The size-and-mtime shortcut of the walk hides no change of a file.
THEOREM ShortcutIsSound == Spec => []ShortcutSound
<1>1. CaptureInv => ShortcutSound
  BY DEF CaptureInv, RowsTrue, ShortcutSound
<1>2. QED
  BY <1>1, CaptureInvariant, PTL
=============================================================================
