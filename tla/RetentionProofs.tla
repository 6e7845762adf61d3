-------------------------- MODULE RetentionProofs ---------------------------
(***************************************************************************)
(* What snapshots, markers and cleanup keep of the history: the content    *)
(* every row stands on, the snapshot of every version, important restore   *)
(* points, and the highest ids.                                            *)
(*                                                                         *)
(* The walk and the commit work on two images of the database.  ImageOK    *)
(* holds of both, and is preserved by every operator that makes one image  *)
(* from another; the theorems follow from it.                              *)
(*                                                                         *)
(* At the end: what a complete snapshot says of the folder, and what prune *)
(* may unlink beside cleanup and markers.                                  *)
(***************************************************************************)
EXTENDS HistoryProofs, Prune

\* The snapshot of every version is in the table.
HasSnapshots(d) == \A v \in d.versions : \E s \in d.snapshots : s.id = v.snap

\* There is a highest row, or none.
HasTop(S) == S = {} \/ \E top \in S : \A r \in S : r.id <= top.id

\* Versions are numbered in the order of their snapshots.
Ordered(d) == \A v, w \in d.versions : v.id <= w.id => v.snap <= w.snap

\* A file with a version has a row.
Tracked(d) == \A v \in d.versions : d.files[v.file].status # "none"

StandsOn(d, f, v) ==
  /\ v.file = f
  /\ v.hash = d.files[f].hash
  /\ NewestContent(v, d.versions)

HasContent(d) ==
  \A f \in File : d.files[f].status # "none" => \E v \in d.versions : StandsOn(d, f, v)

IsLast(v, S) == \A w \in S : w.file = v.file => w.id <= v.id

MarkedDeleted(d) ==
  \A v \in d.versions : IsLast(v, d.versions) =>
    (v.hash = None <=> d.files[v.file].status = "deleted")

ImageOK(d) ==
  /\ HasSnapshots(d)
  /\ HasTop(d.versions) /\ HasTop(d.snapshots)
  /\ Ordered(d)
  /\ Tracked(d)
  /\ HasContent(d)
  /\ MarkedDeleted(d)

\* The open snapshot is the highest row, and the only one not committed.
OpenInv ==
  phase # "idle" =>
    /\ \E s \in txn.snapshots : s.id = walk.snap
    /\ \A s \in db.snapshots : s.id < walk.snap
    /\ db.snapshots \subseteq txn.snapshots
    /\ \A s \in txn.snapshots : s \in db.snapshots \/ s.id = walk.snap

\* Rows are never taken away, so what an observer found is still tracked.
RowsInv ==
  /\ \A f \in File : db.files[f].status # "none" => txn.files[f].status # "none"
  /\ \A o \in Observers : noted[o] # None => db.files[noted[o]].status # "none"

RetentionInv == ImageOK(db) /\ ImageOK(txn) /\ OpenInv /\ RowsInv
-----------------------------------------------------------------------------
(* One image of the database made from another.                            *)

LEMMA IdsAreNaturals ==
  ASSUME NEW d \in Database
  PROVE  /\ \A v \in d.versions : v.id \in Nat /\ v.snap \in Nat /\ v.file \in File
         /\ \A s \in d.snapshots : s.id \in Nat
  BY BoundsAreNaturals DEF Database, Version, Snapshot, VersionId, SnapshotId

LEMMA TopOfOneMore ==
  ASSUME NEW S, NEW n, n.id \in Nat, \A r \in S : r.id < n.id /\ r.id \in Nat
  PROVE  HasTop(S \cup {n})
<1>1. \A r \in S \cup {n} : r.id <= n.id
  OBVIOUS
<1>2. QED
  BY <1>1 DEF HasTop

\* A row more in snapshots.
LEMMA AddSnapshotOK ==
  ASSUME NEW d \in Database, NEW e \in Database, ImageOK(d),
         e.files = d.files, e.versions = d.versions,
         NEW s, s.id \in Nat, IsNextId(s.id, d.snapshots),
         e.snapshots = d.snapshots \cup {s}
  PROVE  ImageOK(e)
<1>1. HasTop(e.snapshots)
  BY IdsAreNaturals, TopOfOneMore DEF IsNextId
<1>2. QED
  BY <1>1 DEF ImageOK, HasSnapshots, Ordered, Tracked, HasContent, StandsOn,
              MarkedDeleted

\* Other columns of the same rows in snapshots.
LEMMA SameSnapshotIdsOK ==
  ASSUME NEW d \in Database, NEW e \in Database, ImageOK(d),
         e.files = d.files, e.versions = d.versions,
         \A s \in d.snapshots : \E r \in e.snapshots : r.id = s.id,
         \A r \in e.snapshots : \E s \in d.snapshots : r.id = s.id
  PROVE  ImageOK(e)
<1>1. HasSnapshots(e)
  BY DEF ImageOK, HasSnapshots
<1>2. HasTop(e.snapshots)
  BY DEF ImageOK, HasTop
<1>3. QED
  BY <1>1, <1>2 DEF ImageOK, Ordered, Tracked, HasContent, StandsOn, MarkedDeleted

\* The row of f gets another stamp.
LEMMA SameRowOK ==
  ASSUME NEW d \in Database, NEW e \in Database, ImageOK(d),
         e.snapshots = d.snapshots, e.versions = d.versions,
         \A f \in File : /\ e.files[f].status = d.files[f].status
                         /\ e.files[f].hash = d.files[f].hash
  PROVE  ImageOK(e)
  BY IdsAreNaturals
     DEF ImageOK, HasSnapshots, Ordered, Tracked, HasContent, StandsOn, MarkedDeleted

\* A version n of f is added, and the row of f says what n says of it.
Says(row, old, n) ==
  IF n.hash = None
  THEN row.status = "deleted" /\ row.hash = old.hash /\ old.status # "none"
  ELSE row.status = "active" /\ row.hash = n.hash

LEMMA AppendOK ==
  ASSUME NEW d \in Database, NEW e \in Database, ImageOK(d),
         NEW f \in File, NEW n, n.file = f, n.id \in Nat, n.snap \in Nat,
         IsNextId(n.id, d.versions),
         \E s \in d.snapshots : s.id = n.snap,
         \A s \in d.snapshots : s.id <= n.snap,
         NEW row, Says(row, d.files[f], n),
         e.versions = d.versions \cup {n},
         e.snapshots = d.snapshots,
         e.files = [d.files EXCEPT ![f] = row]
  PROVE  ImageOK(e)
<1> USE DEF ImageOK
<1>0. /\ \A v \in d.versions : v.id \in Nat /\ v.snap \in Nat /\ v.file \in File
      /\ \A v \in d.versions : v.id < n.id
  BY IdsAreNaturals DEF IsNextId
<1>f. /\ e.files[f] = row
      /\ \A g \in File \ {f} : e.files[g] = d.files[g]
  BY DEF Database
<1>1. HasSnapshots(e)
  BY DEF HasSnapshots
<1>2. HasTop(e.versions) /\ HasTop(e.snapshots)
  <2>1. HasTop(d.versions \cup {n})
    BY <1>0, TopOfOneMore
  <2>2. QED
    BY <2>1 DEF HasTop
<1>3. Ordered(e)
  <2>1. \A v \in d.versions : v.snap <= n.snap
    BY DEF HasSnapshots
  <2>2. \A v \in d.versions : ~(n.id <= v.id)
    BY <1>0
  <2>3. QED
    BY <1>0, <2>1, <2>2 DEF Ordered
<1>4. Tracked(e)
  <2>1. row.status # "none"
    BY DEF Says
  <2>2. QED
    BY <1>0, <1>f, <2>1 DEF Tracked
<1>5. HasContent(e)
  <2> SUFFICES ASSUME NEW g \in File, e.files[g].status # "none"
               PROVE  \E v \in e.versions : StandsOn(e, g, v)
    BY DEF HasContent
  <2>1. CASE g = f /\ n.hash # None
    <3>1. NewestContent(n, e.versions)
      BY <1>0, <2>1 DEF NewestContent
    <3>2. StandsOn(e, g, n)
      BY <1>f, <2>1, <3>1 DEF StandsOn, Says
    <3>3. QED
      BY <3>2
  <2>2. CASE g # f \/ n.hash = None
    <3>1. d.files[g].status # "none" /\ e.files[g].hash = d.files[g].hash
      BY <1>f, <2>2 DEF Says
    <3>2. PICK v \in d.versions : StandsOn(d, g, v)
      BY <3>1 DEF HasContent
    <3>3. NewestContent(v, e.versions)
      BY <2>2, <3>2 DEF StandsOn, NewestContent
    <3>4. QED
      BY <3>1, <3>2, <3>3 DEF StandsOn
  <2>3. QED
    BY <2>1, <2>2
<1>6. MarkedDeleted(e)
  <2> SUFFICES ASSUME NEW v \in e.versions, IsLast(v, e.versions)
               PROVE  v.hash = None <=> e.files[v.file].status = "deleted"
    BY DEF MarkedDeleted
  <2>1. CASE v = n
    BY <1>f, <2>1 DEF Says
  <2>2. CASE v # n
    <3>1. v \in d.versions /\ v.file \in File \ {f}
      BY <1>0, <2>2 DEF IsLast
    <3>2. IsLast(v, d.versions)
      BY DEF IsLast
    <3>3. QED
      BY <1>f, <3>1, <3>2 DEF MarkedDeleted
  <2>3. QED
    BY <2>1, <2>2
<1>7. QED
  BY <1>1, <1>2, <1>3, <1>4, <1>5, <1>6

\* Cleanup: a version goes only when a newer one of its file has content, a
\* snapshot only with its last version.
LEMMA PrunedOK ==
  ASSUME NEW d \in Database, NEW cutoff, ImageOK(d)
  PROVE  /\ ImageOK(Pruned(d, cutoff))
         /\ \A v \in d.versions : \E w \in Pruned(d, cutoff).versions : v.id <= w.id
         /\ \A s \in d.snapshots : \E r \in Pruned(d, cutoff).snapshots : s.id <= r.id
<1> DEFINE e == Pruned(d, cutoff)
           V == CandidateVersions(d, cutoff)
           S == CandidateSnapshots(d, cutoff)
<1>0. /\ e \in Database
      /\ e.files = d.files
      /\ e.versions = d.versions \ V
      /\ e.snapshots = d.snapshots \ S
  BY PrunedType
<1>n. /\ \A v \in d.versions : v.id \in Nat /\ v.snap \in Nat /\ v.file \in File
      /\ \A s \in d.snapshots : s.id \in Nat
  BY IdsAreNaturals
<1>v. \A v \in V : v.hash # None /\ ~NewestContent(v, d.versions)
  BY DEF CandidateVersions
<1>s. \A s \in S : /\ \E v \in d.versions : v.snap = s.id
                   /\ \A v \in d.versions : v.snap = s.id => v \in V
  BY DEF CandidateSnapshots
<1> HIDE DEF e, V, S
<1>1. HasSnapshots(e)
  <2> SUFFICES ASSUME NEW v \in d.versions, v \notin V
               PROVE  \E s \in e.snapshots : s.id = v.snap
    BY <1>0 DEF HasSnapshots
  <2>1. PICK s \in d.snapshots : s.id = v.snap
    BY DEF ImageOK, HasSnapshots
  <2>2. s \notin S
    BY <1>s, <2>1
  <2>3. QED
    BY <1>0, <2>1, <2>2
\* The highest version is a marker or its file's newest content, so it stays.
<1>2. \A top \in d.versions :
        (\A r \in d.versions : r.id <= top.id) => top \notin V
  BY <1>v DEF NewestContent
<1>3. /\ HasTop(e.versions)
      /\ \A v \in d.versions : \E w \in e.versions : v.id <= w.id
  BY <1>0, <1>2 DEF ImageOK, HasTop
\* The highest snapshot with versions has the highest version, so it stays too.
<1>4. \A top \in d.snapshots :
        (\A r \in d.snapshots : r.id <= top.id) => top \notin S
  <2> SUFFICES ASSUME NEW top \in d.snapshots, \A r \in d.snapshots : r.id <= top.id,
                      top \in S
               PROVE  FALSE
    OBVIOUS
  <2>1. PICK v \in d.versions : v.snap = top.id
    BY <1>s
  <2>2. PICK w \in d.versions : \A r \in d.versions : r.id <= w.id
    BY <2>1 DEF ImageOK, HasTop
  <2>3. w.snap >= top.id
    BY <1>n, <2>1, <2>2 DEF ImageOK, Ordered
  <2>4. w.snap <= top.id
    BY DEF ImageOK, HasSnapshots
  <2>5. w.snap = top.id
    BY <1>n, <2>3, <2>4
  <2>6. QED
    BY <1>2, <1>s, <2>2, <2>5
<1>5. /\ HasTop(e.snapshots)
      /\ \A s \in d.snapshots : \E r \in e.snapshots : s.id <= r.id
  BY <1>0, <1>4 DEF ImageOK, HasTop
<1>6. Ordered(e) /\ Tracked(e)
  BY <1>0 DEF ImageOK, Ordered, Tracked
<1>7. \A f \in File, v \in d.versions : StandsOn(d, f, v) => v \in e.versions
  BY <1>0, <1>v DEF StandsOn
<1>8. HasContent(e)
  BY <1>0, <1>7 DEF ImageOK, HasContent, StandsOn, NewestContent
\* The last version left of a file was its last before.
<1>9. ASSUME NEW v \in e.versions, IsLast(v, e.versions)
      PROVE  IsLast(v, d.versions)
  <2> SUFFICES ASSUME NEW w \in d.versions, w.file = v.file, ~(w.id <= v.id)
               PROVE  FALSE
    BY DEF IsLast
  <2>1. w \in V
    BY <1>0, <1>9 DEF IsLast
  <2>2. PICK u \in d.versions : StandsOn(d, v.file, u)
    BY <1>0, <1>n DEF ImageOK, Tracked, HasContent
  <2>3. w.id <= u.id
    BY <1>v, <2>1, <2>2 DEF StandsOn, NewestContent
  <2>4. u.id <= v.id
    BY <1>0, <1>7, <1>9, <1>n, <2>2 DEF StandsOn, IsLast
  <2>5. QED
    BY <1>0, <1>n, <2>3, <2>4
<1>10. MarkedDeleted(e)
  BY <1>0, <1>9 DEF ImageOK, MarkedDeleted
<1>11. ImageOK(e)
  BY <1>1, <1>3, <1>5, <1>6, <1>8, <1>10 DEF ImageOK
<1>12. QED
  BY <1>3, <1>5, <1>11 DEF e

-----------------------------------------------------------------------------
(* The steps of the system.                                                *)

LEMMA EmptyOK == ImageOK(EmptyDatabase)
  BY DEF EmptyDatabase, NoRow, ImageOK, HasSnapshots, HasTop, Ordered, Tracked,
         HasContent, MarkedDeleted

LEMMA RetentionInit == Init => RetentionInv
  BY EmptyOK DEF Init, RetentionInv, OpenInv, RowsInv

LEMMA WalkStepSnap ==
  ASSUME TypeInv, WalkStep
  PROVE  walk'.snap = walk.snap
<1>1. walk \in Walk
  BY DEF TypeInv, TypeOK
<1>2. QED
  BY <1>1 DEF WalkStep, SkipVanished, SkipUnlisted, SkipUnreadable, SkipUnmodified,
              VisitModified, CaptureMissing, CaptureUnreadable, StatBefore,
              CaptureAgain, CaptureUnstable, Visit, Walk

LEMMA BeginSnapshotOK ==
  ASSUME TypeInv, LockInv, RetentionInv, NEW important \in BOOLEAN,
         BeginSnapshot(important)
  PROVE  RetentionInv'
<1> USE DEF RetentionInv
<1>0. db \in Database /\ db' = db /\ noted' = noted
  BY DEF BeginSnapshot, TypeInv, TypeOK
<1>1. PICK s \in SnapshotId, t \in 1..(MaxVersions + 1) :
        /\ IsNextId(s, db.snapshots)
        /\ txn' = [db EXCEPT !.snapshots = @ \cup
             {[id |-> s, started |-> t, status |-> "running", point |-> "none"]}]
        /\ walk' = [todo |-> File, seen |-> {}, skipped |-> {}, snap |-> s,
                    important |-> important, began |-> edits]
  BY DEF BeginSnapshot
<1> DEFINE r == [id |-> s, started |-> t, status |-> "running", point |-> "none"]
<1>2. r \in Snapshot /\ r.id = s
  BY DEF Snapshot
<1>3. s \in Nat /\ walk'.snap = s
  BY <1>1, BoundsAreNaturals DEF SnapshotId
<1>4. txn' = [db EXCEPT !.snapshots = @ \cup {r}]
  BY <1>1
<1> HIDE DEF r
<1>5. /\ txn' \in Database
      /\ txn'.files = db.files
      /\ txn'.versions = db.versions
      /\ txn'.snapshots = db.snapshots \cup {r}
  BY <1>0, <1>2, <1>4 DEF Database
<1>6. ImageOK(txn')
  BY <1>0, <1>1, <1>2, <1>3, <1>5, AddSnapshotOK
<1>7. OpenInv'
  BY <1>0, <1>1, <1>2, <1>3, <1>5 DEF OpenInv, IsNextId
<1>8. QED
  BY <1>0, <1>5, <1>6, <1>7 DEF RowsInv

LEMMA CaptureStableOK ==
  ASSUME TypeInv, LockInv, RetentionInv, CaptureStable
  PROVE  RetentionInv'
<1> USE DEF RetentionInv
<1>1. PICK id \in VersionId :
        /\ IsNextId(id, txn.versions)
        /\ txn' = RecordCapture(txn, capture.file, capture.got,
                                stamp[capture.file], walk.snap, id)
  BY DEF CaptureStable
<1> DEFINE f == capture.file
           h == capture.got
           s == walk.snap
           row == [status |-> "active", hash |-> h, stamp |-> stamp[f]]
           n == [id |-> id, file |-> f, snap |-> s, hash |-> h]
<1>2. /\ f \in File /\ h \in Content /\ s \in SnapshotId
      /\ stamp[f] \in 0..MaxEdits
  BY DEF CaptureStable, TypeInv, TypeOK, WalkOK
<1>3. txn \in Database
  BY DEF TypeInv, TypeOK
<1>4. /\ txn' \in Database
      /\ txn'.files = [txn.files EXCEPT ![f] = row]
      /\ txn'.snapshots = txn.snapshots
      /\ IF Active(txn, f) /\ txn.files[f].hash = h
         THEN txn'.versions = txn.versions
         ELSE txn'.versions = txn.versions \cup {n}
  BY <1>1, <1>2, <1>3, RecordCaptureType
<1>5. /\ row.status = "active" /\ row.hash = h
      /\ n.id = id /\ n.file = f /\ n.snap = s /\ n.hash = h
  OBVIOUS
<1>6. /\ db' = db /\ noted' = noted /\ walk' = walk
      /\ phase # "idle" /\ phase' # "idle"
  BY DEF CaptureStable, NextEntry
<1> HIDE DEF row, n, f, h, s
<1>7. /\ txn'.files[f] = row
      /\ \A g \in File \ {f} : txn'.files[g] = txn.files[g]
  BY <1>2, <1>3, <1>4 DEF Database
<1>8. ImageOK(txn')
  <2>1. CASE Active(txn, f) /\ txn.files[f].hash = h
    BY <1>3, <1>4, <1>5, <1>7, <2>1, SameRowOK DEF Active
  <2>2. CASE ~(Active(txn, f) /\ txn.files[f].hash = h)
    <3>1. Says(row, txn.files[f], n)
      BY <1>2, <1>5, NoneIsNoValue DEF Says
    <3>2. id \in Nat /\ s \in Nat
      BY <1>2, BoundsAreNaturals DEF VersionId, SnapshotId
    <3>3. /\ \E r \in txn.snapshots : r.id = s
          /\ \A r \in txn.snapshots : r.id <= s
      BY <1>3, <1>6, <3>2, IdsAreNaturals DEF OpenInv, s
    <3>4. QED
      BY <1>1, <1>2, <1>3, <1>4, <1>5, <2>2, <3>1, <3>2, <3>3, AppendOK
  <2>3. QED
    BY <2>1, <2>2
<1>9. OpenInv'
  BY <1>4, <1>6 DEF OpenInv
<1>10. RowsInv'
  BY <1>5, <1>6, <1>7 DEF RowsInv
<1>11. QED
  BY <1>6, <1>8, <1>9, <1>10

LEMMA MarkMissingOK ==
  ASSUME TypeInv, LockInv, RetentionInv, NEW f \in File, MarkMissing(f)
  PROVE  RetentionInv'
<1> USE DEF RetentionInv
<1>1. PICK id \in VersionId : /\ IsNextId(id, txn.versions)
                              /\ txn' = MarkDeleted(txn, id, f, walk.snap)
  BY DEF MarkMissing
<1> DEFINE s == walk.snap
           row == [txn.files[f] EXCEPT !.status = "deleted"]
           n == [id |-> id, file |-> f, snap |-> s, hash |-> None]
<1>2. /\ txn \in Database /\ s \in SnapshotId
      /\ db' = db /\ noted' = noted /\ walk' = walk /\ phase' = phase
      /\ phase # "idle"
      /\ txn.files[f].status = "active"
  BY DEF MarkMissing, Missing, Active, TypeInv, TypeOK, WalkOK, walkVars
<1>3. /\ txn' \in Database
      /\ txn'.files = [txn.files EXCEPT ![f] = row]
      /\ txn'.snapshots = txn.snapshots
      /\ txn'.versions = txn.versions \cup {n}
  BY <1>1, <1>2, MarkDeletedType
<1>4. /\ row.status = "deleted" /\ row.hash = txn.files[f].hash
      /\ n.id = id /\ n.file = f /\ n.snap = s /\ n.hash = None
  BY <1>2 DEF Database, Row
<1> HIDE DEF row, n, s
<1>5. /\ txn'.files[f] = row
      /\ \A g \in File \ {f} : txn'.files[g] = txn.files[g]
  BY <1>2, <1>3 DEF Database
<1>6. ImageOK(txn')
  <2>1. Says(row, txn.files[f], n)
    BY <1>2, <1>4 DEF Says
  <2>2. id \in Nat /\ s \in Nat
    BY <1>2, BoundsAreNaturals DEF VersionId, SnapshotId
  <2>3. /\ \E r \in txn.snapshots : r.id = s
        /\ \A r \in txn.snapshots : r.id <= s
    BY <1>2, <2>2, IdsAreNaturals DEF OpenInv, s
  <2>4. QED
    BY <1>1, <1>2, <1>3, <1>4, <2>1, <2>2, <2>3, AppendOK
<1>7. OpenInv'
  BY <1>2, <1>3 DEF OpenInv
<1>8. RowsInv'
  BY <1>2, <1>4, <1>5 DEF RowsInv
<1>9. QED
  BY <1>2, <1>6, <1>7, <1>8

\* What a step can do to the committed rows.
RowsKept ==
  /\ db.versions \subseteq db'.versions
  /\ db.snapshots \subseteq db'.snapshots

PlanApplied == \E cutoff : db' = Pruned(db, cutoff)

\* e is t but for columns of the row of snapshot n.
Finishes(e, t, n) ==
  /\ e \in Database /\ e.files = t.files /\ e.versions = t.versions
  /\ \A s \in t.snapshots : \E r \in e.snapshots : r.id = s.id
  /\ \A r \in e.snapshots : \E s \in t.snapshots : r.id = s.id
  /\ \A s \in t.snapshots : s.id # n => s \in e.snapshots

LEMMA FinishSnapshotRows ==
  ASSUME NEW t \in Database, NEW n \in SnapshotId,
         NEW status \in {"running", "complete", "failed"},
         NEW point \in {"none", "plain", "important"}
  PROVE  Finishes(FinishSnapshot(t, n, status, point), t, n)
<1> DEFINE e == FinishSnapshot(t, n, status, point)
           new(r) == IF r.id = n THEN [r EXCEPT !.status = status, !.point = point] ELSE r
<1>1. e \in Database /\ e.files = t.files /\ e.versions = t.versions
  BY FinishSnapshotType
<1>2. e.snapshots = {new(r) : r \in t.snapshots}
  BY DEF FinishSnapshot, Database
<1>3. \A r \in t.snapshots : /\ new(r).id = r.id
                            /\ r.id # n => new(r) = r
  BY DEF Database, Snapshot
<1> HIDE DEF e
<1>4. \A s \in t.snapshots : \E r \in e.snapshots : r.id = s.id
  <2> TAKE s \in t.snapshots
  <2>1. new(s) \in e.snapshots
    BY <1>2
  <2>2. new(s).id = s.id
    BY <1>3
  <2> HIDE DEF new
  <2>3. QED
    BY <2>1, <2>2
<1>5. \A r \in e.snapshots : \E s \in t.snapshots : r.id = s.id
  <2> TAKE r \in e.snapshots
  <2>1. PICK s \in t.snapshots : r = new(s)
    BY <1>2
  <2>2. QED
    BY <1>3, <2>1
<1>6. \A s \in t.snapshots : s.id # n => s \in e.snapshots
  <2> TAKE s \in t.snapshots
  <2>1. new(s) \in e.snapshots
    BY <1>2
  <2>2. QED
    BY <1>3, <2>1
<1>7. Finishes(e, t, n)
  BY <1>1, <1>4, <1>5, <1>6 DEF Finishes
<1>8. QED
  BY <1>7 DEF e

\* A commit of image d, which tells of every row of db and ends the snapshot.
LEMMA CommitOK ==
  ASSUME TypeInv, RetentionInv, NEW d \in Database, Commit(d), ImageOK(d),
         d.files \in {db.files, txn.files}, noted' = noted
  PROVE  RetentionInv'
<1>1. db' = d /\ txn' = d /\ phase' = "idle"
  BY DEF Commit
<1>2. \A o \in Observers : noted[o] \in File \cup {None}
  BY DEF TypeInv, TypeOK
<1>3. \A f \in File : db.files[f].status # "none" => d.files[f].status # "none"
  BY DEF RetentionInv, RowsInv
<1>4. RowsInv'
  BY <1>1, <1>2, <1>3 DEF RetentionInv, RowsInv
<1>5. OpenInv'
  BY <1>1 DEF OpenInv
<1>6. QED
  BY <1>1, <1>4, <1>5 DEF RetentionInv

LEMMA EndSnapshotOK ==
  ASSUME TypeInv, LockInv, TxnInv, RetentionInv, EndSnapshot
  PROVE  RetentionInv' /\ RowsKept
<1>1. /\ phase # "idle" /\ walk.snap \in SnapshotId
      /\ db \in Database /\ txn \in Database
      /\ noted' = noted
  BY DEF EndSnapshot, CommitSnapshot, FailSnapshot, CrashSnapshot, WalkOK, LockInv,
         TypeInv, TypeOK
<1>2. ASSUME NEW status \in {"running", "complete", "failed"},
             NEW point \in {"none", "plain", "important"},
             Commit(FinishSnapshot(txn, walk.snap, status, point))
      PROVE  RetentionInv' /\ RowsKept
  <2> DEFINE d == FinishSnapshot(txn, walk.snap, status, point)
  <2>1. Finishes(d, txn, walk.snap)
    BY <1>1, FinishSnapshotRows
  <2>2. Commit(d)
    BY <1>2
  <2> HIDE DEF d
  <2>3. ImageOK(d)
    BY <1>1, <2>1, SameSnapshotIdsOK DEF RetentionInv, Finishes
  <2>4. RetentionInv'
    BY <1>1, <2>1, <2>2, <2>3, CommitOK DEF Finishes
  <2>5. \A s \in db.snapshots : s \in d.snapshots
    <3>1. \A s \in db.snapshots : s \in txn.snapshots /\ s.id # walk.snap
      BY <1>1, IdsAreNaturals DEF RetentionInv, OpenInv
    <3>2. QED
      BY <2>1, <3>1 DEF Finishes
  <2>6. RowsKept
    BY <2>1, <2>2, <2>5 DEF RowsKept, Commit, TxnInv, Extends, Finishes
  <2>7. QED
    BY <2>4, <2>6
<1>3. CASE CommitSnapshot
  <2> DEFINE p == IF walk.important THEN "important" ELSE "plain"
  <2>1. p \in {"none", "plain", "important"}
    OBVIOUS
  <2>2. Commit(FinishSnapshot(txn, walk.snap, "complete", p))
    BY <1>3 DEF CommitSnapshot
  <2> HIDE DEF p
  <2>3. QED
    BY <1>2, <2>1, <2>2
<1>4. CASE FailSnapshot
  BY <1>2, <1>4 DEF FailSnapshot
<1>5. CASE CrashSnapshot
  <2>1. Commit(db)
    BY <1>5 DEF CrashSnapshot
  <2>2. RetentionInv'
    BY <1>1, <2>1, CommitOK DEF RetentionInv
  <2>3. QED
    BY <2>1, <2>2 DEF Commit, RowsKept
<1>6. QED
  BY <1>3, <1>4, <1>5 DEF EndSnapshot

LEMMA ApplyPlanOK ==
  ASSUME TypeInv, LockInv, RetentionInv, NEW c \in Cleaners, NEW cutoff,
         ApplyPlan(c, cutoff)
  PROVE  RetentionInv' /\ PlanApplied
<1>1. /\ db' = Pruned(db, cutoff) /\ txn' = db'
      /\ noted' = noted /\ phase' = phase /\ writer = "free"
  BY DEF ApplyPlan, walkVars
<1>2. /\ db \in Database
      /\ db'.files = db.files
  BY <1>1, PrunedType DEF TypeInv, TypeOK
<1>3. ImageOK(db')
  BY <1>1, <1>2, PrunedOK DEF RetentionInv
<1>4. phase' = "idle"
  BY <1>1 DEF LockInv
<1>5. RowsInv'
  BY <1>1, <1>2 DEF RetentionInv, RowsInv
<1>6. OpenInv'
  BY <1>4 DEF OpenInv
<1>7. QED
  BY <1>1, <1>3, <1>5, <1>6 DEF RetentionInv, PlanApplied

LEMMA WriteMarkerOK ==
  ASSUME TypeInv, LockInv, RetentionInv, NEW o \in Observers, WriteMarker(o)
  PROVE  RetentionInv' /\ RowsKept
<1> DEFINE f == noted[o]
<1>1. /\ f \in File /\ db \in Database /\ db.files[f].status # "none"
      /\ phase = "idle" /\ phase' = "idle"
      /\ \A a \in Observers : noted'[a] # None => noted'[a] = noted[a]
      /\ \A a \in Observers : noted[a] \in File \cup {None}
  BY DEF WriteMarker, TypeInv, TypeOK, LockInv, RetentionInv, RowsInv, walkVars
<1>2. PICK s \in SnapshotId, id \in VersionId :
        /\ IsNextId(s, db.snapshots)
        /\ IsNextId(id, db.versions)
        /\ db'.files = [db.files EXCEPT ![f].status = "deleted"]
        /\ db'.versions = db.versions \cup
             {[id |-> id, file |-> f, snap |-> s, hash |-> None]}
        /\ db'.snapshots = db.snapshots \cup
             {[id |-> s, started |-> id, status |-> "complete", point |-> "plain"]}
  BY WriteMarkerStep
<1>3. db' \in Database /\ txn' = db'
  BY WriteMarkerStep
<1> DEFINE row == [db.files[f] EXCEPT !.status = "deleted"]
           n == [id |-> id, file |-> f, snap |-> s, hash |-> None]
           r == [id |-> s, started |-> id, status |-> "complete", point |-> "plain"]
           d == [db EXCEPT !.snapshots = @ \cup {r}]
<1>4. /\ row.status = "deleted" /\ row.hash = db.files[f].hash
      /\ n.id = id /\ n.file = f /\ n.snap = s /\ n.hash = None
      /\ r.id = s
  BY <1>1 DEF Database, Row
<1>5. /\ db'.files = [db.files EXCEPT ![f] = row]
      /\ db'.versions = db.versions \cup {n}
      /\ db'.snapshots = db.snapshots \cup {r}
  BY <1>2
<1>6. /\ d \in Database /\ d.files = db.files
      /\ d.versions = db.versions /\ d.snapshots = db.snapshots \cup {r}
  <2>1. r \in Snapshot
    BY <1>3, <1>5 DEF Database
  <2> HIDE DEF r
  <2>2. QED
    BY <1>1, <2>1 DEF Database
<1> HIDE DEF f, row, n, r, d
<1>7. id \in Nat /\ s \in Nat
  BY BoundsAreNaturals DEF VersionId, SnapshotId
<1>8. ImageOK(d)
  BY <1>1, <1>2, <1>4, <1>6, <1>7, AddSnapshotOK DEF RetentionInv
<1>9. /\ \E a \in d.snapshots : a.id = s
      /\ \A a \in d.snapshots : a.id <= s
  BY <1>1, <1>2, <1>4, <1>6, <1>7, IdsAreNaturals DEF IsNextId
<1>10. Says(row, d.files[f], n)
  BY <1>1, <1>4, <1>6 DEF Says
<1>11. ImageOK(db')
  <2>1. /\ n.file = f /\ n.id \in Nat /\ n.snap \in Nat
        /\ IsNextId(n.id, d.versions)
        /\ \E a \in d.snapshots : a.id = n.snap
        /\ \A a \in d.snapshots : a.id <= n.snap
    BY <1>2, <1>4, <1>6, <1>7, <1>9
  <2>2. /\ db'.versions = d.versions \cup {n}
        /\ db'.snapshots = d.snapshots
        /\ db'.files = [d.files EXCEPT ![f] = row]
    BY <1>5, <1>6
  <2>3. QED
    BY <1>1, <1>3, <1>6, <1>8, <1>10, <2>1, <2>2, AppendOK
<1>12. RowsInv'
  <2>1. \A g \in File : db.files[g].status # "none" => db'.files[g].status # "none"
    BY <1>1, <1>4, <1>5 DEF Database
  <2>2. QED
    BY <1>1, <1>3, <2>1 DEF RetentionInv, RowsInv
<1>13. OpenInv'
  BY <1>1 DEF OpenInv
<1>14. QED
  BY <1>3, <1>5, <1>11, <1>12, <1>13 DEF RetentionInv, RowsKept

LEMMA ObserverOK ==
  ASSUME TypeInv, LockInv, RetentionInv, ObserverNext
  PROVE  RetentionInv' /\ RowsKept
<1>1. ASSUME NEW o \in Observers, NEW f \in File, FindActiveRow(o, f)
      PROVE  RetentionInv' /\ RowsKept
  BY <1>1 DEF FindActiveRow, walkVars, RetentionInv, RowsInv, OpenInv, RowsKept,
              Active, TypeInv, TypeOK
<1>2. ASSUME NEW o \in Observers, RetryMarker(o) \/ LeaveToSnapshot(o)
      PROVE  RetentionInv' /\ RowsKept
  BY <1>2 DEF RetryMarker, LeaveToSnapshot, walkVars, RetentionInv, RowsInv, OpenInv,
              RowsKept, TypeInv, TypeOK
<1>3. QED
  BY <1>1, <1>2, WriteMarkerOK DEF ObserverNext

LEMMA RetentionNext ==
  ASSUME TypeInv, LockInv, TxnInv, RetentionInv, [Next]_vars
  PROVE  RetentionInv' /\ (RowsKept \/ PlanApplied)
<1> DEFINE Goal == RetentionInv' /\ (RowsKept \/ PlanApplied)
\* Most steps leave rows, walk.snap and what observers found alone.
<1>1. ASSUME UNCHANGED <<db, txn, noted>>,
             phase' # "idle" => phase # "idle" /\ walk'.snap = walk.snap
      PROVE  Goal
  BY <1>1 DEF RetentionInv, RowsInv, OpenInv, RowsKept
<1>2. ASSUME NEW important \in BOOLEAN, BeginSnapshot(important) PROVE Goal
  BY <1>2, BeginSnapshotOK DEF BeginSnapshot, RowsKept
<1>3. CASE CaptureStable
  BY <1>3, CaptureStableOK DEF CaptureStable, RowsKept
<1>4. ASSUME NEW f \in File, MarkMissing(f) PROVE Goal
  BY <1>4, MarkMissingOK DEF MarkMissing, RowsKept
<1>5. CASE EndSnapshot
  BY <1>5, EndSnapshotOK
<1>6. ASSUME NEW c \in Cleaners, NEW cutoff, ApplyPlan(c, cutoff) PROVE Goal
  BY <1>6, ApplyPlanOK
<1>7. CASE ObserverNext
  BY <1>7, ObserverOK
<1>8. CASE UserNext
  BY <1>1, <1>8 DEF UserNext, Edit, Remove, walkVars
<1>9. CASE WalkStep
  BY <1>1, <1>9, WalkStepSnap, WalkStepFrame
<1>10. CASE StoreObject
  BY <1>1, <1>10 DEF StoreObject
<1>11. ASSUME NEW c \in Cleaners, ReclaimStep(c) PROVE Goal
  BY <1>1, <1>11 DEF ReclaimStep, LockAndRecheck, Unlink, FinishCleanup,
                     AbandonCleanup, walkVars
<1>12. CASE UNCHANGED vars
  BY <1>1, <1>12 DEF vars
<1>13. QED
  BY <1>2, <1>3, <1>4, <1>5, <1>6, <1>7, <1>8, <1>9, <1>10, <1>11, <1>12, NextCases

\* Both images of the database, the committed and the open one, keep the
\* inductive invariant through snapshots, cleanups and markers.
THEOREM RetentionInvariant == Spec => []RetentionInv
<1>1. TypeInv /\ LockInv /\ TxnInv /\ RetentionInv /\ [Next]_vars => RetentionInv'
  BY RetentionNext
<1>2. QED
  BY <1>1, RetentionInit, TypeAndLock, TxnExtendsDb, PTL DEF Spec

-----------------------------------------------------------------------------
(* The properties.                                                         *)

\* Cleanup never takes the version a file's row stands on, and a snapshot that
\* fails half way leaves no row without its version.
THEOREM ContentKept == Spec => []CurrentContentKept
<1>1. RetentionInv => CurrentContentKept
  BY DEF RetentionInv, ImageOK, HasContent, StandsOn, CurrentContentKept
<1>2. QED
  BY <1>1, RetentionInvariant, PTL

\* A file counts as deleted exactly when the last version left of it is a marker,
\* whoever wrote the marker and whatever cleanup took.
THEOREM DeletionsAreMarked == Spec => []StatusMatchesHistory
<1>1. RetentionInv => StatusMatchesHistory
  BY DEF RetentionInv, ImageOK, MarkedDeleted, IsLast, StatusMatchesHistory
<1>2. QED
  BY <1>1, RetentionInvariant, PTL

\* Cleanup never breaks the foreign key of a version on its snapshot.
THEOREM VersionsKeepTheirSnapshots == Spec => []SnapshotsKept
<1>1. RetentionInv => SnapshotsKept
  BY DEF RetentionInv, ImageOK, HasSnapshots, SnapshotsKept
<1>2. QED
  BY <1>1, RetentionInvariant, PTL

\* No step takes an important restore point or a version that it recorded.
THEOREM RestorePointsStay == Spec => RestorePointKept
<1> DEFINE Stays(s) == /\ s \in db'.snapshots
                       /\ \A v \in db.versions : v.snap = s.id => v \in db'.versions
<1>1. ASSUME TypeInv, RowsKept \/ PlanApplied,
             NEW s \in db.snapshots, s.point = "important"
      PROVE  Stays(s)
  <2>1. CASE RowsKept
    BY <2>1 DEF RowsKept
  <2>2. CASE PlanApplied
    <3>1. PICK cutoff : db' = Pruned(db, cutoff)
      BY <2>2 DEF PlanApplied
    <3>2. /\ db'.versions = db.versions \ CandidateVersions(db, cutoff)
          /\ db'.snapshots = db.snapshots \ CandidateSnapshots(db, cutoff)
      BY <1>1, <3>1, PrunedType DEF TypeInv, TypeOK
    <3>3. s \notin CandidateSnapshots(db, cutoff)
      BY <1>1 DEF CandidateSnapshots
    <3>4. \A v \in db.versions : v.snap = s.id => v \notin CandidateVersions(db, cutoff)
      BY <1>1 DEF CandidateVersions
    <3>5. QED
      BY <3>2, <3>3, <3>4
  <2>3. QED
    BY <1>1, <2>1, <2>2
<1>2. TypeInv /\ LockInv /\ TxnInv /\ RetentionInv /\ [Next]_vars
        => [\A s \in db.snapshots : s.point = "important" => Stays(s)]_vars
  BY <1>1, RetentionNext
<1>3. QED
  BY <1>2, RetentionInvariant, TypeAndLock, TxnExtendsDb, PTL DEF Spec, RestorePointKept

\* The highest version and the highest snapshot are never deleted, so SQLite
\* never gives an id out again.
THEOREM IdsStay == Spec => IdsNotReused
<1> DEFINE Stay ==
      /\ \A v \in db.versions : \E w \in db'.versions : v.id <= w.id
      /\ \A s \in db.snapshots : \E r \in db'.snapshots : s.id <= r.id
<1>1. ASSUME TypeInv, RetentionInv, RowsKept \/ PlanApplied
      PROVE  Stay
  <2>1. db \in Database
    BY <1>1 DEF TypeInv, TypeOK
  <2>2. CASE RowsKept
    BY <2>1, <2>2, IdsAreNaturals DEF RowsKept
  <2>3. CASE PlanApplied
    <3>1. PICK cutoff : db' = Pruned(db, cutoff)
      BY <2>3 DEF PlanApplied
    <3>2. QED
      BY <1>1, <2>1, <3>1, PrunedOK DEF RetentionInv
  <2>4. QED
    BY <1>1, <2>2, <2>3
<1>2. TypeInv /\ LockInv /\ TxnInv /\ RetentionInv /\ [Next]_vars => [Stay]_vars
  BY <1>1, RetentionNext
<1>3. QED
  BY <1>2, RetentionInvariant, TypeAndLock, TxnExtendsDb, PTL DEF Spec, IdsNotReused

-----------------------------------------------------------------------------
(* A complete snapshot and the folder.                                     *)

\* A snapshot that fails is not complete.
LEMMA FailedIsNotComplete ==
  ASSUME NEW t \in Database, NEW n \in SnapshotId,
         NEW s \in FinishSnapshot(t, n, "failed", "none").snapshots, s.id = n
  PROVE  s.status # "complete"
<1> DEFINE failed(r) == [r EXCEPT !.status = "failed", !.point = "none"]
<1>1. PICK r \in t.snapshots : s = IF r.id = n THEN failed(r) ELSE r
  BY DEF FinishSnapshot, Database
<1>2. r \in Snapshot
  BY DEF Database
<1>3. failed(r).status = "failed"
  BY <1>2 DEF Snapshot
<1> HIDE DEF failed
<1>4. QED
  BY <1>1, <1>3

\* Only the commit at the end of its walk makes a snapshot complete.
LEMMA CompletesByCommit ==
  ASSUME TypeInv, LockInv, RetentionInv, [Next]_vars, Completes
  PROVE  CommitSnapshot
<1>1. /\ writer = "snapshot" /\ writer # "free" /\ phase # "idle"
      /\ walk.snap \in SnapshotId /\ txn \in Database /\ db \in Database
  BY VaultIs DEF Completes, LockInv, TypeInv, WalkOK
<1>2. PICK s \in db'.snapshots : s.id = walk.snap /\ s.status = "complete"
  BY DEF Completes
<1>3. s \notin db.snapshots
  <2>1. \A r \in db.snapshots : r.id < walk.snap /\ r.id \in Nat
    BY <1>1, IdsAreNaturals DEF RetentionInv, OpenInv
  <2>2. QED
    BY <1>2, <2>1
<1>4. db' # db
  BY <1>2, <1>3
<1>5. EndSnapshot
  BY <1>1, <1>4, NextCases, WalkStepFrame
     DEF UserNext, Edit, Remove, BeginSnapshot, StoreObject, CaptureStable, MarkMissing,
         ApplyPlan, ReclaimStep, LockAndRecheck, Unlink, FinishCleanup, AbandonCleanup,
         ObserverNext, FindActiveRow, WriteMarker, RetryMarker, LeaveToSnapshot, vars
<1>6. ~CrashSnapshot
  BY <1>4 DEF CrashSnapshot, Commit
<1>7. ~FailSnapshot
  BY <1>1, <1>2, FailedIsNotComplete DEF FailSnapshot, Commit
<1>8. QED
  BY <1>5, <1>6, <1>7 DEF EndSnapshot

\* A snapshot that nobody interfered with leaves the rows in agreement with the
\* folder, but for the entries it could not read.
THEOREM CompleteIsTrue == Spec => CompleteSnapshotMatchesTree
<1> DEFINE Agrees(f) == /\ Active(db', f) <=> tree[f] # None
                        /\ tree[f] # None => db'.files[f].hash = tree[f]
           Step == Completes /\ walk.began = edits => \A f \in File \ walk.skipped : Agrees(f)
<1>1. ASSUME TypeInv, LockInv, RetentionInv, CaptureInv, [Next]_vars, Completes,
             walk.began = edits, NEW f \in File \ walk.skipped
      PROVE  Agrees(f)
  <2>1. CommitSnapshot
    BY <1>1, CompletesByCommit
  <2>2. phase = "walk" /\ walk.todo = {} /\ ~Missing(f)
    BY <2>1 DEF CommitSnapshot
  <2>3. /\ f \in walk.seen <=> tree[f] # None
        /\ f \in walk.seen => Active(txn, f) /\ txn.files[f].hash = tree[f]
    BY <1>1, <2>2 DEF CaptureInv, WalkTrue, Capturing
  <2>4. db'.files = txn.files
    <3> DEFINE p == IF walk.important THEN "important" ELSE "plain"
    <3>1. p \in {"none", "plain", "important"} /\ walk.snap \in SnapshotId /\ txn \in Database
      BY <1>1, <2>2, VaultIs DEF TypeInv, WalkOK
    <3>2. db' = FinishSnapshot(txn, walk.snap, "complete", p)
      BY <2>1 DEF CommitSnapshot, Commit
    <3> HIDE DEF p
    <3>3. QED
      BY <3>1, <3>2, FinishSnapshotType
  <2>5. QED
    BY <2>2, <2>3, <2>4 DEF Missing, Active
<1>2. TypeInv /\ LockInv /\ RetentionInv /\ CaptureInv /\ [Next]_vars => [Step]_vars
  BY <1>1
<1>3. QED
  BY <1>2, RetentionInvariant, TypeAndLock, CaptureInvariant, PTL
     DEF Spec, CompleteSnapshotMatchesTree

-----------------------------------------------------------------------------
(* Prune.                                                                  *)

\* Prune alone: what it has not found in the database, and what it is about to
\* unlink, is not needed, as nobody writes a version with content.
AloneInv ==
  /\ RecoveryInv
  /\ pruner # "idle" => writer # "snapshot"
  /\ pruner = "list" => Hashes(db.versions) \subseteq referenced
  /\ pruner = "unlink" => doomed \cap Hashes(db.versions) = {}

PruneInv == TypeInv /\ LockInv /\ PruneTypeOK /\ (~overlapped => AloneInv)

\* Without a snapshot, no step refers to content it did not refer to before.
LEMMA HashesOnlyGo ==
  ASSUME TypeInv, LockInv, [Next]_vars, writer # "snapshot"
  PROVE  Hashes(db'.versions) \subseteq Hashes(db.versions)
<1>0. phase = "idle" /\ db \in Database
  BY VaultIs DEF LockInv
<1>1. ASSUME db' = db PROVE Hashes(db'.versions) \subseteq Hashes(db.versions)
  BY <1>1
<1>2. ASSUME NEW c \in Cleaners, NEW cutoff, ApplyPlan(c, cutoff)
      PROVE  Hashes(db'.versions) \subseteq Hashes(db.versions)
  <2>1. db'.versions \subseteq db.versions
    BY <1>0, <1>2, PrunedType DEF ApplyPlan
  <2>2. QED
    BY <2>1, HashesMonotone
<1>3. ASSUME NEW o \in Observers, WriteMarker(o)
      PROVE  Hashes(db'.versions) \subseteq Hashes(db.versions)
  <2>1. PICK s \in SnapshotId, id \in VersionId :
          db'.versions = db.versions \cup
            {[id |-> id, file |-> noted[o], snap |-> s, hash |-> None]}
    BY <1>3, WriteMarkerStep
  <2>2. PICK v : v.hash = None /\ db'.versions = db.versions \cup {v}
    BY <2>1
  <2>3. QED
    BY <2>2, HashesOfOneMore
<1>4. ~WalkStep /\ ~EndSnapshot
  BY <1>0, WalkStepFrame, EndSnapshotStep
<1>5. QED
  BY <1>0, <1>1, <1>2, <1>3, <1>4, NextCases
     DEF UserNext, Edit, Remove, BeginSnapshot, StoreObject, CaptureStable, MarkMissing,
         ReclaimStep, LockAndRecheck, Unlink, FinishCleanup, AbandonCleanup, ObserverNext,
         FindActiveRow, RetryMarker, LeaveToSnapshot, vars

LEMMA PruneInitHolds == PruneInit => PruneInv
<1> SUFFICES ASSUME PruneInit PROVE PruneInv
  OBVIOUS
<1>1. TypeInv /\ LockInv /\ RecoveryInv
  BY InitType, LockInit, RecoveryInit DEF PruneInit
<1>2. PruneTypeOK
  BY <1>1 DEF PruneInit, PruneTypeOK, TypeInv
<1>3. AloneInv
  BY <1>1 DEF PruneInit, AloneInv
<1>4. QED
  BY <1>1, <1>2, <1>3 DEF PruneInv

\* The vault's own steps, and none at all.
LEMMA VaultStepKeeps ==
  ASSUME PruneInv, [Next]_vars, UNCHANGED pruneVars,
         overlapped' = (overlapped \/ Overlap) \/ UNCHANGED allVars
  PROVE  PruneInv'
<1>0. TypeInv /\ LockInv /\ UNCHANGED <<pruner, referenced, doomed>> /\ PruneTypeOK
  BY DEF PruneInv, pruneVars
<1>1. TypeInv' /\ LockInv'
  BY <1>0, TypeNext, LockNext
<1>2. overlapped' \in BOOLEAN
  BY <1>0 DEF PruneTypeOK, allVars
<1>3. PruneTypeOK'
  BY <1>0, <1>1, <1>2 DEF PruneTypeOK, TypeInv
<1>4. ASSUME ~overlapped' PROVE AloneInv'
  <2>1. ~overlapped /\ AloneInv
    <3>1. overlapped' = (overlapped \/ Overlap) \/ overlapped' = overlapped
      BY DEF allVars
    <3>2. ~overlapped
      BY <1>4, <3>1
    <3>3. QED
      BY <3>2 DEF PruneInv
  <2>2. RecoveryInv'
    BY <1>0, <2>1, RecoveryNext DEF AloneInv
  <2>3. pruner' # "idle" => writer' # "snapshot"
    BY <1>0, <1>4, <2>1 DEF Overlap, AloneInv, allVars, vars
  <2>4. pruner # "idle" => Hashes(db'.versions) \subseteq Hashes(db.versions)
    BY <1>0, <2>1, HashesOnlyGo DEF AloneInv
  <2>5. QED
    BY <1>0, <2>1, <2>2, <2>3, <2>4 DEF AloneInv
<1>5. QED
  BY <1>1, <1>3, <1>4 DEF PruneInv

\* The steps of prune that change nothing of the vault.
LEMMA PrunerStepKeeps ==
  ASSUME PruneInv, ReadReferenced \/ ListObjects \/ EndPrune
  PROVE  PruneInv'
<1>0. /\ TypeInv /\ LockInv /\ PruneTypeOK /\ UNCHANGED vars
      /\ db \in Database /\ objects \in SUBSET Content
  BY VaultIs DEF PruneInv, ReadReferenced, ListObjects, EndPrune, TypeInv, TypeOK
<1>1. TypeInv' /\ LockInv'
  BY <1>0, TypeNext, LockNext
<1>2. Hashes(db.versions) \in SUBSET Content
  BY <1>0 DEF Hashes, Database, Version
<1>3. PruneTypeOK'
  BY <1>0, <1>1, <1>2 DEF PruneTypeOK, TypeInv, ReadReferenced, ListObjects, EndPrune
<1>4. ASSUME ~overlapped' PROVE AloneInv'
  <2>1. ~overlapped /\ AloneInv
    BY <1>0, <1>4 DEF PruneInv, ReadReferenced, ListObjects, EndPrune, PruneTypeOK
  <2>2. RecoveryInv'
    BY <1>0, <2>1, RecoveryNext DEF AloneInv
  <2>3. UNCHANGED <<db, writer>>
    BY <1>0 DEF vars
  <2>4. QED
    BY <1>4, <2>1, <2>2, <2>3
       DEF AloneInv, ReadReferenced, ListObjects, EndPrune, Overlap
<1>5. QED
  BY <1>1, <1>3, <1>4 DEF PruneInv

\* What prune unlinks alone is an object that no version needs.
LEMMA UnlinkObjectKeeps ==
  ASSUME PruneInv, NEW h \in Content, UnlinkObject(h)
  PROVE  PruneInv'
<1>0. TypeInv /\ LockInv /\ PruneTypeOK
  BY DEF PruneInv
<1>1. /\ pruner = "unlink" /\ h \in doomed /\ objects' = objects \ {h}
      /\ doomed' = doomed \ {h}
      /\ UNCHANGED <<tree, stamp, edits, held, events, db, txn, writer, phase, walk, capture,
                     cleaner, garbage, noted, pruner, referenced, overlapped>>
  BY DEF UnlinkObject, userVars, walkVars, cleanVars
<1>2. TypeInv' /\ LockInv'
  BY <1>0, <1>1 DEF TypeInv, TypeOK, WalkOK, LockInv
<1>3. PruneTypeOK'
  BY <1>0, <1>1, <1>2 DEF PruneTypeOK, TypeInv
<1>4. ASSUME ~overlapped' PROVE AloneInv'
  <2>1. AloneInv /\ phase = "idle" /\ txn = db
    BY <1>0, <1>1, <1>4 DEF PruneInv, AloneInv, LockInv
  <2>2. h \notin Hashes(db.versions)
    BY <1>1, <2>1 DEF AloneInv
  <2>3. RecoveryInv'
    BY <1>1, <2>1, <2>2 DEF AloneInv, RecoveryInv, Recoverable
  <2>4. QED
    BY <1>1, <2>1, <2>3 DEF AloneInv
<1>5. QED
  BY <1>2, <1>3, <1>4 DEF PruneInv

\* Prune beside everything else: while no snapshot is written between its query
\* and its last unlink, what it holds in hand stays out of every version.
THEOREM PruneInvariant == PruneSpec => []PruneInv
<1>1. PruneInv /\ [PruneNext]_allVars => PruneInv'
  <2> SUFFICES ASSUME PruneInv, [PruneNext]_allVars PROVE PruneInv'
    OBVIOUS
  <2>1. CASE VaultStep
    BY <2>1, VaultStepKeeps DEF VaultStep
  <2>2. CASE UNCHANGED allVars
    BY <2>2, VaultStepKeeps DEF allVars, pruneVars
  <2>3. QED
    BY <2>1, <2>2, PrunerStepKeeps, UnlinkObjectKeeps DEF PruneNext
<1>2. QED
  BY <1>1, PruneInitHolds, PTL DEF PruneSpec

\* prune.py: the types of the vault stay beside it; nothing it is to unlink is among
\* what its query returned, and no run of it knows what an earlier one read.
THEOREM PruneTypeCorrect == PruneSpec => []PruneTypeOK
<1>1. PruneInv => PruneTypeOK
  BY DEF PruneInv
<1>2. QED
  BY <1>1, PruneInvariant, PTL

\* prune.py: whatever cleanups and markers do between its query, its listing and its
\* unlinks, prune takes no object a version needs while no snapshot is written.
THEOREM PruneAloneIsSafe == PruneSpec => []AloneIsSafe
<1>1. PruneInv => AloneIsSafe
  BY DEF PruneInv, AloneInv, RecoveryInv, AloneIsSafe
<1>2. QED
  BY <1>1, PruneInvariant, PTL
=============================================================================
