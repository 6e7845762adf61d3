--------------------------- MODULE HistoryProofs ----------------------------
(***************************************************************************)
(* Module Vault implements module History: the restorable versions of the  *)
(* vault evolve by recording newer ones and by forgetting superseded ones. *)
(***************************************************************************)
EXTENDS VaultProofs

\* T is S with versions added whose ids are above all those of S.
Extends(T, S) ==
  /\ S \subseteq T
  /\ \A v \in S, n \in T \ S : v.id < n.id

LEMMA ExtendsReflexive == ASSUME NEW S PROVE Extends(S, S)
  BY DEF Extends

LEMMA ExtendsByNext ==
  ASSUME NEW S, NEW T \in SUBSET Version, S \subseteq T, Extends(T, S),
         NEW n, IsNextId(n.id, T)
  PROVE  Extends(T \cup {n}, S)
  BY DEF Extends, IsNextId

\* The image of a snapshot in progress only adds newer versions.
TxnInv == Extends(txn.versions, db.versions)

\* What a step can do to the committed versions.
Recorded == Extends(db'.versions, db.versions)

Forgotten ==
  \E cutoff : db'.versions = db.versions \ CandidateVersions(db, cutoff)

\* Both ways a walk adds a version, by the id it is given.
LEMMA RecordCaptureVersions ==
  ASSUME NEW t \in Database, NEW f \in File, NEW h, NEW st, NEW s, NEW id
  PROVE  \E n : /\ n.id = id
                /\ RecordCapture(t, f, h, st, s, id).versions
                     \in {t.versions, t.versions \cup {n}}
<1> DEFINE n == [id |-> id, file |-> f, snap |-> s, hash |-> h]
<1>1. RecordCapture(t, f, h, st, s, id).versions
        \in {t.versions, t.versions \cup {n}}
  BY DEF RecordCapture, InsertVersion, Database
<1>2. n.id = id
  OBVIOUS
<1>3. QED
  BY <1>1, <1>2

LEMMA MarkDeletedVersions ==
  ASSUME NEW t \in Database, NEW f \in File, NEW s, NEW id
  PROVE  \E n : /\ n.id = id
                /\ MarkDeleted(t, id, f, s).versions = t.versions \cup {n}
<1> DEFINE n == [id |-> id, file |-> f, snap |-> s, hash |-> None]
<1>1. MarkDeleted(t, id, f, s).versions = t.versions \cup {n}
  BY DEF MarkDeleted, InsertVersion, Database
<1>2. n.id = id
  OBVIOUS
<1>3. QED
  BY <1>1, <1>2

LEMMA CaptureStableExtends ==
  ASSUME TypeInv, TxnInv, CaptureStable
  PROVE  TxnInv' /\ Recorded
<1>1. PICK id \in VersionId :
        /\ IsNextId(id, txn.versions)
        /\ txn' = RecordCapture(txn, capture.file, capture.got,
                                stamp[capture.file], walk.snap, id)
  BY DEF CaptureStable
<1>2. capture.file \in File /\ txn \in Database
  BY DEF CaptureStable, TypeInv, TypeOK, WalkOK
<1>3. PICK n : /\ n.id = id
               /\ txn'.versions \in {txn.versions, txn.versions \cup {n}}
  BY <1>1, <1>2, RecordCaptureVersions
<1>4. txn.versions \in SUBSET Version
  BY <1>2 DEF Database
<1>5. db' = db
  BY DEF CaptureStable
<1>6. Extends(txn.versions \cup {n}, db.versions)
  BY <1>1, <1>3, <1>4, ExtendsByNext DEF TxnInv, Extends
<1>7. QED
  BY <1>3, <1>5, <1>6, ExtendsReflexive DEF TxnInv, Recorded

LEMMA MarkMissingExtends ==
  ASSUME TypeInv, TxnInv, NEW f \in File, MarkMissing(f)
  PROVE  TxnInv' /\ Recorded
<1>1. PICK id \in VersionId : /\ IsNextId(id, txn.versions)
                              /\ txn' = MarkDeleted(txn, id, f, walk.snap)
  BY DEF MarkMissing
<1>2. txn \in Database
  BY DEF TypeInv, TypeOK
<1>3. PICK n : n.id = id /\ txn'.versions = txn.versions \cup {n}
  BY <1>1, <1>2, MarkDeletedVersions
<1>4. txn.versions \in SUBSET Version
  BY <1>2 DEF Database
<1>5. db' = db
  BY DEF MarkMissing
<1>6. Extends(txn.versions \cup {n}, db.versions)
  BY <1>1, <1>3, <1>4, ExtendsByNext DEF TxnInv, Extends
<1>7. QED
  BY <1>3, <1>5, <1>6, ExtendsReflexive DEF TxnInv, Recorded

LEMMA WriteMarkerExtends ==
  ASSUME TypeInv, NEW o \in Observers, WriteMarker(o)
  PROVE  TxnInv' /\ Recorded
<1>1. PICK n : /\ IsNextId(n.id, db.versions)
               /\ db'.versions = db.versions \cup {n}
  <2>1. noted[o] \in File /\ db \in Database
    BY DEF WriteMarker, TypeInv, TypeOK
  <2>2. PICK s \in SnapshotId, id \in VersionId :
          /\ IsNextId(id, db.versions)
          /\ db' = [MarkDeleted(db, id, noted[o], s) EXCEPT !.snapshots = @ \cup
               {[id |-> s, started |-> id, status |-> "complete", point |-> "plain"]}]
    BY DEF WriteMarker
  <2>3. PICK n : /\ n.id = id
                 /\ MarkDeleted(db, id, noted[o], s).versions = db.versions \cup {n}
    BY <2>1, MarkDeletedVersions
  <2>4. MarkDeleted(db, id, noted[o], s) \in Database
    BY <2>1, <2>2, MarkDeletedType
  <2>5. QED
    BY <2>2, <2>3, <2>4 DEF Database
<1>2. db.versions \in SUBSET Version
  BY DEF TypeInv, TypeOK, Database
<1>3. Recorded
  BY <1>1, <1>2, ExtendsReflexive, ExtendsByNext DEF Recorded
<1>4. txn' = db'
  BY WriteMarkerStep
<1>5. QED
  BY <1>3, <1>4, ExtendsReflexive DEF TxnInv

LEMMA ObserverExtends ==
  ASSUME TypeInv, TxnInv, ObserverNext
  PROVE  TxnInv' /\ Recorded
<1>1. ASSUME NEW o \in Observers, WriteMarker(o)
      PROVE  TxnInv' /\ Recorded
  BY <1>1, WriteMarkerExtends
<1>2. ASSUME UNCHANGED <<db, txn>>
      PROVE  TxnInv' /\ Recorded
  BY <1>2, ExtendsReflexive DEF TxnInv, Recorded
<1>3. ASSUME NEW o \in Observers, NEW f \in File, FindActiveRow(o, f)
      PROVE  UNCHANGED <<db, txn>>
  BY <1>3 DEF FindActiveRow
<1>4. ASSUME NEW o \in Observers, RetryMarker(o) \/ LeaveToSnapshot(o)
      PROVE  UNCHANGED <<db, txn>>
  BY <1>4 DEF RetryMarker, LeaveToSnapshot
<1>5. QED
  BY <1>1, <1>2, <1>3, <1>4 DEF ObserverNext

\* Every step records newer versions, or is the first half of a cleanup.
LEMMA VersionsStep ==
  ASSUME TypeInv, LockInv, TxnInv, [Next]_vars
  PROVE  TxnInv' /\ (Recorded \/ Forgotten)
<1> DEFINE Goal == TxnInv' /\ (Recorded \/ Forgotten)
<1>0. db \in Database /\ txn \in Database
  BY DEF TypeInv, TypeOK
<1>1. ASSUME UNCHANGED <<db, txn>> PROVE Goal
  BY <1>1, ExtendsReflexive DEF TxnInv, Recorded
<1>2. ASSUME NEW important \in BOOLEAN, BeginSnapshot(important) PROVE Goal
  <2>1. txn'.versions = db.versions /\ db' = db
    BY <1>2, <1>0 DEF BeginSnapshot, Database
  <2>2. QED
    BY <2>1, ExtendsReflexive DEF TxnInv, Recorded
<1>3. CASE CaptureStable
  BY <1>3, CaptureStableExtends
<1>4. ASSUME NEW f \in File, MarkMissing(f) PROVE Goal
  BY <1>4, MarkMissingExtends
<1>5. CASE EndSnapshot
  <2>1. PICK d \in Database : Commit(d) /\ d.versions \in {db.versions, txn.versions}
    BY <1>5, EndSnapshotStep
  <2>2. db' = d /\ txn' = d
    BY <2>1 DEF Commit
  <2>3. QED
    BY <2>1, <2>2, ExtendsReflexive DEF TxnInv, Recorded
<1>6. ASSUME NEW c \in Cleaners, NEW cutoff, ApplyPlan(c, cutoff) PROVE Goal
  <2>1. /\ db'.versions = db.versions \ CandidateVersions(db, cutoff)
        /\ txn' = db'
    BY <1>6, <1>0, PrunedType DEF ApplyPlan
  <2>2. QED
    BY <2>1, ExtendsReflexive DEF TxnInv, Forgotten
<1>7. CASE ObserverNext
  BY <1>7, ObserverExtends
<1>8. CASE UserNext
  BY <1>1, <1>8 DEF UserNext, Edit, Remove
<1>9. CASE WalkStep \/ StoreObject
  BY <1>1, <1>9, WalkStepFrame DEF StoreObject
<1>10. ASSUME NEW c \in Cleaners, ReclaimStep(c) PROVE Goal
  BY <1>1, <1>10 DEF ReclaimStep, LockAndRecheck, Unlink, FinishCleanup,
                     AbandonCleanup
<1>11. CASE UNCHANGED vars
  BY <1>1, <1>11 DEF vars
<1>12. QED
  BY <1>2, <1>3, <1>4, <1>5, <1>6, <1>7, <1>8, <1>9, <1>10, <1>11, NextCases

\* What a snapshot has not committed yet extends what is committed.
THEOREM TxnExtendsDb == Spec => []TxnInv
<1>1. Init => TxnInv
  BY ExtendsReflexive DEF Init, TxnInv
<1>2. TypeInv /\ LockInv /\ TxnInv /\ [Next]_vars => TxnInv'
  BY VersionsStep
<1>3. QED
  BY <1>1, <1>2, TypeAndLock, PTL DEF Spec

-----------------------------------------------------------------------------
\* What cleanup deletes is neither a marker nor the newest content of a file.
LEMMA CandidatesMayBeForgotten ==
  ASSUME NEW d, NEW cutoff, NEW v \in CandidateVersions(d, cutoff)
  PROVE  v \in d.versions /\ v.hash # None /\ ~Promise!NewestContent(v, d.versions)
  BY DEF CandidateVersions, NewestContent, Promise!NewestContent

LEMMA HistoryStep ==
  ASSUME TypeInv, LockInv, TxnInv, Recoverable, Recoverable', [Next]_vars
  PROVE  [Promise!Next]_Restorable
<1>1. Restorable = db.versions /\ Restorable' = db'.versions  \* by Recoverable
  BY DEF Recoverable, Restorable, Hashes
<1>2. CASE Recorded
  BY <1>1, <1>2 DEF Recorded, Extends, Promise!Next, Promise!Record
<1>3. CASE Forgotten
  <2>1. PICK cutoff : db'.versions = db.versions \ CandidateVersions(db, cutoff)
    BY <1>3 DEF Forgotten
  <2>2. Promise!Forget
    BY <1>1, <2>1, CandidatesMayBeForgotten DEF Promise!Forget
  <2>3. QED
    BY <2>2 DEF Promise!Next
<1>4. QED
  BY <1>2, <1>3, VersionsStep

\* The versions that can be restored only grow by newer ones and shrink by
\* superseded ones, whatever snapshots, cleanups, deletion markers, crashes and
\* busy locks do: a snapshot's half-finished transaction is never part of the
\* history, and neither a lost process nor a cleanup takes a file's last content.
THEOREM VaultImplementsHistory == Spec => HistorySpec
<1>1. Init => Promise!Init
  BY DEF Init, Promise!Init, Restorable, EmptyDatabase
<1>2. /\ TypeInv /\ LockInv /\ TxnInv
      /\ Recoverable /\ Recoverable' /\ [Next]_vars
      => [Promise!Next]_Restorable
  BY HistoryStep
<1>3. QED
  BY <1>1, <1>2, TxnExtendsDb, TypeAndLock, VersionsAreRecoverable, PTL
     DEF Spec, HistorySpec, Promise!Spec
=============================================================================
