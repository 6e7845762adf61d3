----------------------------- MODULE HomeProofs -----------------------------
(***************************************************************************)
(* Proofs about module Home, for any number of homes, contents, migrators  *)
(* and writers, and without its bounds.                                    *)
(***************************************************************************)
EXTENDS Home, TLAPS

\* A migrator has the lock and has not switched; it has switched.
Early == {"locked", "copying", "copied", "backedUp", "verified", "placed"}
Late == {"switched", "removed", "reported"}
Moving == Early \ {"locked"}

MigrationRecords ==
  [phase : {"idle", "stated"} \cup Early \cup Late, source : Homes, target : Homes,
   remove : BOOLEAN, deep : BOOLEAN, must : SUBSET Contents,
   stage : Vaults \cup {Absent}]

SnapshotRecords ==
  [phase : {"idle", "open", "stored"}, home : Homes \cup {Absent},
   content : Contents \cup {Absent}, mixed : BOOLEAN]

ExportRecords ==
  [phase : {"idle", "validating", "packing"}, home : Homes \cup {Absent},
   db : SUBSET Contents, deep : BOOLEAN, todo : SUBSET Contents,
   packed : SUBSET Contents, bad : SUBSET Contents]

\* The types that HomeTypeOK leaves out.
PartsOK ==
  /\ state \in [status : {"none", "queued", "running", "complete", "failed"},
                destination : Homes]
  /\ mig \in [Migrators -> MigrationRecords]
  /\ \A m \in Migrators : ~Holding(m) => mig[m].stage = Absent
  /\ writer \in [Writers -> SnapshotRecords]
  /\ \A w \in Writers : writer[w].phase # "idle" => writer[w].content \in Contents
  /\ cleanup \in [phase : {"idle", "rows", "checked"}, content : Contents \cup {Absent}]
  /\ exporter \in ExportRecords
  /\ importer \in [phase : {"idle", "clear", "place"}, target : Homes,
                   temp : Vaults \cup {Absent}]

\* An open database is there: who removes a home takes it away from its writers.
OpenOK == \A w \in Writers : writer[w].home # Absent => disk[writer[w].home] # Absent

\* Who moves the vault, and what it has said.
MoveInv ==
  /\ \A m \in Migrators :
       /\ mig[m].phase # "idle" => mig[m].source # mig[m].target
       /\ mig[m].phase \in Late => pointer = mig[m].target
       /\ mig[m].phase \in Moving => state.status # "complete"
       /\ mig[m].phase = "reported" =>
            \/ state.status # "running" \/ "state" \in marred
            \/ \E n \in Migrators \ {m} : mig[n].phase # "idle"
  /\ StateIsTrue

\* A snapshot and a cleanup exclude each other; a snapshot beside a copy is mixed.
CallsInv ==
  /\ cleanup.phase # "idle" => ~Writing
  /\ Migrating => \A w \in Writers : writer[w].phase # "idle" => writer[w].mixed

\* What holds unless a source had moved or an import was to replace the home that
\* came into use: the vault in use is there with all that is saved, and so is what
\* a migration is about to switch to.
SameVault == marred \cap {"stale", "import"} = {}

MigKept(m) ==
  /\ mig[m].phase \in Early => pointer = mig[m].source
  /\ mig[m].phase \in {"backedUp", "verified"} => saved \subseteq mig[m].stage.db
  /\ mig[m].phase = "placed" =>
       /\ disk[mig[m].target] # Absent
       /\ saved \subseteq disk[mig[m].target].db
       /\ \A w \in Writers : writer[w].home # mig[m].target

SnapKept(w) == writer[w].phase # "idle" /\ ~writer[w].mixed => writer[w].home = pointer

KeptInv ==
  /\ disk[pointer] # Absent
  /\ saved \subseteq disk[pointer].db
  /\ importer.phase # "idle" => importer.target # pointer
  /\ \A w \in Writers : SnapKept(w)
  /\ \A m \in Migrators : MigKept(m)

\* What holds unless, beside that, a cleanup was in the middle of its work: every
\* version has its object, in the home in use and in the one to switch to.
SameObjects == marred \cap {"stale", "cleanup", "import"} = {}

Whole(v) == v.db \subseteq v.objects
Sound(v) == v.db \cap v.bad = {}

MigWhole(m) ==
  /\ mig[m].phase = "backedUp" => mig[m].stage.db \subseteq disk[pointer].objects
  /\ mig[m].phase = "verified" =>
       Whole(mig[m].stage) /\ (mig[m].deep => Sound(mig[m].stage))
  /\ mig[m].phase = "placed" =>
       Whole(disk[mig[m].target]) /\ (mig[m].deep => Sound(disk[mig[m].target]))

WholeInv ==
  /\ Whole(disk[pointer])
  /\ "shallow" \notin marred => Sound(disk[pointer])
  /\ \A w \in Writers : writer[w].phase = "stored" /\ writer[w].home = pointer
                        => writer[w].content \in disk[pointer].objects \ disk[pointer].bad
  /\ cleanup.phase = "checked" => cleanup.content \notin disk[pointer].db
  /\ \A m \in Migrators : MigWhole(m)

\* An archive that is being packed has, or has still to get, every version's object.
PackInv ==
  exporter.phase = "packing" => exporter.db \subseteq exporter.todo \cup exporter.packed

HomeInv ==
  /\ HomeTypeOK
  /\ PartsOK
  /\ OpenOK
  /\ MoveInv
  /\ CallsInv
  /\ SameVault => KeptInv
  /\ SameObjects => WholeInv
  /\ PackInv
  /\ ArchiveRestores

-----------------------------------------------------------------------------
(* Types.                                                                  *)

LEMMA EmptyIs == Empty \in Vaults /\ Empty # Absent
  BY HomeAssumption DEF Empty, Vaults

LEMMA AtIs ==
  ASSUME HomeTypeOK, NEW h \in Homes
  PROVE  At(h) \in Vaults
  BY EmptyIs DEF HomeTypeOK, At

LEMMA VaultParts ==
  ASSUME NEW v \in Vaults
  PROVE  v.db \subseteq Contents /\ v.objects \subseteq Contents /\ v.bad \subseteq Contents
  BY DEF Vaults

LEMMA InitParts == Init => HomeTypeOK /\ PartsOK
<1> SUFFICES ASSUME Init PROVE HomeTypeOK /\ PartsOK
  OBVIOUS
<1>1. NoMigration \in MigrationRecords
  BY HomeAssumption DEF NoMigration, MigrationRecords
<1>2. NoSnapshot \in SnapshotRecords
  BY DEF NoSnapshot, SnapshotRecords
<1>3. mig \in [Migrators -> MigrationRecords] /\ writer \in [Writers -> SnapshotRecords]
  BY <1>1, <1>2 DEF Init
<1>4. \A m \in Migrators : mig[m].phase = "idle"
  BY DEF Init, NoMigration
<1>5. \A w \in Writers : writer[w].phase = "idle"
  BY DEF Init, NoSnapshot
<1>6. disk \in [Homes -> Vaults \cup {Absent}]
  BY HomeAssumption DEF Init, Vaults
<1>7. HomeTypeOK
  BY <1>4, <1>6, HomeAssumption DEF Init, HomeTypeOK, Holding, Marks
<1>a. \A m \in Migrators : mig[m].stage = Absent
  BY DEF Init, NoMigration
<1>8. PartsOK
  BY <1>3, <1>a, <1>5, HomeAssumption DEF Init, PartsOK, NoCleanup, NoExport, NoImport,
     ExportRecords
<1>9. QED
  BY <1>7, <1>8

\* What a step of one migrator leaves of the others.
OnlyOf(m) == \A n \in Migrators \ {m} : mig'[n] = mig[n]

\* Where a migrator may go, so that the lock and the stage stay what they are.
MigratorGoes(m) ==
  /\ OnlyOf(m)
  /\ mig' \in [Migrators -> MigrationRecords]
  /\ lock' \in BOOLEAN
  /\ Holding(m)' => lock' /\ (Holding(m) \/ ~lock)
  /\ Holding(m)' \/ Holding(m) \/ lock' = lock
  /\ Holding(m)' => (mig'[m].stage # Absent <=>
                      mig'[m].phase \in {"copying", "copied", "backedUp", "verified"})
  /\ ~Holding(m)' => mig'[m].stage = Absent

LEMMA LockKept ==
  ASSUME HomeTypeOK, NEW m \in Migrators, MigratorGoes(m), NEW k \in Migrators, Holding(k)'
  PROVE  /\ lock'
         /\ \A n \in Migrators \ {k} : ~Holding(n)'
         /\ mig'[k].stage # Absent <=>
              mig'[k].phase \in {"copying", "copied", "backedUp", "verified"}
<1>1. \A n \in Migrators \ {m} : Holding(n)' <=> Holding(n)
  BY DEF MigratorGoes, OnlyOf, Holding
<1>2. CASE k = m
  BY <1>1, <1>2 DEF MigratorGoes, HomeTypeOK
<1>3. CASE k # m
  <2>1. Holding(k) /\ lock
    BY <1>1, <1>3 DEF HomeTypeOK
  <2>2. ~Holding(m)
    BY <1>3, <2>1 DEF HomeTypeOK
  <2>3. ~Holding(m)' /\ lock' = lock
    BY <2>1, <2>2 DEF MigratorGoes
  <2>4. mig'[k] = mig[k]
    BY <1>3 DEF MigratorGoes, OnlyOf
  <2>5. QED
    BY <1>1, <1>3, <2>1, <2>3, <2>4 DEF HomeTypeOK
<1>4. QED
  BY <1>2, <1>3

LEMMA RecordSet ==
  ASSUME HomeTypeOK, PartsOK, NEW m \in Migrators, NEW r \in MigrationRecords,
         mig' = [mig EXCEPT ![m] = r]
  PROVE  /\ OnlyOf(m) /\ mig'[m] = r
         /\ mig' \in [Migrators -> MigrationRecords]
  BY DEF PartsOK, OnlyOf

LEMMA MigrationIs ==
  ASSUME PartsOK, NEW m \in Migrators
  PROVE  /\ mig[m] \in MigrationRecords
         /\ mig[m].phase \in {"idle", "stated"} \cup Early \cup Late
         /\ mig[m].source \in Homes /\ mig[m].target \in Homes
         /\ mig[m].stage \in Vaults \cup {Absent}
  BY DEF PartsOK, MigrationRecords

LEMMA NoMigrationIs == NoMigration \in MigrationRecords
  BY HomeAssumption DEF NoMigration, MigrationRecords

LEMMA PhaseSet ==
  ASSUME NEW r \in MigrationRecords, NEW p \in {"idle", "stated"} \cup Early \cup Late
  PROVE  [r EXCEPT !.phase = p] \in MigrationRecords
  BY DEF MigrationRecords

\* What a migrator's step does to itself.
LEMMA StartGoes ==
  ASSUME HomeTypeOK, PartsOK, NEW m \in Migrators, NEW t \in Homes,
         NEW remove \in BOOLEAN, NEW deep \in BOOLEAN, MigrateStart(m, t, remove, deep)
  PROVE  /\ MigratorGoes(m)
         /\ mig'[m].phase = "stated" /\ mig'[m].source = pointer /\ mig'[m].target = t
<1> DEFINE r == [NoMigration EXCEPT !.phase = "stated", !.source = pointer, !.target = t,
                                    !.remove = remove, !.deep = deep]
<1>1. /\ r \in MigrationRecords /\ r.phase = "stated" /\ r.source = pointer /\ r.target = t
      /\ r.stage = Absent
  BY NoMigrationIs DEF MigrationRecords, HomeTypeOK, NoMigration
<1>2. mig' = [mig EXCEPT ![m] = r]
  BY DEF MigrateStart
<1> HIDE DEF r
<1>3. OnlyOf(m) /\ mig'[m] = r /\ mig' \in [Migrators -> MigrationRecords]
  BY <1>1, <1>2, RecordSet
<1>4. lock' = lock /\ lock \in BOOLEAN
  BY DEF MigrateStart, HomeTypeOK
<1>5. QED
  BY <1>1, <1>3, <1>4 DEF MigratorGoes, Holding

LEMMA LockGoes ==
  ASSUME HomeTypeOK, PartsOK, NEW m \in Migrators, TakeLock(m)
  PROVE  /\ MigratorGoes(m)
         /\ mig'[m].phase \in {"idle", "locked"}
         /\ mig'[m].phase = "locked" => UNCHANGED <<mig[m].source, mig[m].target>>
<1>1. CASE lock
  <2>1. mig' = [mig EXCEPT ![m] = NoMigration] /\ lock'
    BY <1>1 DEF TakeLock
  <2>2. OnlyOf(m) /\ mig'[m] = NoMigration /\ mig' \in [Migrators -> MigrationRecords]
    BY <2>1, NoMigrationIs, RecordSet
  <2>3. NoMigration.phase = "idle" /\ NoMigration.stage = Absent
    BY DEF NoMigration
  <2>4. QED
    BY <1>1, <2>1, <2>2, <2>3 DEF MigratorGoes, Holding, TakeLock, HomeTypeOK
<1>2. CASE ~lock
  <2> DEFINE r == [mig[m] EXCEPT !.phase = "locked"]
  <2>1. mig' = [mig EXCEPT ![m] = r]
    BY <1>2 DEF TakeLock
  <2>2. /\ r \in MigrationRecords /\ r.phase = "locked" /\ r.stage = mig[m].stage
        /\ r.source = mig[m].source /\ r.target = mig[m].target
    BY MigrationIs, PhaseSet DEF Early, MigrationRecords
  <2> HIDE DEF r
  <2>3. OnlyOf(m) /\ mig'[m] = r /\ mig' \in [Migrators -> MigrationRecords]
    BY <2>1, <2>2, RecordSet
  <2>4. mig[m].stage = Absent
    BY DEF TakeLock, PartsOK, Holding
  <2>5. QED
    BY <1>2, <2>2, <2>3, <2>4 DEF MigratorGoes, Holding, TakeLock, HomeTypeOK
<1>3. QED
  BY <1>1, <1>2

\* A step within the migration that keeps its source, its target and deep.
Advances(m, from, to) ==
  /\ MigratorGoes(m)
  /\ mig[m].phase = from /\ mig'[m].phase = to
  /\ UNCHANGED <<mig[m].source, mig[m].target, mig[m].deep>>

LEMMA BeginCopyGoes ==
  ASSUME HomeTypeOK, PartsOK, NEW m \in Migrators, BeginCopy(m)
  PROVE  Advances(m, "locked", "copying")
<1> DEFINE r == [mig[m] EXCEPT !.phase = "copying", !.stage = Empty,
                               !.must = At(mig[m].source).objects]
<1>1. mig' = [mig EXCEPT ![m] = r] /\ mig[m].phase = "locked" /\ UNCHANGED lock
  BY DEF BeginCopy
<1>2. At(mig[m].source).objects \in SUBSET Contents
  BY MigrationIs, AtIs, VaultParts
<1>3. /\ r \in MigrationRecords /\ r.phase = "copying" /\ r.stage = Empty
      /\ r.source = mig[m].source /\ r.target = mig[m].target /\ r.deep = mig[m].deep
  BY <1>2, EmptyIs, MigrationIs DEF MigrationRecords, Early
<1> HIDE DEF r
<1>4. OnlyOf(m) /\ mig'[m] = r /\ mig' \in [Migrators -> MigrationRecords]
  BY <1>1, <1>3, RecordSet
<1>5. lock /\ lock \in BOOLEAN
  BY <1>1 DEF HomeTypeOK, Holding
<1>6. QED
  BY <1>1, <1>3, <1>4, <1>5, EmptyIs DEF Advances, MigratorGoes, Holding

\* The copy is a part of what the source holds.
LEMMA EndCopyGoes ==
  ASSUME HomeTypeOK, PartsOK, NEW m \in Migrators, EndCopy(m)
  PROVE  Advances(m, "copying", "copied")
<1> DEFINE now == At(mig[m].source)
<1>1. PICK extra \in SUBSET (now.objects \ mig[m].must), wrong \in SUBSET now.objects :
        mig' = [mig EXCEPT ![m].phase = "copied",
                  ![m].stage.objects = (mig[m].must \cap now.objects) \cup extra,
                  ![m].stage.bad = (now.bad \cap ((mig[m].must \cap now.objects) \cup extra))
                                   \cup wrong]
  BY DEF EndCopy
<1> DEFINE objects == (mig[m].must \cap now.objects) \cup extra
           bad == (now.bad \cap objects) \cup wrong
           r == [mig[m] EXCEPT !.phase = "copied",
                   !.stage = [mig[m].stage EXCEPT !.objects = objects, !.bad = bad]]
<1>2. mig[m].stage \in Vaults /\ mig[m].phase = "copying"
  BY MigrationIs DEF EndCopy, HomeTypeOK, Holding
<1>3. now \in Vaults
  BY MigrationIs, AtIs
<1>4. objects \subseteq Contents /\ bad \subseteq Contents
  BY <1>3, VaultParts
<1>5. [mig[m].stage EXCEPT !.objects = objects, !.bad = bad] \in Vaults
  <2> HIDE DEF objects, bad
  <2>1. QED
    BY <1>2, <1>4 DEF Vaults
<1>6. mig' = [mig EXCEPT ![m] = r]
  BY <1>1, <1>2, MigrationIs DEF MigrationRecords, Vaults
<1>7. /\ r \in MigrationRecords /\ r.phase = "copied" /\ r.stage \in Vaults
      /\ r.source = mig[m].source /\ r.target = mig[m].target /\ r.deep = mig[m].deep
  <2> HIDE DEF objects, bad
  <2>1. QED
    BY <1>5, MigrationIs DEF MigrationRecords, Early
<1> HIDE DEF r
<1>8. OnlyOf(m) /\ mig'[m] = r /\ mig' \in [Migrators -> MigrationRecords]
  BY <1>6, <1>7, RecordSet
<1>9. lock /\ lock \in BOOLEAN /\ UNCHANGED lock /\ Absent \notin Vaults
  BY <1>2, HomeAssumption DEF HomeTypeOK, Holding, EndCopy
<1>10. QED
  BY <1>2, <1>7, <1>8, <1>9 DEF Advances, MigratorGoes, Holding

LEMMA BackupGoes ==
  ASSUME HomeTypeOK, PartsOK, NEW m \in Migrators, BackupDatabase(m)
  PROVE  /\ Advances(m, "copied", "backedUp")
         /\ disk[mig[m].source] # Absent => mig'[m].stage.db = At(pointer).db
         /\ disk[mig[m].source] = Absent => mig'[m].stage.db = {}
<1> DEFINE db == IF disk[mig[m].source] = Absent THEN {} ELSE At(pointer).db
           v == [mig[m].stage EXCEPT !.db = db]
           r == [mig[m] EXCEPT !.phase = "backedUp", !.stage = v]
<1>1. mig[m].stage \in Vaults /\ mig[m].phase = "copied"
  BY MigrationIs DEF BackupDatabase, HomeTypeOK, Holding
<1>2. mig' = [mig EXCEPT ![m] = r]
  BY <1>1, MigrationIs DEF BackupDatabase, MigrationRecords, Vaults
<1>3. db \subseteq Contents
  BY AtIs, VaultParts DEF HomeTypeOK
<1>4. v \in Vaults /\ v.db = db
  <2> HIDE DEF db
  <2>1. QED
    BY <1>1, <1>3 DEF Vaults
<1>5. /\ r \in MigrationRecords /\ r.phase = "backedUp" /\ r.stage = v
      /\ r.source = mig[m].source /\ r.target = mig[m].target /\ r.deep = mig[m].deep
  <2> HIDE DEF v
  <2>1. QED
    BY <1>4, MigrationIs DEF MigrationRecords, Early
<1> HIDE DEF r, v
<1>6. OnlyOf(m) /\ mig'[m] = r /\ mig' \in [Migrators -> MigrationRecords]
  BY <1>2, <1>5, RecordSet
<1>7. lock /\ lock \in BOOLEAN /\ UNCHANGED lock /\ Absent \notin Vaults
  BY <1>1, HomeAssumption DEF HomeTypeOK, Holding, BackupDatabase
<1>8. QED
  BY <1>1, <1>4, <1>5, <1>6, <1>7 DEF Advances, MigratorGoes, Holding

\* The steps that change the phase and at most give the stage away.
LEMMA PhaseGoes ==
  ASSUME HomeTypeOK, PartsOK, NEW m \in Migrators, UNCHANGED lock,
         NEW from, NEW to, mig[m].phase = from, mig' = [mig EXCEPT ![m].phase = to],
         \/ from = "backedUp" /\ to = "verified"
         \/ from = "placed" /\ to = "switched"
         \/ from = "switched" /\ to = "removed"
         \/ from = "removed" /\ to = "reported"
  PROVE  Advances(m, from, to) /\ mig'[m].stage = mig[m].stage
<1> DEFINE r == [mig[m] EXCEPT !.phase = to]
<1>1. to \in Early \cup Late
  BY DEF Early, Late
<1>2. /\ r \in MigrationRecords /\ r.phase = to /\ r.stage = mig[m].stage
      /\ r.source = mig[m].source /\ r.target = mig[m].target /\ r.deep = mig[m].deep
  BY <1>1, MigrationIs, PhaseSet DEF MigrationRecords
<1>3. mig' = [mig EXCEPT ![m] = r]
  OBVIOUS
<1> HIDE DEF r
<1>4. OnlyOf(m) /\ mig'[m] = r /\ mig' \in [Migrators -> MigrationRecords]
  BY <1>2, <1>3, RecordSet
<1>5. /\ lock /\ lock \in BOOLEAN
      /\ mig[m].stage # Absent <=>
           mig[m].phase \in {"copying", "copied", "backedUp", "verified"}
  BY DEF HomeTypeOK, Holding
<1>6. QED
  BY <1>2, <1>4, <1>5 DEF Advances, MigratorGoes, Holding

LEMMA PlaceGoes ==
  ASSUME HomeTypeOK, PartsOK, NEW m \in Migrators, Place(m)
  PROVE  Advances(m, "verified", "placed")
<1> DEFINE r == [mig[m] EXCEPT !.phase = "placed", !.stage = Absent]
<1>1. /\ r \in MigrationRecords /\ r.phase = "placed" /\ r.stage = Absent
      /\ r.source = mig[m].source /\ r.target = mig[m].target /\ r.deep = mig[m].deep
  BY MigrationIs DEF MigrationRecords, Early
<1>2. mig' = [mig EXCEPT ![m] = r]
  BY DEF Place
<1> HIDE DEF r
<1>3. OnlyOf(m) /\ mig'[m] = r /\ mig' \in [Migrators -> MigrationRecords]
  BY <1>1, <1>2, RecordSet
<1>4. lock /\ lock \in BOOLEAN /\ UNCHANGED lock /\ mig[m].phase = "verified"
  BY DEF HomeTypeOK, Holding, Place
<1>5. QED
  BY <1>1, <1>3, <1>4 DEF Advances, MigratorGoes, Holding

\* Release, the except and finally clauses, and a death.
Leaves(m) == MigratorGoes(m) /\ mig'[m].phase = "idle"

LEMMA LeaveGoes ==
  ASSUME HomeTypeOK, PartsOK, NEW m \in Migrators,
         Release(m) \/ FailMigration(m) \/ Die(m)
  PROVE  Leaves(m)
<1>1. mig' = [mig EXCEPT ![m] = NoMigration]
  BY DEF Release, FailMigration, Die
<1>2. NoMigration.phase = "idle" /\ NoMigration.stage = Absent
  BY DEF NoMigration
<1>3. OnlyOf(m) /\ mig'[m] = NoMigration /\ mig' \in [Migrators -> MigrationRecords]
  BY <1>1, NoMigrationIs, RecordSet
<1>4. lock' \in BOOLEAN /\ (lock' = lock \/ Holding(m))
  BY DEF Release, FailMigration, Die, HomeTypeOK, Holding
<1>5. QED
  BY <1>2, <1>3, <1>4 DEF Leaves, MigratorGoes, Holding

LEMMA VerifyGoes ==
  ASSUME HomeTypeOK, PartsOK, NEW m \in Migrators, Verify(m)
  PROVE  Advances(m, "backedUp", "verified") /\ mig'[m].stage = mig[m].stage
  BY PhaseGoes DEF Verify

LEMMA SwitchGoes ==
  ASSUME HomeTypeOK, PartsOK, NEW m \in Migrators, Switch(m)
  PROVE  Advances(m, "placed", "switched")
  BY PhaseGoes DEF Switch

LEMMA RemoveSourceGoes ==
  ASSUME HomeTypeOK, PartsOK, NEW m \in Migrators, RemoveSource(m)
  PROVE  Advances(m, "switched", "removed")
  BY PhaseGoes DEF RemoveSource

LEMMA ReportGoes ==
  ASSUME HomeTypeOK, PartsOK, NEW m \in Migrators, Report(m)
  PROVE  Advances(m, "removed", "reported")
  BY PhaseGoes DEF Report

LEMMA MigrationGoes ==
  ASSUME HomeTypeOK, PartsOK, NEW m \in Migrators, Migration(m)
  PROVE  MigratorGoes(m)
<1>1. ASSUME NEW t \in Homes, NEW remove \in BOOLEAN, NEW deep \in BOOLEAN,
             MigrateStart(m, t, remove, deep)
      PROVE  MigratorGoes(m)
  BY <1>1, StartGoes
<1>2. CASE TakeLock(m)
  BY <1>2, LockGoes
<1>3. CASE BeginCopy(m) \/ EndCopy(m) \/ BackupDatabase(m) \/ Verify(m) \/ Place(m)
           \/ Switch(m) \/ RemoveSource(m) \/ Report(m)
  BY <1>3, BeginCopyGoes, EndCopyGoes, BackupGoes, VerifyGoes, PlaceGoes, SwitchGoes,
     RemoveSourceGoes, ReportGoes DEF Advances
<1>4. CASE Release(m) \/ FailMigration(m) \/ Die(m)
  BY <1>4, LeaveGoes DEF Leaves
<1>5. QED
  BY <1>1, <1>2, <1>3, <1>4 DEF Migration

\* The removal of a home.
LEMMA RemoveIs ==
  ASSUME HomeTypeOK, PartsOK, NEW h \in Homes, Remove(h)
  PROVE  /\ disk' \in [Homes -> Vaults \cup {Absent}] /\ disk'[h] = Absent
         /\ \A g \in Homes \ {h} : disk'[g] = disk[g]
         /\ writer' \in [Writers -> SnapshotRecords]
         /\ exporter' \in ExportRecords
         /\ \A w \in Writers :
              /\ writer'[w].home = IF writer[w].home = h THEN Absent ELSE writer[w].home
              /\ UNCHANGED <<writer[w].phase, writer[w].content, writer[w].mixed>>
<1>1. /\ disk' \in [Homes -> Vaults \cup {Absent}] /\ disk'[h] = Absent
      /\ \A g \in Homes \ {h} : disk'[g] = disk[g]
  BY DEF Remove, HomeTypeOK
<1>2. ASSUME NEW w \in Writers
      PROVE  /\ writer'[w] \in SnapshotRecords
             /\ writer'[w].home = IF writer[w].home = h THEN Absent ELSE writer[w].home
             /\ UNCHANGED <<writer[w].phase, writer[w].content, writer[w].mixed>>
  <2>1. writer[w] \in SnapshotRecords
    BY DEF PartsOK
  <2>2. writer'[w] = [writer[w] EXCEPT !.home = IF @ = h THEN Absent ELSE @]
    BY DEF Remove
  <2>3. QED
    BY <2>1, <2>2 DEF SnapshotRecords
<1>3. writer' \in [Writers -> SnapshotRecords]
  <2>1. writer' = [w \in Writers |-> writer'[w]]
    BY DEF Remove
  <2>2. QED
    BY <1>2, <2>1
<1>4. exporter' \in ExportRecords
  BY DEF Remove, PartsOK, ExportRecords
<1>5. QED
  BY <1>1, <1>2, <1>3, <1>4

\* A lock has its migrator, or was left by one that died or could not remove it.
LEMMA LockLeft ==
  ASSUME HomeTypeOK, PartsOK, NEW m \in Migrators, Migration(m), lock'
  PROVE  "lock" \in marred' \/ \E n \in Migrators : Holding(n)'
<1>0. OnlyOf(m) /\ marred \subseteq marred'
  BY MigrationGoes DEF MigratorGoes, Migration, MigrateStart, TakeLock, BeginCopy, EndCopy,
     BackupDatabase, Verify, Place, Switch, RemoveSource, Report, Release, FailMigration, Die
<1>1. ASSUME lock, ~Holding(m)
      PROVE  "lock" \in marred' \/ \E n \in Migrators : Holding(n)'
  <2>1. CASE "lock" \in marred
    BY <1>0, <2>1
  <2>2. CASE "lock" \notin marred
    <3>1. PICK n \in Migrators \ {m} : Holding(n)
      BY <1>1, <2>2 DEF HomeTypeOK
    <3>2. QED
      BY <1>0, <3>1 DEF OnlyOf, Holding
  <2>3. QED
    BY <2>1, <2>2
<1>2. CASE Release(m) \/ FailMigration(m)
  BY <1>2 DEF Release, FailMigration
<1>3. CASE Die(m)
  BY <1>1, <1>3 DEF Die
<1>4. CASE TakeLock(m)
  <2>1. CASE lock
    BY <1>1, <1>4, <2>1 DEF TakeLock, Holding
  <2>2. CASE ~lock
    BY <1>4, <2>2, LockGoes DEF TakeLock, NoMigration, Holding, PartsOK, MigrationRecords
  <2>3. QED
    BY <2>1, <2>2
<1>5. ASSUME NEW t \in Homes, NEW remove \in BOOLEAN, NEW deep \in BOOLEAN,
             MigrateStart(m, t, remove, deep)
      PROVE  "lock" \in marred' \/ \E n \in Migrators : Holding(n)'
  BY <1>1, <1>5 DEF MigrateStart, Holding
<1>6. CASE BeginCopy(m) \/ EndCopy(m) \/ BackupDatabase(m) \/ Verify(m) \/ Place(m)
           \/ Switch(m) \/ RemoveSource(m) \/ Report(m)
  BY <1>6, BeginCopyGoes, EndCopyGoes, BackupGoes, VerifyGoes, PlaceGoes, SwitchGoes,
     RemoveSourceGoes, ReportGoes DEF Advances, Holding
<1>7. QED
  BY <1>2, <1>3, <1>4, <1>5, <1>6 DEF Migration

\* The types that a migrator's step does not keep by MigratorGoes.
LEMMA MigrationTypes ==
  ASSUME HomeTypeOK, PartsOK, NEW m \in Migrators, Migration(m)
  PROVE  HomeTypeOK' /\ PartsOK'
<1>1. MigratorGoes(m)
  BY MigrationGoes
<1>2. \A k \in Migrators : Holding(k)' =>
        /\ lock'
        /\ \A n \in Migrators \ {k} : ~Holding(n)'
        /\ mig'[k].stage # Absent <=>
             mig'[k].phase \in {"copying", "copied", "backedUp", "verified"}
  BY <1>1, LockKept
<1>a. lock' => "lock" \in marred' \/ \E k \in Migrators : Holding(k)'
  BY LockLeft
<1>3. \A k \in Migrators : ~Holding(k)' => mig'[k].stage = Absent
  BY <1>1 DEF MigratorGoes, OnlyOf, Holding, PartsOK
<1>4. /\ mig[m].source \in Homes /\ mig[m].target \in Homes
      /\ mig[m].stage \in Vaults \cup {Absent}
  BY MigrationIs
<1>5. UNCHANGED <<saved, archive, cleanup, importer>>
  BY DEF Migration, MigrateStart, TakeLock, BeginCopy, EndCopy, BackupDatabase, Verify,
     Place, Switch, RemoveSource, Report, Release, FailMigration, Die, otherVars, copyVars
<1>6. pointer' \in Homes
  BY <1>4 DEF Migration, MigrateStart, TakeLock, BeginCopy, EndCopy, BackupDatabase,
     Verify, Place, Switch, RemoveSource, Report, Release, FailMigration, Die, HomeTypeOK
<1>7. marred' \subseteq Marks
  BY DEF Migration, MigrateStart, TakeLock, BeginCopy, EndCopy, BackupDatabase, Verify,
     Place, Switch, RemoveSource, Report, Release, FailMigration, Die, HomeTypeOK, Marks
<1>8. state' \in [status : {"none", "queued", "running", "complete", "failed"},
                 destination : Homes]
  <2>1. UNCHANGED state \/ \E t \in Homes :
          Says("running", t) \/ Says("complete", t) \/ Says("failed", t)
    BY <1>4 DEF Migration, MigrateStart, TakeLock, BeginCopy, EndCopy, BackupDatabase,
       Verify, Place, Switch, RemoveSource, Report, Release, FailMigration, Die
  <2>2. QED
    BY <2>1 DEF Says, PartsOK
<1>9. CASE ~BeginCopy(m) /\ ~RemoveSource(m)
  <2>1. UNCHANGED <<writer, exporter>>
    BY <1>9 DEF Migration, MigrateStart, TakeLock, EndCopy, BackupDatabase, Verify, Place,
       Switch, Report, Release, FailMigration, Die, otherVars, copyVars
  <2>2. disk' \in [Homes -> Vaults \cup {Absent}]
    <3>1. CASE BackupDatabase(m)
      BY <3>1, AtIs DEF BackupDatabase, Connect, HomeTypeOK
    <3>2. CASE ~BackupDatabase(m)
      BY <1>4, <1>9, <3>2 DEF Migration, MigrateStart, TakeLock, EndCopy, Verify, Place,
         Switch, Report, Release, FailMigration, Die, HomeTypeOK
    <3>3. QED
      BY <3>1, <3>2
  <2>3. HomeTypeOK'
    BY <1>1, <1>2, <1>a, <1>5, <1>6, <1>7, <2>2 DEF HomeTypeOK, MigratorGoes
  <2>4. PartsOK'
    BY <1>1, <1>3, <1>5, <1>8, <2>1 DEF PartsOK, MigratorGoes
  <2>5. QED
    BY <2>3, <2>4
<1>10. CASE BeginCopy(m)
  <2>1. UNCHANGED <<exporter, disk>>
    BY <1>10 DEF BeginCopy, copyVars
  <2>2. \A w \in Writers : /\ writer'[w] \in SnapshotRecords
                           /\ UNCHANGED <<writer[w].phase, writer[w].content>>
    BY <1>10 DEF BeginCopy, SnapshotRecords, PartsOK
  <2>3. writer' \in [Writers -> SnapshotRecords]
    <3>1. writer' = [w \in Writers |-> writer'[w]]
      BY <1>10 DEF BeginCopy
    <3>2. QED
      BY <2>2, <3>1
  <2>4. HomeTypeOK'
    BY <1>1, <1>2, <1>a, <1>5, <1>6, <1>7, <2>1 DEF HomeTypeOK, MigratorGoes
  <2>5. PartsOK'
    BY <1>1, <1>3, <1>5, <1>8, <2>1, <2>2, <2>3 DEF PartsOK, MigratorGoes
  <2>6. QED
    BY <2>4, <2>5
<1>11. CASE RemoveSource(m)
  <2>1. CASE Remove(mig[m].source)
    <3>1. HomeTypeOK'
      BY <1>1, <1>2, <1>a, <1>4, <1>5, <1>6, <1>7, <2>1, RemoveIs
         DEF HomeTypeOK, MigratorGoes
    <3>2. PartsOK'
      BY <1>1, <1>3, <1>4, <1>5, <1>8, <2>1, RemoveIs DEF PartsOK, MigratorGoes
    <3>3. QED
      BY <3>1, <3>2
  <2>2. CASE UNCHANGED <<disk, writer, exporter>>
    <3>1. HomeTypeOK'
      BY <1>1, <1>2, <1>a, <1>5, <1>6, <1>7, <2>2 DEF HomeTypeOK, MigratorGoes
    <3>2. PartsOK'
      BY <1>1, <1>3, <1>5, <1>8, <2>2 DEF PartsOK, MigratorGoes
    <3>3. QED
      BY <3>1, <3>2
  <2>3. QED
    BY <1>11, <2>1, <2>2 DEF RemoveSource
<1>12. QED
  BY <1>9, <1>10, <1>11

\* A step that leaves the lock and the migrators alone.
NoMove == UNCHANGED <<lock, mig>>

LEMMA HomeTypesKept ==
  ASSUME HomeTypeOK, NoMove, disk' \in [Homes -> Vaults \cup {Absent}],
         UNCHANGED pointer, marred \subseteq marred', marred' \subseteq Marks,
         saved' \subseteq Contents,
         archive' \in Vaults \cup {Absent}
  PROVE  HomeTypeOK'
  BY DEF HomeTypeOK, NoMove, Holding

LEMMA PartsKept ==
  ASSUME PartsOK, NoMove, UNCHANGED <<state, cleanup, exporter, importer, writer>>
  PROVE  PartsOK'
  BY DEF PartsOK, NoMove, Holding

\* A home that is written to.
LEMMA DiskSet ==
  ASSUME HomeTypeOK, NEW h \in Homes, NEW v \in Vaults \cup {Absent},
         disk' = [disk EXCEPT ![h] = v]
  PROVE  /\ disk' \in [Homes -> Vaults \cup {Absent}] /\ disk'[h] = v
         /\ \A g \in Homes \ {h} : disk'[g] = disk[g]
  BY DEF HomeTypeOK

LEMMA WriterSet ==
  ASSUME PartsOK, NEW w \in Writers, NEW r \in SnapshotRecords,
         writer' = [writer EXCEPT ![w] = r]
  PROVE  /\ writer' \in [Writers -> SnapshotRecords] /\ writer'[w] = r
         /\ \A u \in Writers \ {w} : writer'[u] = writer[u]
  BY DEF PartsOK

LEMMA NoSnapshotIs == NoSnapshot \in SnapshotRecords
  BY DEF NoSnapshot, SnapshotRecords

\* What Store leaves at the home in use.
LEMMA StoreIs ==
  ASSUME HomeTypeOK, PartsOK, NEW w \in Writers, Store(w)
  PROVE  /\ disk' \in [Homes -> Vaults \cup {Absent}]
         /\ disk'[pointer] \in Vaults
         /\ disk'[pointer].db = At(pointer).db
         /\ disk'[pointer].objects = At(pointer).objects \cup {writer[w].content}
         /\ disk'[pointer].bad = At(pointer).bad \ {writer[w].content}
         /\ \A g \in Homes \ {pointer} : disk'[g] = disk[g]
         /\ writer' \in [Writers -> SnapshotRecords] /\ writer'[w].phase = "stored"
         /\ UNCHANGED <<writer[w].home, writer[w].content, writer[w].mixed>>
         /\ \A u \in Writers \ {w} : writer'[u] = writer[u]
<1> DEFINE c == writer[w].content
           v == [At(pointer) EXCEPT !.objects = @ \cup {c}, !.bad = @ \ {c}]
           r == [writer[w] EXCEPT !.phase = "stored"]
<1>1. At(pointer) \in Vaults /\ c \in Contents /\ pointer \in Homes
  BY AtIs DEF PartsOK, Store, HomeTypeOK
<1>2. /\ v \in Vaults /\ v.db = At(pointer).db /\ v.objects = At(pointer).objects \cup {c}
      /\ v.bad = At(pointer).bad \ {c}
  <2> HIDE DEF c
  <2>1. QED
    BY <1>1 DEF Vaults
<1>3. /\ r \in SnapshotRecords /\ r.phase = "stored" /\ r.home = writer[w].home
      /\ r.content = writer[w].content /\ r.mixed = writer[w].mixed
  BY DEF PartsOK, SnapshotRecords
<1>4. disk' = [disk EXCEPT ![pointer] = v] /\ writer' = [writer EXCEPT ![w] = r]
  BY DEF Store
<1> HIDE DEF v, r
<1>5. QED
  BY <1>1, <1>2, <1>3, <1>4, DiskSet, WriterSet

\* A row that is written to a database that is still open.
LEMMA CommitIs ==
  ASSUME HomeTypeOK, PartsOK, OpenOK, NEW w \in Writers, Commit(w)
  PROVE  /\ disk' \in [Homes -> Vaults \cup {Absent}]
         /\ \A g \in Homes : g # writer[w].home => disk'[g] = disk[g]
         /\ writer[w].home # Absent =>
              /\ disk'[writer[w].home] \in Vaults
              /\ disk'[writer[w].home].db = disk[writer[w].home].db \cup {writer[w].content}
              /\ disk'[writer[w].home].objects = disk[writer[w].home].objects
              /\ disk'[writer[w].home].bad = disk[writer[w].home].bad
         /\ writer' \in [Writers -> SnapshotRecords] /\ writer'[w] = NoSnapshot
         /\ \A u \in Writers \ {w} : writer'[u] = writer[u]
<1> DEFINE h == writer[w].home
           c == writer[w].content
<1>1. /\ writer' \in [Writers -> SnapshotRecords] /\ writer'[w] = NoSnapshot
      /\ \A u \in Writers \ {w} : writer'[u] = writer[u]
  BY NoSnapshotIs, WriterSet DEF Commit
<1>2. CASE h = Absent
  <2>1. disk' = disk
    BY <1>2 DEF Commit
  <2>2. QED
    BY <1>1, <1>2, <2>1 DEF HomeTypeOK
<1>3. CASE h # Absent
  <2> DEFINE v == [disk[h] EXCEPT !.db = @ \cup {c}]
  <2>1. h \in Homes /\ c \in Contents
    BY <1>3 DEF PartsOK, SnapshotRecords, Commit
  <2>2. disk[h] \in Vaults
    BY <1>3, <2>1 DEF HomeTypeOK, OpenOK
  <2>3. disk' = [disk EXCEPT ![h] = v]
    BY <1>3 DEF Commit
  <2> HIDE DEF h, c
  <2>4. /\ v \in Vaults /\ v.db = disk[h].db \cup {c}
        /\ v.objects = disk[h].objects /\ v.bad = disk[h].bad
    BY <2>1, <2>2 DEF Vaults
  <2> HIDE DEF v
  <2>5. /\ disk' \in [Homes -> Vaults \cup {Absent}] /\ disk'[h] = v
        /\ \A g \in Homes \ {h} : disk'[g] = disk[g]
    BY <2>1, <2>3, <2>4, DiskSet
  <2>6. QED
    BY <1>1, <2>4, <2>5 DEF h, c
<1>4. QED
  BY <1>2, <1>3

LEMMA ConnectIs ==
  ASSUME HomeTypeOK, Connect
  PROVE  /\ disk' \in [Homes -> Vaults \cup {Absent}]
         /\ disk'[pointer] \in Vaults /\ disk'[pointer] = At(pointer)
         /\ disk[pointer] # Absent => disk' = disk
         /\ \A g \in Homes \ {pointer} : disk'[g] = disk[g]
  BY AtIs DEF Connect, HomeTypeOK, At

LEMMA OpenIs ==
  ASSUME HomeTypeOK, PartsOK, NEW w \in Writers, NEW c \in Contents, Open(w, c)
  PROVE  /\ writer' \in [Writers -> SnapshotRecords]
         /\ writer'[w].phase = "open" /\ writer'[w].home = pointer
         /\ writer'[w].content = c /\ writer'[w].mixed = Migrating
         /\ \A u \in Writers \ {w} : writer'[u] = writer[u]
<1> DEFINE r == [phase |-> "open", home |-> pointer, content |-> c, mixed |-> Migrating]
<1>1. r \in SnapshotRecords
  BY DEF SnapshotRecords, HomeTypeOK, Migrating
<1>2. writer' = [writer EXCEPT ![w] = r]
  BY DEF Open
<1>3. r.phase = "open" /\ r.home = pointer /\ r.content = c /\ r.mixed = Migrating
  OBVIOUS
<1> HIDE DEF r
<1>4. QED
  BY <1>1, <1>2, <1>3, WriterSet

\* What a cleanup leaves at the home in use.
LEMMA CleanRowIs ==
  ASSUME HomeTypeOK, NEW c \in Contents, CleanRow(c)
  PROVE  /\ disk' \in [Homes -> Vaults \cup {Absent}]
         /\ disk[pointer] # Absent /\ disk'[pointer] \in Vaults
         /\ disk'[pointer].db = disk[pointer].db \ {c}
         /\ disk'[pointer].objects = disk[pointer].objects
         /\ disk'[pointer].bad = disk[pointer].bad
         /\ \A g \in Homes \ {pointer} : disk'[g] = disk[g]
<1> DEFINE v == [disk[pointer] EXCEPT !.db = @ \ {c}]
<1>1. pointer \in Homes /\ disk[pointer] \in Vaults
  BY DEF HomeTypeOK, CleanRow, At, Empty
<1>2. disk[pointer] # Absent
  BY <1>1, HomeAssumption
<1>3. /\ v \in Vaults /\ v.db = disk[pointer].db \ {c}
      /\ v.objects = disk[pointer].objects /\ v.bad = disk[pointer].bad
  BY <1>1 DEF Vaults
<1>4. disk' = [disk EXCEPT ![pointer] = v]
  BY DEF CleanRow
<1> HIDE DEF v
<1>5. QED
  BY <1>1, <1>2, <1>3, <1>4, DiskSet

LEMMA CleanObjectIs ==
  ASSUME HomeTypeOK, CleanObject
  PROVE  /\ disk' \in [Homes -> Vaults \cup {Absent}]
         /\ disk[pointer] # Absent =>
              /\ disk'[pointer] \in Vaults
              /\ disk'[pointer].db = disk[pointer].db
              /\ disk'[pointer].objects = disk[pointer].objects \ {cleanup.content}
              /\ disk'[pointer].bad \subseteq disk[pointer].bad
         /\ disk[pointer] = Absent => disk' = disk
         /\ \A g \in Homes \ {pointer} : disk'[g] = disk[g]
<1>0. pointer \in Homes
  BY DEF HomeTypeOK
<1>1. CASE disk[pointer] = Absent
  BY <1>1 DEF CleanObject, HomeTypeOK
<1>2. CASE disk[pointer] # Absent
  <2> DEFINE v == [disk[pointer] EXCEPT !.objects = @ \ {cleanup.content},
                                        !.bad = @ \ {cleanup.content}]
  <2>1. disk[pointer] \in Vaults
    BY <1>0, <1>2 DEF HomeTypeOK
  <2>2. /\ v \in Vaults /\ v.db = disk[pointer].db
        /\ v.objects = disk[pointer].objects \ {cleanup.content}
        /\ v.bad \subseteq disk[pointer].bad
    BY <2>1 DEF Vaults
  <2>3. disk' = [disk EXCEPT ![pointer] = v]
    BY <1>2, <2>1 DEF CleanObject, Vaults
  <2> HIDE DEF v
  <2>4. QED
    BY <1>0, <1>2, <2>2, <2>3, DiskSet
<1>3. QED
  BY <1>1, <1>2

\* What an export leaves alone.
LEMMA ExportIs ==
  ASSUME Export
  PROVE  /\ UNCHANGED <<pointer, lock, state, mig, marred, writer, cleanup, saved, importer>>
         /\ Connect \/ UNCHANGED disk
  BY DEF Export, ExportDb, ValidateObject, PackDatabase, PackObject, ExportDone, ExportFail,
     exportOnly, migVars, otherVars

LEMMA ExportTypes ==
  ASSUME HomeTypeOK, PartsOK, Export
  PROVE  exporter' \in ExportRecords /\ archive' \in Vaults \cup {Absent}
<1>1. /\ At(pointer) \in Vaults /\ pointer \in Homes /\ At(pointer).db \in SUBSET Contents
      /\ exporter \in ExportRecords /\ archive \in Vaults \cup {Absent}
  BY AtIs, VaultParts DEF HomeTypeOK, PartsOK
<1>2. NoExport \in ExportRecords
  BY DEF NoExport, ExportRecords
<1>3. ASSUME NEW deep \in BOOLEAN, ExportDb(deep)
      PROVE  exporter' \in ExportRecords /\ archive' \in Vaults \cup {Absent}
  BY <1>1, <1>3 DEF ExportDb, NoExport, ExportRecords
<1>4. ASSUME NEW c \in Contents, ValidateObject(c) \/ PackObject(c)
      PROVE  exporter' \in ExportRecords /\ archive' \in Vaults \cup {Absent}
  <2>1. UNCHANGED archive
    BY <1>4 DEF ValidateObject, PackObject
  <2>2. CASE ValidateObject(c)
    BY <1>1, <2>1, <2>2 DEF ValidateObject, ExportRecords
  <2>3. CASE PackObject(c)
    BY <1>1, <2>1, <2>3 DEF PackObject, ExportRecords
  <2>4. QED
    BY <1>4, <2>2, <2>3
<1>5. CASE PackDatabase
  BY <1>1, <1>5 DEF PackDatabase, ExportRecords
<1>6. CASE ExportDone
  BY <1>1, <1>2, <1>6 DEF ExportDone, ExportRecords, Vaults
<1>7. CASE ExportFail
  BY <1>1, <1>2, <1>7 DEF ExportFail
<1>8. QED
  BY <1>3, <1>4, <1>5, <1>6, <1>7 DEF Export

\* What a step of a snapshot, a cleanup, an export or an import may do to types.
LEMMA OtherTypes ==
  ASSUME HomeTypeOK, PartsOK, OpenOK,
         \/ \E w \in Writers : Snapshot(w)
         \/ Cleanup \/ Export \/ Import
         \/ \E t \in Homes : QueueFromUi(t)
         \/ UNCHANGED vars
  PROVE  HomeTypeOK' /\ PartsOK'
<1>1. ASSUME NEW w \in Writers, NEW c \in Contents, Open(w, c)
      PROVE  HomeTypeOK' /\ PartsOK'
  <2>1. NoMove /\ UNCHANGED <<pointer, state, marred, saved, archive, cleanup, exporter, importer>>
    BY <1>1 DEF NoMove, Open, migVars, copyVars
  <2>2. HomeTypeOK'
    BY <1>1, <2>1, ConnectIs, HomeTypesKept DEF Open, HomeTypeOK
  <2>3. PartsOK'
    BY <1>1, <2>1, OpenIs DEF PartsOK, NoMove, Holding
  <2>4. QED
    BY <2>2, <2>3
<1>2. ASSUME NEW w \in Writers, Store(w)
      PROVE  HomeTypeOK' /\ PartsOK'
  <2>1. NoMove /\ UNCHANGED <<pointer, state, marred, saved, archive, cleanup, exporter, importer>>
    BY <1>2 DEF NoMove, Store, migVars, copyVars
  <2>2. HomeTypeOK'
    BY <1>2, <2>1, StoreIs, HomeTypesKept DEF HomeTypeOK
  <2>3. writer[w].phase # "idle"
    BY <1>2 DEF Store
  <2>4. PartsOK'
    BY <1>2, <2>1, <2>3, StoreIs DEF PartsOK, NoMove, Holding
  <2>5. QED
    BY <2>2, <2>4
<1>3. ASSUME NEW w \in Writers, Commit(w)
      PROVE  HomeTypeOK' /\ PartsOK'
  <2>1. NoMove /\ UNCHANGED <<pointer, state, marred, archive, cleanup, exporter, importer>>
    BY <1>3 DEF NoMove, Commit, migVars, copyVars
  <2>2. saved' \subseteq Contents
    BY <1>3 DEF Commit, HomeTypeOK, PartsOK
  <2>3. HomeTypeOK'
    BY <1>3, <2>1, <2>2, CommitIs, HomeTypesKept DEF HomeTypeOK
  <2>4. NoSnapshot.phase = "idle"
    BY DEF NoSnapshot
  <2>5. PartsOK'
    BY <1>3, <2>1, <2>4, CommitIs DEF PartsOK, NoMove, Holding
  <2>6. QED
    BY <2>3, <2>5
<1>4. ASSUME NEW c \in Contents, CleanRow(c)
      PROVE  HomeTypeOK' /\ PartsOK'
  <2>1. NoMove /\ UNCHANGED <<pointer, state, marred, archive, writer, exporter, importer>>
    BY <1>4 DEF NoMove, CleanRow, migVars, copyVars
  <2>2. saved' \subseteq Contents
    BY <1>4 DEF CleanRow, HomeTypeOK
  <2>3. HomeTypeOK'
    BY <1>4, <2>1, <2>2, CleanRowIs, HomeTypesKept DEF HomeTypeOK
  <2>4. cleanup' \in [phase : {"idle", "rows", "checked"}, content : Contents \cup {Absent}]
    BY <1>4 DEF CleanRow
  <2>5. PartsOK'
    BY <2>1, <2>4 DEF PartsOK, NoMove, Holding
  <2>6. QED
    BY <2>3, <2>5
<1>5. CASE CleanCheck \/ CleanObject
  <2>1. /\ NoMove
        /\ UNCHANGED <<pointer, state, saved, archive, writer, exporter, importer>>
    BY <1>5 DEF NoMove, CleanCheck, CleanObject, migVars, copyVars
  <2>2. marred \subseteq marred' /\ marred' \subseteq Marks
    BY <1>5 DEF CleanCheck, CleanObject, migVars, HomeTypeOK, Marks
  <2>3. disk' \in [Homes -> Vaults \cup {Absent}]
    BY <1>5, ConnectIs, CleanObjectIs DEF CleanCheck
  <2>4. HomeTypeOK'
    BY <2>1, <2>2, <2>3, HomeTypesKept DEF HomeTypeOK
  <2>5. cleanup' \in [phase : {"idle", "rows", "checked"}, content : Contents \cup {Absent}]
    BY <1>5 DEF CleanCheck, CleanObject, NoCleanup, PartsOK
  <2>6. PartsOK'
    BY <2>1, <2>5 DEF PartsOK, NoMove, Holding
  <2>7. QED
    BY <2>4, <2>6
<1>6. CASE Export
  <2>1. /\ NoMove
        /\ UNCHANGED <<pointer, state, marred, saved, writer, cleanup, importer>>
    BY <1>6, ExportIs DEF NoMove
  <2>2. exporter' \in ExportRecords /\ archive' \in Vaults \cup {Absent}
    BY <1>6, ExportTypes
  <2>3. disk' \in [Homes -> Vaults \cup {Absent}]
    BY <1>6, ExportIs, ConnectIs DEF HomeTypeOK
  <2>4. HomeTypeOK'
    BY <2>1, <2>2, <2>3, HomeTypesKept DEF HomeTypeOK
  <2>5. PartsOK'
    BY <2>1, <2>2 DEF PartsOK, NoMove, Holding
  <2>6. QED
    BY <2>4, <2>5
<1>7. CASE Import
  <2>1. NoMove /\ UNCHANGED <<pointer, state, saved, archive, cleanup>>
    BY <1>7 DEF NoMove, Import, ImportStart, ImportClear, ImportPlace, ImportFail, migVars,
       otherVars
  <2>2. marred \subseteq marred' /\ marred' \subseteq Marks
    BY <1>7 DEF Import, ImportStart, ImportClear, ImportPlace, ImportFail, migVars,
       HomeTypeOK, Marks
  <2>3. importer' \in [phase : {"idle", "clear", "place"}, target : Homes,
                      temp : Vaults \cup {Absent}]
    BY <1>7, HomeAssumption DEF Import, ImportStart, ImportClear, ImportPlace, ImportFail,
       NoImport, HomeTypeOK, PartsOK
  <2>4. importer.target \in Homes /\ importer.temp \in Vaults \cup {Absent}
    BY DEF PartsOK
  <2>5. CASE ImportClear
    <3>1. Remove(importer.target)
      BY <2>5 DEF ImportClear
    <3>2. HomeTypeOK'
      BY <2>1, <2>2, <2>4, <3>1, RemoveIs, HomeTypesKept DEF HomeTypeOK
    <3>3. PartsOK'
      BY <2>1, <2>3, <2>4, <3>1, RemoveIs DEF PartsOK, NoMove, Holding
    <3>4. QED
      BY <3>2, <3>3
  <2>6. CASE ~ImportClear
    <3>1. UNCHANGED <<writer, exporter>>
      BY <1>7, <2>6 DEF Import, ImportStart, ImportPlace, ImportFail, otherVars
    <3>2. disk' \in [Homes -> Vaults \cup {Absent}]
      BY <1>7, <2>4, <2>6 DEF Import, ImportStart, ImportPlace, ImportFail, HomeTypeOK
    <3>3. HomeTypeOK'
      BY <2>1, <2>2, <3>2, HomeTypesKept DEF HomeTypeOK
    <3>4. PartsOK'
      BY <2>1, <2>3, <3>1 DEF PartsOK, NoMove, Holding
    <3>5. QED
      BY <3>3, <3>4
  <2>7. QED
    BY <2>5, <2>6
<1>8. ASSUME NEW t \in Homes, QueueFromUi(t)
      PROVE  HomeTypeOK' /\ PartsOK'
  <2>1. UNCHANGED <<disk, pointer, lock, mig, writer, cleanup, saved, exporter, importer,
                    archive, marred>>
    BY <1>8 DEF QueueFromUi, otherVars, copyVars
  <2>2. state' = [status |-> "queued", destination |-> t]
    BY <1>8 DEF QueueFromUi, Says
  <2>3. HomeTypeOK'
    BY <2>1 DEF HomeTypeOK, Holding
  <2>4. PartsOK'
    BY <2>1, <2>2 DEF PartsOK, Holding
  <2>5. QED
    BY <2>3, <2>4
<1>9. CASE UNCHANGED vars
  <2>1. UNCHANGED <<disk, pointer, lock, mig, writer, cleanup, saved, exporter, importer,
                    archive, marred, state>>
    BY <1>9 DEF vars, otherVars, copyVars
  <2>2. QED
    BY <2>1 DEF HomeTypeOK, PartsOK, Holding
<1>10. QED
  BY <1>1, <1>2, <1>3, <1>4, <1>5, <1>6, <1>7, <1>8, <1>9 DEF Snapshot, Cleanup

LEMMA TypeStep ==
  HomeTypeOK /\ PartsOK /\ OpenOK /\ [Next]_vars => HomeTypeOK' /\ PartsOK'
  BY MigrationTypes, OtherTypes DEF Next

-----------------------------------------------------------------------------
(* Open databases.                                                         *)

LEMMA OpenKept ==
  ASSUME OpenOK, \A g \in Homes : disk[g] # Absent => disk'[g] # Absent, PartsOK,
         \A w \in Writers : writer'[w].home \in {Absent, writer[w].home}
  PROVE  OpenOK'
<1> SUFFICES ASSUME NEW w \in Writers, writer'[w].home # Absent
             PROVE  disk'[writer'[w].home] # Absent
  BY DEF OpenOK
<1>1. writer'[w].home = writer[w].home /\ writer[w].home \in Homes
  BY DEF PartsOK, SnapshotRecords
<1>2. QED
  BY <1>1 DEF OpenOK

LEMMA RemoveOpen ==
  ASSUME HomeTypeOK, PartsOK, OpenOK, NEW h \in Homes, Remove(h)
  PROVE  OpenOK'
<1> SUFFICES ASSUME NEW w \in Writers, writer'[w].home # Absent
             PROVE  disk'[writer'[w].home] # Absent
  BY DEF OpenOK
<1>1. writer'[w].home = writer[w].home /\ writer[w].home # h
  BY RemoveIs
<1>2. writer[w].home \in Homes
  BY <1>1 DEF PartsOK, SnapshotRecords
<1>3. QED
  BY <1>1, <1>2, RemoveIs DEF OpenOK

LEMMA OpenStep ==
  HomeTypeOK /\ PartsOK /\ OpenOK /\ [Next]_vars => OpenOK'
<1> SUFFICES ASSUME HomeTypeOK, PartsOK, OpenOK, [Next]_vars PROVE OpenOK'
  OBVIOUS
<1>0. Absent \notin Vaults /\ pointer \in Homes
  BY HomeAssumption DEF HomeTypeOK
<1>1. CASE UNCHANGED <<disk, writer>>
  BY <1>1 DEF OpenOK
<1>2. ASSUME NEW m \in Migrators, Migration(m)
      PROVE  OpenOK'
  <2>1. CASE BeginCopy(m)
    <3>1. \A w \in Writers : writer'[w].home = writer[w].home
      BY <2>1 DEF BeginCopy, PartsOK, SnapshotRecords
    <3>2. QED
      BY <2>1, <3>1, OpenKept DEF BeginCopy
  <2>2. CASE BackupDatabase(m)
    <3>1. \A g \in Homes : disk[g] # Absent => disk'[g] # Absent
      BY <1>0, <2>2, ConnectIs DEF BackupDatabase
    <3>2. UNCHANGED writer
      BY <2>2 DEF BackupDatabase, otherVars
    <3>3. QED
      BY <3>1, <3>2, OpenKept
  <2>3. CASE Place(m)
    <3>1. mig[m].stage # Absent /\ disk[mig[m].target] = Absent /\ mig[m].target \in Homes
      BY <2>3, MigrationIs DEF Place, HomeTypeOK, Holding
    <3>2. disk' = [disk EXCEPT ![mig[m].target] = mig[m].stage] /\ UNCHANGED writer
      BY <2>3 DEF Place, otherVars
    <3>3. \A g \in Homes : disk[g] # Absent => disk'[g] # Absent
      BY <3>1, <3>2 DEF HomeTypeOK
    <3>4. QED
      BY <3>2, <3>3, OpenKept
  <2>4. CASE RemoveSource(m)
    <3>1. CASE Remove(mig[m].source)
      BY <3>1, RemoveOpen, MigrationIs
    <3>2. QED
      BY <1>1, <2>4, <3>1 DEF RemoveSource
  <2>5. CASE ~BeginCopy(m) /\ ~BackupDatabase(m) /\ ~Place(m) /\ ~RemoveSource(m)
    BY <1>1, <1>2, <2>5 DEF Migration, MigrateStart, TakeLock, EndCopy, Verify, Switch,
       Report, Release, FailMigration, Die, otherVars
  <2>6. QED
    BY <2>1, <2>2, <2>3, <2>4, <2>5
<1>3. ASSUME NEW w \in Writers, Snapshot(w)
      PROVE  OpenOK'
  <2>1. ASSUME NEW c \in Contents, Open(w, c)
        PROVE  OpenOK'
    <3>1. Connect
      BY <2>1 DEF Open
    <3>2. ASSUME NEW u \in Writers, writer'[u].home # Absent
          PROVE  disk'[writer'[u].home] # Absent
      <4>1. CASE u = w
        BY <1>0, <2>1, <3>1, <4>1, ConnectIs, OpenIs
      <4>2. CASE u # w
        <5>1. writer'[u] = writer[u]
          BY <2>1, <4>2, OpenIs
        <5>2. writer[u].home \in Homes /\ disk[writer[u].home] # Absent
          BY <3>2, <5>1 DEF PartsOK, SnapshotRecords, OpenOK
        <5>3. QED
          BY <1>0, <3>1, <5>1, <5>2, ConnectIs
      <4>3. QED
        BY <4>1, <4>2
    <3>3. QED
      BY <3>2 DEF OpenOK
  <2>2. CASE Store(w)
    <3>1. \A u \in Writers : writer'[u].home = writer[u].home
      BY <2>2, StoreIs
    <3>2. \A g \in Homes : disk[g] # Absent => disk'[g] # Absent
      BY <1>0, <2>2, StoreIs
    <3>3. QED
      BY <3>1, <3>2, OpenKept
  <2>3. CASE Commit(w)
    <3>1. \A u \in Writers : writer'[u].home \in {Absent, writer[u].home}
      BY <2>3, CommitIs DEF NoSnapshot
    <3>2. \A g \in Homes : disk[g] # Absent => disk'[g] # Absent
      <4>1. SUFFICES ASSUME NEW g \in Homes, disk[g] # Absent PROVE disk'[g] # Absent
        OBVIOUS
      <4>2. CASE g = writer[w].home
        <5>1. writer[w].home # Absent
          BY <4>2, HomeAssumption
        <5>2. QED
          BY <1>0, <2>3, <4>2, <5>1, CommitIs
      <4>3. CASE g # writer[w].home
        BY <2>3, <4>1, <4>3, CommitIs
      <4>4. QED
        BY <4>2, <4>3
    <3>3. QED
      BY <3>1, <3>2, OpenKept
  <2>4. QED
    BY <1>3, <2>1, <2>2, <2>3 DEF Snapshot
<1>4. CASE Cleanup
  <2>1. UNCHANGED writer
    BY <1>4 DEF Cleanup, CleanRow, CleanCheck, CleanObject
  <2>2. ASSUME NEW c \in Contents, CleanRow(c)
        PROVE  \A g \in Homes : disk[g] # Absent => disk'[g] # Absent
    BY <1>0, <2>2, CleanRowIs
  <2>3. CASE CleanCheck
    BY <1>0, <2>1, <2>3, ConnectIs, OpenKept DEF CleanCheck
  <2>4. CASE CleanObject
    BY <1>0, <2>1, <2>4, CleanObjectIs, OpenKept
  <2>5. QED
    BY <1>4, <2>1, <2>2, <2>3, <2>4, OpenKept DEF Cleanup
<1>5. CASE Export
  <2>1. UNCHANGED writer /\ (Connect \/ UNCHANGED disk)
    BY <1>5, ExportIs
  <2>2. \A g \in Homes : disk[g] # Absent => disk'[g] # Absent
    BY <1>0, <2>1, ConnectIs
  <2>3. QED
    BY <2>1, <2>2, OpenKept
<1>6. CASE Import
  <2>1. CASE ImportClear
    BY <2>1, RemoveOpen DEF ImportClear, PartsOK
  <2>2. CASE ImportPlace
    <3>1. UNCHANGED writer /\ disk[importer.target] = Absent
      BY <2>2 DEF ImportPlace, otherVars
    <3>2. \A g \in Homes : disk[g] # Absent => disk'[g] # Absent
      BY <2>2, <3>1 DEF ImportPlace, HomeTypeOK
    <3>3. QED
      BY <3>1, <3>2, OpenKept
  <2>3. QED
    BY <1>1, <1>6, <2>1, <2>2 DEF Import, ImportStart, ImportFail, otherVars
<1>7. CASE (\E t \in Homes : QueueFromUi(t)) \/ UNCHANGED vars
  BY <1>1, <1>7 DEF QueueFromUi, vars, otherVars
<1>8. QED
  BY <1>2, <1>3, <1>4, <1>5, <1>6, <1>7 DEF Next

-----------------------------------------------------------------------------
(* Who moves the vault, and what the state file says.                      *)

\* One is at work on the vault: nobody else is.
LEMMA OneHolder ==
  ASSUME HomeTypeOK, NEW m \in Migrators, Holding(m), NEW n \in Migrators, Holding(n)
  PROVE  m = n
  BY DEF HomeTypeOK

LEMMA PhasesHold ==
  ASSUME NEW m \in Migrators, mig[m].phase \in Early \cup Late
  PROVE  Holding(m)
  BY DEF Early, Late, Holding

MoverOK(m) ==
  /\ mig[m].phase # "idle" => mig[m].source # mig[m].target
  /\ mig[m].phase \in Late => pointer = mig[m].target
  /\ mig[m].phase \in Moving => state.status # "complete"

Reported(m) ==
  mig[m].phase = "reported" =>
    \/ state.status # "running" \/ "state" \in marred
    \/ \E n \in Migrators \ {m} : mig[n].phase # "idle"

LEMMA MoveInvIs ==
  MoveInv <=> StateIsTrue /\ \A m \in Migrators : MoverOK(m) /\ Reported(m)
  BY DEF MoveInv, MoverOK, Reported

LEMMA SaysIs ==
  ASSUME NEW status, NEW t, Says(status, t)
  PROVE  state'.status = status /\ state'.destination = t
  BY DEF Says

\* Which steps say what.
LEMMA WhatIsSaid ==
  ASSUME NEW m \in Migrators, Migration(m)
  PROVE  \/ UNCHANGED state
         \/ state'.status \in {"running", "failed"}
         \/ Report(m) /\ state'.status = "complete" /\ state'.destination = mig[m].target
<1>1. ASSUME NEW t \in Homes, NEW remove \in BOOLEAN, NEW deep \in BOOLEAN,
             MigrateStart(m, t, remove, deep)
      PROVE  state'.status = "running"
  BY <1>1, SaysIs DEF MigrateStart
<1>2. CASE BeginCopy(m) \/ BackupDatabase(m)
  BY <1>2, SaysIs DEF BeginCopy, BackupDatabase
<1>3. CASE Report(m)
  BY <1>3, SaysIs DEF Report
<1>4. CASE FailMigration(m)
  <2>1. UNCHANGED state \/ Says("failed", mig[m].target)
    BY <1>4 DEF FailMigration
  <2>2. QED
    BY <2>1, SaysIs
<1>5. CASE TakeLock(m) \/ EndCopy(m) \/ Verify(m) \/ Place(m) \/ Switch(m)
           \/ RemoveSource(m) \/ Release(m) \/ Die(m)
  BY <1>5 DEF TakeLock, EndCopy, Verify, Place, Switch, RemoveSource, Release, Die
<1>6. QED
  BY <1>1, <1>2, <1>3, <1>4, <1>5 DEF Migration

\* The migrator that takes the step.
LEMMA MoverStep ==
  ASSUME HomeTypeOK, PartsOK, NEW m \in Migrators, MoverOK(m), Migration(m)
  PROVE  MoverOK(m)'
<1>1. ASSUME NEW t \in Homes, NEW remove \in BOOLEAN, NEW deep \in BOOLEAN,
             MigrateStart(m, t, remove, deep)
      PROVE  MoverOK(m)'
  BY <1>1, StartGoes DEF MigrateStart, Destination, MoverOK, Moving, Early, Late
<1>2. CASE TakeLock(m)
  BY <1>2, LockGoes DEF TakeLock, MoverOK, Moving, Early, Late
<1>3. CASE BeginCopy(m) \/ EndCopy(m) \/ BackupDatabase(m) \/ Verify(m) \/ Place(m)
  <2>1. /\ mig[m].phase # "idle" /\ mig'[m].phase \in Moving
        /\ mig'[m].phase \notin Late
        /\ UNCHANGED <<mig[m].source, mig[m].target>>
    BY <1>3, BeginCopyGoes, EndCopyGoes, BackupGoes, VerifyGoes, PlaceGoes DEF Advances,
       Moving, Early, Late
  <2>2. state'.status = "running" \/ (mig[m].phase \in Moving /\ UNCHANGED state)
    <3>1. CASE BeginCopy(m)
      BY <3>1, SaysIs DEF BeginCopy
    <3>2. CASE BackupDatabase(m)
      BY <3>2, SaysIs DEF BackupDatabase
    <3>3. CASE EndCopy(m)
      BY <3>3 DEF EndCopy, Moving, Early
    <3>4. CASE Verify(m) \/ Place(m)
      BY <3>4 DEF Verify, Place, Moving, Early
    <3>5. QED
      BY <1>3, <3>1, <3>2, <3>3, <3>4
  <2>3. QED
    BY <2>1, <2>2 DEF MoverOK
<1>4. CASE Switch(m)
  BY <1>4, SwitchGoes DEF Switch, Advances, MoverOK, Moving, Early, Late
<1>5. CASE RemoveSource(m)
  BY <1>5, RemoveSourceGoes DEF RemoveSource, Advances, MoverOK, Moving, Early, Late
<1>6. CASE Report(m)
  BY <1>6, ReportGoes DEF Report, Advances, MoverOK, Moving, Early, Late
<1>7. CASE Release(m) \/ FailMigration(m) \/ Die(m)
  BY <1>7, LeaveGoes DEF Leaves, MoverOK, Moving, Early, Late
<1>8. QED
  BY <1>1, <1>2, <1>3, <1>4, <1>5, <1>6, <1>7 DEF Migration

\* The others: whoever switches or reports is the only one at work.
LEMMA BystanderStep ==
  ASSUME HomeTypeOK, PartsOK, NEW m \in Migrators, Migration(m),
         NEW n \in Migrators \ {m}, MoverOK(n)
  PROVE  MoverOK(n)'
<1>1. mig'[n] = mig[n]
  BY MigrationGoes DEF MigratorGoes, OnlyOf
<1>2. ASSUME mig[n].phase \in Late PROVE UNCHANGED pointer
  <2>1. ~Switch(m)
    BY <1>2, OneHolder, PhasesHold DEF Switch, Early
  <2>2. QED
    BY <2>1 DEF Migration, MigrateStart, TakeLock, BeginCopy, EndCopy, BackupDatabase,
       Verify, Place, RemoveSource, Report, Release, FailMigration, Die
<1>3. ASSUME mig[n].phase \in Moving PROVE UNCHANGED state \/ state'.status # "complete"
  <2>1. ~Report(m)
    BY <1>3, OneHolder, PhasesHold DEF Report, Early, Late, Moving
  <2>2. QED
    BY <2>1, WhatIsSaid
<1>4. QED
  BY <1>1, <1>2, <1>3 DEF MoverOK

LEMMA ReportedStep ==
  ASSUME HomeTypeOK, PartsOK, NEW m \in Migrators, Migration(m),
         NEW n \in Migrators, Reported(n)
  PROVE  Reported(n)'
<1> SUFFICES ASSUME mig'[n].phase = "reported", state'.status = "running",
                    "state" \notin marred'
             PROVE  \E k \in Migrators \ {n} : mig'[k].phase # "idle"
  BY DEF Reported
<1>0. marred \subseteq marred'
  BY DEF Migration, MigrateStart, TakeLock, BeginCopy, EndCopy, BackupDatabase, Verify,
     Place, Switch, RemoveSource, Report, Release, FailMigration, Die
<1>1. CASE n = m
  <2>1. Report(m)
    <3>1. ASSUME NEW t \in Homes, NEW remove \in BOOLEAN, NEW deep \in BOOLEAN
          PROVE  ~MigrateStart(m, t, remove, deep)
      BY <1>1, StartGoes
    <3>2. ~TakeLock(m)
      BY <1>1, LockGoes
    <3>3. ~BeginCopy(m) /\ ~EndCopy(m) /\ ~BackupDatabase(m) /\ ~Verify(m) /\ ~Place(m)
          /\ ~Switch(m) /\ ~RemoveSource(m)
      BY <1>1, BeginCopyGoes, EndCopyGoes, BackupGoes, VerifyGoes, PlaceGoes, SwitchGoes,
         RemoveSourceGoes DEF Advances
    <3>4. ~Release(m) /\ ~FailMigration(m) /\ ~Die(m)
      BY <1>1, LeaveGoes DEF Leaves
    <3>5. QED
      BY <3>1, <3>2, <3>3, <3>4 DEF Migration
  <2>2. QED
    BY <2>1 DEF Report, Says
<1>2. CASE n # m
  <2>1. mig'[n] = mig[n] /\ \A k \in Migrators \ {m} : mig'[k] = mig[k]
    BY <1>2, MigrationGoes DEF MigratorGoes, OnlyOf
  <2>2. Holding(n)
    BY <2>1, PhasesHold DEF Late
  <2>3. CASE mig'[m].phase # "idle"
    BY <1>2, <2>3
  <2>4. CASE mig'[m].phase = "idle"
    <3>1. ~Holding(m)
      BY <1>2, <2>2, OneHolder
    <3>2. UNCHANGED state /\ (TakeLock(m) \/ Die(m))
      <4>1. ASSUME NEW t \in Homes, NEW remove \in BOOLEAN, NEW deep \in BOOLEAN
            PROVE  ~MigrateStart(m, t, remove, deep)
        BY <2>4, StartGoes
      <4>2. TakeLock(m) \/ Die(m)
        BY <3>1, <4>1 DEF Migration, BeginCopy, EndCopy, BackupDatabase, Verify, Place,
           Switch, RemoveSource, Report, Release, FailMigration, Holding
      <4>3. QED
        BY <4>2 DEF TakeLock, Die
    <3>3. "state" \in marred'
      <4>1. lock
        BY <2>2 DEF HomeTypeOK
      <4>2. QED
        BY <3>2, <4>1 DEF TakeLock, Die
    <3>4. QED
      BY <3>3
  <2>5. QED
    BY <2>3, <2>4
<1>3. QED
  BY <1>1, <1>2

\* What the state file says after a migrator's step.
LEMMA StateStep ==
  ASSUME HomeTypeOK, PartsOK, NEW m \in Migrators, Migration(m), StateIsTrue,
         MoverOK(m), Reported(m)
  PROVE  StateIsTrue'
<1>1. state'.status = "complete" => pointer' = state'.destination
  <2>1. SUFFICES ASSUME state'.status = "complete" PROVE pointer' = state'.destination
    OBVIOUS
  <2>2. CASE Report(m)
    BY <2>2 DEF Report, Says, MoverOK, Late
  <2>3. CASE Switch(m)
    BY <2>1, <2>3 DEF Switch, MoverOK, Moving, Early
  <2>4. CASE ~Report(m) /\ ~Switch(m)
    <3>1. UNCHANGED state
      BY <2>1, <2>4, WhatIsSaid
    <3>2. UNCHANGED pointer
      BY <2>4 DEF Migration, MigrateStart, TakeLock, BeginCopy, EndCopy, BackupDatabase,
         Verify, Place, RemoveSource, Release, FailMigration, Die
    <3>3. QED
      BY <2>1, <3>1, <3>2 DEF StateIsTrue
  <2>5. QED
    BY <2>2, <2>3, <2>4
<1>2. ASSUME state'.status = "running", "state" \notin marred'
      PROVE  \E n \in Migrators : mig'[n].phase # "idle"
  <2>0. "state" \notin marred
    BY <1>2 DEF Migration, MigrateStart, TakeLock, BeginCopy, EndCopy, BackupDatabase,
       Verify, Place, Switch, RemoveSource, Report, Release, FailMigration, Die
  <2>1. OnlyOf(m)
    BY MigrationGoes DEF MigratorGoes
  <2>2. CASE mig'[m].phase # "idle"
    BY <2>2
  <2>3. CASE mig'[m].phase = "idle"
    <3>1. ASSUME NEW t \in Homes, NEW remove \in BOOLEAN, NEW deep \in BOOLEAN
          PROVE  ~MigrateStart(m, t, remove, deep)
      BY <2>3, StartGoes
    <3>2. ~BeginCopy(m) /\ ~EndCopy(m) /\ ~BackupDatabase(m) /\ ~Verify(m) /\ ~Place(m)
          /\ ~Switch(m) /\ ~RemoveSource(m) /\ ~Report(m)
      BY <2>3, BeginCopyGoes, EndCopyGoes, BackupGoes, VerifyGoes, PlaceGoes, SwitchGoes,
         RemoveSourceGoes, ReportGoes DEF Advances
    <3>3. ~Die(m) /\ ~FailMigration(m)
      BY <1>2 DEF Die, FailMigration, Says
    <3>4. CASE TakeLock(m)
      <4>1. ~lock
        BY <1>2, <3>4 DEF TakeLock
      <4>2. mig'[m].phase = "locked"
        BY <3>4, <4>1 DEF TakeLock, PartsOK, MigrationRecords
      <4>3. QED
        BY <2>3, <4>2
    <3>5. CASE Release(m)
      <4>1. PICK n \in Migrators \ {m} : mig[n].phase # "idle"
        BY <1>2, <2>0, <3>5 DEF Release, Reported
      <4>2. QED
        BY <2>1, <4>1 DEF OnlyOf
    <3>6. QED
      BY <3>1, <3>2, <3>3, <3>4, <3>5 DEF Migration
  <2>4. QED
    BY <2>2, <2>3
<1>3. QED
  BY <1>1, <1>2 DEF StateIsTrue

\* The steps of anybody else leave the migrators, the pointer and, but for the
\* queue of the user interface, the state file alone.
LEMMA OthersMove ==
  ASSUME [Next]_vars, \A m \in Migrators : ~Migration(m)
  PROVE  /\ UNCHANGED <<pointer, mig, lock>> /\ marred \subseteq marred'
         /\ UNCHANGED state \/ state'.status = "queued"
<1>1. CASE (\E w \in Writers : Snapshot(w)) \/ Cleanup \/ Export \/ Import
  BY <1>1, ExportIs DEF Snapshot, Open, Store, Commit, Cleanup, CleanRow, CleanCheck,
     CleanObject, Import, ImportStart, ImportClear, ImportPlace, ImportFail, migVars
<1>2. CASE (\E t \in Homes : QueueFromUi(t)) \/ UNCHANGED vars
  BY <1>2 DEF QueueFromUi, Says, vars
<1>3. QED
  BY <1>1, <1>2 DEF Next

LEMMA MoveStep ==
  HomeTypeOK /\ PartsOK /\ MoveInv /\ [Next]_vars => MoveInv'
<1> SUFFICES ASSUME HomeTypeOK, PartsOK, MoveInv, [Next]_vars PROVE MoveInv'
  OBVIOUS
<1>1. StateIsTrue /\ \A m \in Migrators : MoverOK(m) /\ Reported(m)
  BY MoveInvIs
<1>2. ASSUME NEW m \in Migrators, Migration(m)
      PROVE  MoveInv'
  <2>1. \A n \in Migrators : MoverOK(n)'
    BY <1>1, <1>2, MoverStep, BystanderStep
  <2>2. \A n \in Migrators : Reported(n)'
    BY <1>1, <1>2, ReportedStep
  <2>3. StateIsTrue'
    BY <1>1, <1>2, StateStep
  <2>4. QED
    BY <2>1, <2>2, <2>3 DEF MoveInv, MoverOK, Reported
<1>3. CASE \A m \in Migrators : ~Migration(m)
  <2>1. /\ UNCHANGED <<pointer, mig, lock>> /\ marred \subseteq marred'
        /\ UNCHANGED state \/ state'.status = "queued"
    BY <1>3, OthersMove
  <2>2. QED
    BY <2>1 DEF MoveInv, StateIsTrue
<1>4. QED
  BY <1>2, <1>3

-----------------------------------------------------------------------------
(* Snapshots, cleanups and migrations beside each other.                   *)

LEMMA MigratingIs == Migrating <=> \E m \in Migrators : mig[m].phase \in Moving
  BY DEF Migrating, Moving, Early

\* Only BeginCopy makes a migrator one that copies.
LEMMA WhoMoves ==
  ASSUME HomeTypeOK, PartsOK, NEW m \in Migrators, Migration(m), ~BeginCopy(m),
         mig'[m].phase \in Moving
  PROVE  mig[m].phase \in Moving
<1>1. ASSUME NEW t \in Homes, NEW remove \in BOOLEAN, NEW deep \in BOOLEAN
      PROVE  ~MigrateStart(m, t, remove, deep)
  BY StartGoes DEF Moving, Early
<1>2. ~TakeLock(m)
  BY LockGoes DEF Moving, Early
<1>3. ~Switch(m) /\ ~RemoveSource(m) /\ ~Report(m)
  BY SwitchGoes, RemoveSourceGoes, ReportGoes DEF Advances, Moving, Early
<1>4. ~Release(m) /\ ~FailMigration(m) /\ ~Die(m)
  BY LeaveGoes DEF Leaves, Moving, Early
<1>5. QED
  BY <1>1, <1>2, <1>3, <1>4 DEF Migration, EndCopy, BackupDatabase, Verify, Place, Moving,
     Early

\* What a migrator's step leaves of the snapshots.
LEMMA MigrationWriters ==
  ASSUME HomeTypeOK, PartsOK, NEW m \in Migrators, Migration(m)
  PROVE  /\ UNCHANGED <<cleanup, saved, importer>>
         /\ \A w \in Writers : UNCHANGED <<writer[w].phase, writer[w].content>>
         /\ ~BeginCopy(m) => \A w \in Writers : UNCHANGED writer[w].mixed
         /\ ~RemoveSource(m) => \A w \in Writers : UNCHANGED writer[w].home
         /\ BeginCopy(m) => \A w \in Writers : writer'[w].mixed
<1>1. UNCHANGED <<cleanup, saved, importer>>
  BY DEF Migration, MigrateStart, TakeLock, BeginCopy, EndCopy, BackupDatabase, Verify,
     Place, Switch, RemoveSource, Report, Release, FailMigration, Die, otherVars, copyVars
<1>2. CASE BeginCopy(m)
  <2>1. ~RemoveSource(m)
    BY <1>2 DEF BeginCopy, RemoveSource
  <2>2. \A w \in Writers : writer'[w] = [writer[w] EXCEPT !.mixed = TRUE]
    BY <1>2 DEF BeginCopy
  <2>3. \A w \in Writers : writer[w] \in SnapshotRecords
    BY DEF PartsOK
  <2>4. \A w \in Writers : /\ UNCHANGED <<writer[w].phase, writer[w].content, writer[w].home>>
                           /\ writer'[w].mixed = TRUE
    BY <2>2, <2>3 DEF SnapshotRecords
  <2>5. QED
    BY <1>1, <1>2, <2>1, <2>4
<1>3. CASE RemoveSource(m)
  <2>1. ~BeginCopy(m)
    BY <1>3 DEF BeginCopy, RemoveSource
  <2>2. Remove(mig[m].source) \/ UNCHANGED writer
    BY <1>3 DEF RemoveSource
  <2>3. QED
    BY <1>1, <1>3, <2>1, <2>2, RemoveIs, MigrationIs
<1>4. CASE ~BeginCopy(m) /\ ~RemoveSource(m)
  <2>1. UNCHANGED writer
    BY <1>4 DEF Migration, MigrateStart, TakeLock, EndCopy, BackupDatabase, Verify, Place,
       Switch, Report, Release, FailMigration, Die, otherVars
  <2>2. QED
    BY <1>1, <1>4, <2>1
<1>5. QED
  BY <1>2, <1>3, <1>4

LEMMA CallsStep ==
  HomeTypeOK /\ PartsOK /\ CallsInv /\ [Next]_vars => CallsInv'
<1> SUFFICES ASSUME HomeTypeOK, PartsOK, CallsInv, [Next]_vars PROVE CallsInv'
  OBVIOUS
<1>1. ASSUME NEW m \in Migrators, Migration(m)
      PROVE  CallsInv'
  <2>1. cleanup' = cleanup /\ (Writing' <=> Writing)
    BY <1>1, MigrationWriters DEF Writing
  <2>2. CASE BeginCopy(m)
    BY <1>1, <2>1, <2>2, MigrationWriters DEF CallsInv
  <2>3. CASE ~BeginCopy(m)
    <3>1. Migrating' => Migrating
      <4>1. OnlyOf(m)
        BY <1>1, MigrationGoes DEF MigratorGoes
      <4>2. Migrating' <=> \E n \in Migrators : mig'[n].phase \in Moving
        BY DEF Migrating, Moving, Early
      <4>3. QED
        BY <1>1, <2>3, <4>1, <4>2, WhoMoves, MigratingIs DEF OnlyOf
    <3>2. QED
      BY <1>1, <2>1, <2>3, <3>1, MigrationWriters DEF CallsInv
  <2>4. QED
    BY <2>2, <2>3
<1>2. CASE \A m \in Migrators : ~Migration(m)
  <2>0. Migrating' <=> Migrating
    BY <1>2, OthersMove DEF Migrating
  <2>1. ASSUME NEW w \in Writers, NEW c \in Contents, Open(w, c)
        PROVE  CallsInv'
    BY <2>0, <2>1, OpenIs DEF Open, CallsInv
  <2>2. ASSUME NEW w \in Writers, Store(w)
        PROVE  CallsInv'
    <3>2. UNCHANGED cleanup /\ writer[w].phase = "open"
      BY <2>2 DEF Store
    <3>3. \A u \in Writers : UNCHANGED writer[u].mixed
                             /\ (writer'[u].phase # "idle" <=> writer[u].phase # "idle")
      BY <2>2, <3>2, StoreIs
    <3>4. QED
      BY <2>0, <3>2, <3>3 DEF CallsInv, Writing
  <2>3. ASSUME NEW w \in Writers, Commit(w)
        PROVE  CallsInv'
    <3>1. UNCHANGED cleanup /\ writer' = [writer EXCEPT ![w] = NoSnapshot]
      BY <2>3 DEF Commit
    <3>2. \A u \in Writers : writer'[u].phase # "idle"
                               => writer'[u] = writer[u]
      BY <3>1 DEF NoSnapshot, PartsOK
    <3>3. QED
      BY <2>0, <3>1, <3>2 DEF CallsInv, Writing
  <2>4. CASE Cleanup
    BY <2>0, <2>4 DEF Cleanup, CleanRow, CleanCheck, CleanObject, NoCleanup, CallsInv,
       Writing
  <2>5. CASE ImportClear
    <3>1. UNCHANGED cleanup /\ \A w \in Writers : UNCHANGED <<writer[w].phase, writer[w].mixed>>
      BY <2>5, RemoveIs DEF ImportClear, PartsOK
    <3>2. QED
      BY <2>0, <3>1 DEF CallsInv, Writing
  <2>6. CASE Export \/ (Import /\ ~ImportClear) \/ (\E t \in Homes : QueueFromUi(t))
             \/ UNCHANGED vars
    <3>1. UNCHANGED <<cleanup, writer>>
      BY <2>6, ExportIs DEF Import, ImportStart, ImportPlace, ImportFail, QueueFromUi, vars,
         otherVars
    <3>2. QED
      BY <2>0, <3>1 DEF CallsInv, Writing
  <2>7. QED
    BY <1>2, <2>1, <2>2, <2>3, <2>4, <2>5, <2>6 DEF Next, Snapshot
<1>3. QED
  BY <1>1, <1>2

-----------------------------------------------------------------------------
(* What is saved is in the vault in use.                                   *)

LEMMA MarredGrows == [Next]_vars => marred \subseteq marred'
<1> SUFFICES ASSUME [Next]_vars PROVE marred \subseteq marred'
  OBVIOUS
<1>1. ASSUME NEW m \in Migrators, Migration(m)
      PROVE  marred \subseteq marred'
  BY <1>1 DEF Migration, MigrateStart, TakeLock, BeginCopy, EndCopy, BackupDatabase,
     Verify, Place, Switch, RemoveSource, Report, Release, FailMigration, Die
<1>2. QED
  BY <1>1, OthersMove

\* The vault in use is not what a migration has just put in its place.
LEMMA PlacedIs ==
  ASSUME PartsOK, MoveInv, KeptInv, NEW m \in Migrators, mig[m].phase \in Early
  PROVE  mig[m].target # pointer
  BY DEF MoveInv, KeptInv, MigKept, Early

\* A step of somebody else than a migrator.
LEMMA OthersKeep ==
  ASSUME KeptInv, UNCHANGED <<pointer, mig>>,
         disk'[pointer] # Absent, saved' \subseteq disk'[pointer].db,
         importer'.phase # "idle" => importer'.target # pointer,
         \A w \in Writers : SnapKept(w)',
         \A m \in Migrators : mig[m].phase = "placed" =>
           /\ UNCHANGED disk[mig[m].target]
           /\ \A w \in Writers : writer'[w].home # mig[m].target,
         saved' \subseteq saved \/ ~Migrating
  PROVE  KeptInv'
<1>1. ASSUME NEW m \in Migrators PROVE MigKept(m)'
  <2>1. mig[m].phase \in {"backedUp", "verified", "placed"} => Migrating
    BY DEF Migrating
  <2>2. QED
    BY <2>1 DEF KeptInv, MigKept
<1>2. QED
  BY <1>1 DEF KeptInv

LEMMA SnapshotKeeps ==
  ASSUME HomeTypeOK, PartsOK, OpenOK, MoveInv, CallsInv, KeptInv,
         NEW w \in Writers, Snapshot(w)
  PROVE  KeptInv'
<1>0. /\ UNCHANGED <<pointer, mig, importer>> /\ pointer \in Homes
      /\ \A m \in Migrators : mig[m].target \in Homes
  BY MigrationIs DEF Snapshot, Open, Store, Commit, migVars, copyVars, HomeTypeOK
<1>1. \A m \in Migrators : mig[m].phase = "placed" => mig[m].target # pointer
  BY PlacedIs DEF Early
<1>2. Absent \notin Vaults /\ Absent \notin Homes /\ At(pointer) = disk[pointer]
  BY HomeAssumption DEF KeptInv, At
<1>3. ASSUME NEW c \in Contents, Open(w, c)
      PROVE  KeptInv'
  <2>1. disk' = disk /\ saved' = saved
    BY <1>3, ConnectIs DEF Open, KeptInv
  <2>2. \A u \in Writers : SnapKept(u)'
    BY <1>0, <1>3, OpenIs DEF SnapKept, KeptInv
  <2>3. \A m \in Migrators : mig[m].phase = "placed" =>
          \A u \in Writers : writer'[u].home # mig[m].target
    BY <1>1, <1>3, OpenIs DEF KeptInv, MigKept
  <2>4. QED
    BY <1>0, <2>1, <2>2, <2>3, OthersKeep DEF KeptInv
<1>4. CASE Store(w)
  <2>1. /\ saved' = saved /\ disk'[pointer] # Absent /\ disk'[pointer].db = disk[pointer].db
        /\ \A g \in Homes \ {pointer} : disk'[g] = disk[g]
        /\ writer[w].phase = "open"
    BY <1>2, <1>4, StoreIs DEF Store
  <2>2. \A u \in Writers : /\ UNCHANGED <<writer[u].home, writer[u].mixed>>
                           /\ writer'[u].phase # "idle" => writer[u].phase # "idle"
    BY <1>4, <2>1, StoreIs
  <2>3. \A u \in Writers : SnapKept(u)'
    BY <1>0, <2>2 DEF SnapKept, KeptInv
  <2>4. \A m \in Migrators : mig[m].phase = "placed" =>
          /\ UNCHANGED disk[mig[m].target]
          /\ \A u \in Writers : writer'[u].home # mig[m].target
    BY <1>0, <1>1, <2>1, <2>2 DEF KeptInv, MigKept
  <2>5. QED
    BY <1>0, <2>1, <2>3, <2>4, OthersKeep DEF KeptInv
<1>5. CASE Commit(w)
  <2>0. writer[w].phase # "idle"
    BY <1>5 DEF Commit
  <2>1. disk'[pointer] # Absent /\ disk[pointer].db \subseteq disk'[pointer].db
    <3>1. CASE writer[w].home = pointer
      BY <1>0, <1>2, <1>5, <3>1, CommitIs
    <3>2. CASE writer[w].home # pointer
      BY <1>0, <1>5, <3>2, CommitIs DEF KeptInv
    <3>3. QED
      BY <3>1, <3>2
  <2>2. saved' \subseteq disk'[pointer].db
    <3>1. CASE writer[w].mixed
      BY <1>5, <2>1, <3>1 DEF Commit, KeptInv
    <3>2. CASE ~writer[w].mixed
      <4>1. writer[w].home = pointer
        BY <2>0, <3>2 DEF KeptInv, SnapKept
      <4>2. writer[w].content \in disk'[pointer].db
        BY <1>0, <1>2, <1>5, <4>1, CommitIs
      <4>3. QED
        BY <1>5, <2>1, <3>2, <4>2 DEF Commit, KeptInv
    <3>3. QED
      BY <3>1, <3>2
  <2>3. NoSnapshot.phase = "idle" /\ NoSnapshot.home = Absent
    BY DEF NoSnapshot
  <2>4. \A u \in Writers : SnapKept(u)'
    BY <1>0, <1>5, <2>3, CommitIs DEF SnapKept, KeptInv
  <2>5. \A m \in Migrators : mig[m].phase = "placed" =>
          /\ UNCHANGED disk[mig[m].target]
          /\ \A u \in Writers : writer'[u].home # mig[m].target
    <3>1. SUFFICES ASSUME NEW m \in Migrators, mig[m].phase = "placed"
                   PROVE  /\ UNCHANGED disk[mig[m].target]
                          /\ \A u \in Writers : writer'[u].home # mig[m].target
      OBVIOUS
    <3>2. \A u \in Writers : writer[u].home # mig[m].target
      BY <3>1 DEF KeptInv, MigKept
    <3>3. UNCHANGED disk[mig[m].target]
      BY <1>0, <1>5, <3>2, CommitIs
    <3>4. \A u \in Writers : writer'[u].home # mig[m].target
      BY <1>0, <1>2, <1>5, <2>3, <3>2, CommitIs
    <3>5. QED
      BY <3>3, <3>4
  <2>6. saved' \subseteq saved \/ ~Migrating
    BY <1>5, <2>0 DEF Commit, CallsInv
  <2>7. QED
    BY <1>0, <2>1, <2>2, <2>4, <2>5, <2>6, OthersKeep DEF KeptInv
<1>6. QED
  BY <1>3, <1>4, <1>5 DEF Snapshot

LEMMA CleanupKeeps ==
  ASSUME HomeTypeOK, PartsOK, MoveInv, KeptInv, Cleanup
  PROVE  KeptInv'
<1>0. /\ UNCHANGED <<pointer, mig, importer, writer>> /\ pointer \in Homes
      /\ \A m \in Migrators : mig[m].target \in Homes
  BY MigrationIs DEF Cleanup, CleanRow, CleanCheck, CleanObject, migVars, copyVars,
     HomeTypeOK
<1>1. \A m \in Migrators : mig[m].phase = "placed" => mig[m].target # pointer
  BY PlacedIs DEF Early
<1>2. Absent \notin Vaults
  BY HomeAssumption
<1>3. /\ disk'[pointer] # Absent /\ saved' \subseteq saved /\ saved' \subseteq disk'[pointer].db
      /\ \A g \in Homes \ {pointer} : disk'[g] = disk[g]
  <2>1. ASSUME NEW c \in Contents, CleanRow(c)
        PROVE  /\ disk'[pointer] # Absent /\ saved' \subseteq saved
               /\ saved' \subseteq disk'[pointer].db
               /\ \A g \in Homes \ {pointer} : disk'[g] = disk[g]
    <3>1. saved' = saved \ {c}
      BY <2>1 DEF CleanRow
    <3>2. /\ disk'[pointer] \in Vaults /\ disk'[pointer].db = disk[pointer].db \ {c}
          /\ \A g \in Homes \ {pointer} : disk'[g] = disk[g]
      BY <2>1, CleanRowIs
    <3>3. QED
      BY <1>2, <3>1, <3>2 DEF KeptInv
  <2>2. CASE CleanCheck
    BY <1>2, <2>2, ConnectIs DEF CleanCheck, KeptInv
  <2>3. CASE CleanObject
    BY <1>2, <2>3, CleanObjectIs DEF CleanObject, KeptInv
  <2>4. QED
    BY <2>1, <2>2, <2>3 DEF Cleanup
<1>4. \A w \in Writers : SnapKept(w)'
  BY <1>0 DEF SnapKept, KeptInv
<1>5. \A m \in Migrators : mig[m].phase = "placed" =>
        /\ UNCHANGED disk[mig[m].target]
        /\ \A w \in Writers : writer'[w].home # mig[m].target
  BY <1>0, <1>1, <1>3 DEF KeptInv, MigKept
<1>6. QED
  BY <1>0, <1>3, <1>4, <1>5, OthersKeep DEF KeptInv

LEMMA CopiesKeep ==
  ASSUME HomeTypeOK, PartsOK, MoveInv, KeptInv, SameVault', Export \/ Import
  PROVE  KeptInv'
<1>0. /\ UNCHANGED <<pointer, mig, saved>> /\ pointer \in Homes
      /\ \A m \in Migrators : mig[m].target \in Homes
      /\ importer.target \in Homes
  BY MigrationIs, ExportIs DEF Import, ImportStart, ImportClear, ImportPlace, ImportFail,
     migVars, otherVars, HomeTypeOK, PartsOK
<1>1. \A m \in Migrators : mig[m].phase = "placed" => mig[m].target # pointer
  BY PlacedIs DEF Early
<1>2. CASE Export \/ ImportFail \/ (Import /\ ~ImportClear /\ ~ImportPlace)
  <2>1. disk' = disk /\ writer' = writer
    BY <1>2, ConnectIs, ExportIs DEF Import, ImportStart, ImportFail, migVars, otherVars,
       KeptInv
  <2>2. importer'.phase # "idle" => importer'.target # pointer
    <3>1. CASE UNCHANGED importer
      BY <3>1 DEF KeptInv
    <3>2. ASSUME NEW t \in Homes, NEW overwrite \in BOOLEAN, NEW skip \in BOOLEAN,
                 ImportStart(t, overwrite, skip)
          PROVE  importer'.target # pointer
      BY <3>2 DEF ImportStart
    <3>3. CASE ImportFail
      BY <3>3 DEF ImportFail, NoImport
    <3>4. QED
      BY <1>2, <3>1, <3>2, <3>3, ExportIs DEF Import
  <2>3. QED
    BY <1>0, <2>1, <2>2, OthersKeep DEF KeptInv, SnapKept, MigKept
<1>3. CASE ImportClear
  <2>1. Remove(importer.target) /\ importer.target # pointer
    BY <1>3 DEF ImportClear, KeptInv
  <2>2. /\ \A g \in Homes \ {importer.target} : disk'[g] = disk[g]
        /\ \A w \in Writers :
              /\ writer'[w].home = IF writer[w].home = importer.target THEN Absent
                                   ELSE writer[w].home
              /\ UNCHANGED <<writer[w].phase, writer[w].mixed>>
    BY <1>0, <2>1, RemoveIs
  <2>3. disk'[pointer] = disk[pointer]
    BY <1>0, <2>1, <2>2
  <2>4. \A w \in Writers : SnapKept(w)'
    BY <1>0, <2>1, <2>2 DEF SnapKept, KeptInv
  <2>5. importer'.phase # "idle" => importer'.target # pointer
    BY <1>3, <2>1 DEF ImportClear, PartsOK
  <2>6. ASSUME NEW m \in Migrators, mig[m].phase = "placed"
        PROVE  /\ UNCHANGED disk[mig[m].target]
               /\ \A w \in Writers : writer'[w].home # mig[m].target
    <3>1. mig[m].target # importer.target
      BY <1>3, <2>6 DEF ImportClear, SameVault
    <3>2. \A w \in Writers : writer[w].home # mig[m].target
      BY <2>6 DEF KeptInv, MigKept
    <3>3. Absent \notin Homes
      BY HomeAssumption
    <3>4. QED
      BY <1>0, <2>2, <3>1, <3>2, <3>3
  <2>7. QED
    BY <1>0, <2>3, <2>4, <2>5, <2>6, OthersKeep DEF KeptInv
<1>4. CASE ImportPlace
  <2>1. /\ disk[importer.target] = Absent /\ importer'.phase = "idle" /\ UNCHANGED writer
        /\ \A g \in Homes \ {importer.target} : disk'[g] = disk[g]
    BY <1>4 DEF ImportPlace, NoImport, otherVars, HomeTypeOK
  <2>2. disk'[pointer] = disk[pointer]
    BY <1>0, <2>1 DEF KeptInv
  <2>3. \A w \in Writers : SnapKept(w)'
    BY <1>0, <2>1 DEF SnapKept, KeptInv
  <2>4. ASSUME NEW m \in Migrators, mig[m].phase = "placed"
        PROVE  /\ UNCHANGED disk[mig[m].target]
               /\ \A w \in Writers : writer'[w].home # mig[m].target
    BY <1>0, <2>1, <2>4 DEF KeptInv, MigKept
  <2>5. QED
    BY <1>0, <2>1, <2>2, <2>3, <2>4, OthersKeep DEF KeptInv
<1>5. QED
  BY <1>2, <1>3, <1>4

\* A migrator's step that leaves the homes and the pointer alone.
LEMMA QuietMoveKeeps ==
  ASSUME HomeTypeOK, PartsOK, KeptInv, NEW m \in Migrators, Migration(m),
         UNCHANGED <<disk, pointer>>, ~RemoveSource(m), MigKept(m)'
  PROVE  KeptInv'
<1>1. /\ UNCHANGED <<saved, importer>>
      /\ \A w \in Writers : /\ UNCHANGED <<writer[w].phase, writer[w].home>>
                            /\ writer'[w].mixed \/ UNCHANGED writer[w].mixed
  BY MigrationWriters
<1>2. OnlyOf(m)
  BY MigrationGoes DEF MigratorGoes
<1>3. ASSUME NEW n \in Migrators PROVE MigKept(n)'
  <2>1. CASE n # m
    BY <1>1, <1>2, <2>1 DEF MigKept, KeptInv, OnlyOf
  <2>2. QED
    BY <2>1
<1>4. \A w \in Writers : SnapKept(w)'
  BY <1>1 DEF SnapKept, KeptInv
<1>5. QED
  BY <1>1, <1>3, <1>4 DEF KeptInv

LEMMA MigrationKeeps ==
  ASSUME HomeTypeOK, PartsOK, OpenOK, MoveInv, CallsInv, KeptInv, SameVault',
         NEW m \in Migrators, Migration(m)
  PROVE  KeptInv'
<1>0. /\ OnlyOf(m) /\ mig[m].target \in Homes /\ mig[m].source \in Homes
      /\ pointer \in Homes
      /\ UNCHANGED <<saved, importer>>
      /\ \A w \in Writers : UNCHANGED <<writer[w].phase, writer[w].content>>
  BY MigrationIs, MigrationGoes, MigrationWriters DEF MigratorGoes, HomeTypeOK
\* Beside whoever is at work, the others have nothing to keep.
<1>1. ASSUME Holding(m), NEW n \in Migrators \ {m}
      PROVE  mig'[n].phase \in {"idle", "stated"}
  BY <1>0, <1>1 DEF OnlyOf, Holding, HomeTypeOK
<1>2. ASSUME NEW n \in Migrators, mig'[n].phase \in {"idle", "stated"} \cup Late
      PROVE  MigKept(n)'
  BY <1>2 DEF MigKept, Early, Late
<1>3. ASSUME NEW t \in Homes, NEW remove \in BOOLEAN, NEW deep \in BOOLEAN,
             MigrateStart(m, t, remove, deep)
      PROVE  KeptInv'
  <2>1. mig'[m].phase = "stated" /\ UNCHANGED <<disk, pointer>> /\ ~RemoveSource(m)
    BY <1>3, StartGoes DEF MigrateStart, RemoveSource
  <2>2. QED
    BY <1>2, <2>1, QuietMoveKeeps
<1>4. CASE TakeLock(m)
  <2>1. UNCHANGED <<disk, pointer>> /\ ~RemoveSource(m)
    BY <1>4 DEF TakeLock, RemoveSource
  <2>2. CASE mig'[m].phase = "locked"
    <3>1. ~lock
      BY <1>4, <2>2 DEF TakeLock, NoMigration, PartsOK
    <3>2. mig[m].source = pointer
      BY <1>4, <3>1 DEF TakeLock, SameVault
    <3>3. MigKept(m)'
      BY <1>4, <2>1, <2>2, <3>2, LockGoes DEF MigKept
    <3>4. QED
      BY <2>1, <3>3, QuietMoveKeeps
  <2>3. CASE mig'[m].phase = "idle"
    BY <1>2, <2>1, <2>3, QuietMoveKeeps
  <2>4. QED
    BY <1>4, <2>2, <2>3, LockGoes
<1>5. CASE BeginCopy(m) \/ EndCopy(m)
  <2>1. UNCHANGED <<disk, pointer>> /\ ~RemoveSource(m)
    BY <1>5 DEF BeginCopy, EndCopy, RemoveSource
  <2>2. /\ mig[m].phase \in Early /\ mig'[m].phase \in {"copying", "copied"}
        /\ UNCHANGED mig[m].source
    BY <1>5, BeginCopyGoes, EndCopyGoes DEF Advances, Early
  <2>3. MigKept(m)'
    BY <2>1, <2>2 DEF MigKept, KeptInv
  <2>4. QED
    BY <2>1, <2>3, QuietMoveKeeps
<1>6. CASE BackupDatabase(m)
  <2>1. UNCHANGED <<disk, pointer>> /\ ~RemoveSource(m)
    BY <1>6, ConnectIs DEF BackupDatabase, RemoveSource, KeptInv
  <2>2. mig[m].source = pointer
    BY <1>6 DEF BackupDatabase, KeptInv, MigKept, Early
  <2>3. mig'[m].stage.db = disk[pointer].db
    BY <1>6, <2>2, BackupGoes DEF KeptInv, At
  <2>4. MigKept(m)'
    BY <1>0, <1>6, <2>1, <2>2, <2>3, BackupGoes DEF Advances, MigKept, KeptInv
  <2>5. QED
    BY <2>1, <2>4, QuietMoveKeeps
<1>7. CASE Verify(m)
  <2>1. UNCHANGED <<disk, pointer>> /\ ~RemoveSource(m)
    BY <1>7 DEF Verify, RemoveSource
  <2>2. mig[m].source = pointer
    BY <1>7 DEF Verify, KeptInv, MigKept, Early
  <2>3. MigKept(m)'
    BY <1>0, <1>7, <2>1, <2>2, VerifyGoes DEF Advances, MigKept, KeptInv
  <2>4. QED
    BY <2>1, <2>3, QuietMoveKeeps
<1>8. CASE Place(m)
  <2>1. mig[m].phase = "verified" /\ disk[mig[m].target] = Absent
    BY <1>8 DEF Place
  <2>2. mig[m].source = pointer /\ saved \subseteq mig[m].stage.db /\ mig[m].target # pointer
    BY <2>1, PlacedIs DEF KeptInv, MigKept, Early
  <2>3. mig[m].stage # Absent
    BY <2>1 DEF HomeTypeOK, Holding
  <2>4. /\ UNCHANGED <<pointer, writer>> /\ disk'[mig[m].target] = mig[m].stage
        /\ \A g \in Homes \ {mig[m].target} : disk'[g] = disk[g]
    BY <1>0, <1>8 DEF Place, otherVars, HomeTypeOK
  <2>5. \A w \in Writers : writer[w].home # mig[m].target
    BY <1>0, <2>1, HomeAssumption DEF OpenOK
  <2>6. MigKept(m)'
    BY <1>0, <1>8, <2>2, <2>3, <2>4, <2>5, PlaceGoes DEF Advances, MigKept
  <2>7. \A n \in Migrators : MigKept(n)'
    BY <1>1, <1>2, <2>1, <2>6 DEF Holding
  <2>8. disk'[pointer] = disk[pointer]
    BY <1>0, <2>2, <2>4
  <2>9. \A w \in Writers : SnapKept(w)'
    BY <2>4 DEF SnapKept, KeptInv
  <2>10. QED
    BY <1>0, <2>4, <2>7, <2>8, <2>9 DEF KeptInv
<1>9. CASE Switch(m)
  <2>1. /\ mig[m].phase = "placed" /\ pointer' = mig[m].target /\ UNCHANGED <<disk, writer>>
        /\ mig'[m].phase = "switched"
    BY <1>9, SwitchGoes DEF Switch, otherVars, Advances
  <2>2. disk[mig[m].target] # Absent /\ saved \subseteq disk[mig[m].target].db
    BY <2>1 DEF KeptInv, MigKept
  <2>3. importer.phase # "idle" => importer.target # mig[m].target
    BY <1>9 DEF Switch, SameVault
  <2>4. Migrating
    BY <2>1 DEF Migrating
  <2>5. \A w \in Writers : SnapKept(w)'
    BY <2>1, <2>4 DEF SnapKept, CallsInv
  <2>6. \A n \in Migrators : MigKept(n)'
    BY <1>1, <1>2, <2>1 DEF Holding, Late
  <2>7. QED
    BY <1>0, <2>1, <2>2, <2>3, <2>5, <2>6 DEF KeptInv
<1>10. CASE RemoveSource(m)
  <2>1. mig[m].phase = "switched" /\ UNCHANGED pointer /\ mig'[m].phase = "removed"
    BY <1>10, RemoveSourceGoes DEF RemoveSource, Advances
  <2>2. mig[m].source # pointer
    BY <2>1 DEF MoveInv, Late
  <2>3. disk'[pointer] = disk[pointer]
    BY <1>0, <1>10, <2>2, RemoveIs DEF RemoveSource
  <2>4. \A n \in Migrators : MigKept(n)'
    BY <1>1, <1>2, <2>1 DEF Holding, Late
  <2>5. \A w \in Writers : /\ UNCHANGED writer[w].mixed
                           /\ writer[w].home = pointer => writer'[w].home = pointer
    <3>1. CASE Remove(mig[m].source)
      BY <1>0, <2>2, <3>1, RemoveIs
    <3>2. QED
      BY <1>10, <3>1 DEF RemoveSource
  <2>6. ASSUME NEW w \in Writers PROVE SnapKept(w)'
    <3>1. SnapKept(w)
      BY DEF KeptInv
    <3>2. UNCHANGED <<writer[w].phase, writer[w].mixed, pointer>>
      BY <1>0, <2>1, <2>5
    <3>3. QED
      BY <2>5, <3>1, <3>2 DEF SnapKept
  <2>7. QED
    BY <1>0, <2>1, <2>3, <2>4, <2>6 DEF KeptInv
<1>11. CASE Report(m)
  <2>1. UNCHANGED <<disk, pointer>> /\ ~RemoveSource(m) /\ mig'[m].phase = "reported"
    BY <1>11, ReportGoes DEF Report, RemoveSource, Advances
  <2>2. QED
    BY <1>2, <2>1, QuietMoveKeeps DEF Late
<1>12. CASE Release(m) \/ FailMigration(m) \/ Die(m)
  <2>1. UNCHANGED <<disk, pointer>> /\ mig'[m].phase = "idle"
    BY <1>12, LeaveGoes DEF Release, FailMigration, Die, Leaves
  <2>2. ~RemoveSource(m)
    BY <2>1, RemoveSourceGoes DEF Advances
  <2>3. QED
    BY <1>2, <2>1, <2>2, QuietMoveKeeps
<1>13. QED
  BY <1>3, <1>4, <1>5, <1>6, <1>7, <1>8, <1>9, <1>10, <1>11, <1>12 DEF Migration

LEMMA KeptStep ==
  ASSUME HomeTypeOK, PartsOK, OpenOK, MoveInv, CallsInv, KeptInv, SameVault',
         [Next]_vars
  PROVE  KeptInv'
<1>1. CASE (\E t \in Homes : QueueFromUi(t)) \/ UNCHANGED vars
  <2>1. UNCHANGED <<disk, pointer, mig, writer, saved, importer>>
    BY <1>1 DEF QueueFromUi, vars, otherVars, copyVars
  <2>2. QED
    BY <2>1 DEF KeptInv, SnapKept, MigKept
<1>2. QED
  BY <1>1, MigrationKeeps, SnapshotKeeps, CleanupKeeps, CopiesKeep DEF Next

-----------------------------------------------------------------------------
(* Every version of the vault in use has its object.                       *)

\* A step of somebody else than a migrator.
LEMMA OthersWhole ==
  ASSUME WholeInv, UNCHANGED <<pointer, mig>>, marred \subseteq marred',
         Whole(disk'[pointer]), Sound(disk[pointer]) => Sound(disk'[pointer]),
         \A w \in Writers : writer'[w].phase = "stored" /\ writer'[w].home = pointer
                          => writer'[w].content \in disk'[pointer].objects \ disk'[pointer].bad,
         cleanup'.phase = "checked" => cleanup'.content \notin disk'[pointer].db,
         \/ disk[pointer].objects \subseteq disk'[pointer].objects
         \/ \A m \in Migrators : mig[m].phase # "backedUp",
         \A m \in Migrators : mig[m].phase = "placed" => UNCHANGED disk[mig[m].target]
  PROVE  WholeInv'
<1>1. ASSUME NEW m \in Migrators PROVE MigWhole(m)'
  BY DEF WholeInv, MigWhole
<1>2. "shallow" \notin marred' => Sound(disk'[pointer])
  BY DEF WholeInv
<1>3. QED
  BY <1>1, <1>2 DEF WholeInv

LEMMA SnapshotWhole ==
  ASSUME HomeTypeOK, PartsOK, OpenOK, MoveInv, CallsInv, KeptInv, WholeInv,
         NEW w \in Writers, Snapshot(w)
  PROVE  WholeInv'
<1>0. /\ UNCHANGED <<pointer, mig, marred, cleanup>> /\ pointer \in Homes
      /\ \A m \in Migrators : mig[m].target \in Homes
  BY MigrationIs DEF Snapshot, Open, Store, Commit, migVars, HomeTypeOK
<1>1. \A m \in Migrators : mig[m].phase = "placed" => mig[m].target # pointer
  BY PlacedIs DEF Early
<1>2. At(pointer) = disk[pointer] /\ pointer # Absent
  BY HomeAssumption, <1>0 DEF KeptInv, At
<1>3. ASSUME NEW c \in Contents, Open(w, c)
      PROVE  WholeInv'
  <2>1. disk' = disk
    BY <1>3, ConnectIs DEF Open, KeptInv
  <2>2. \A u \in Writers : writer'[u].phase = "stored" => writer'[u] = writer[u]
    BY <1>3, OpenIs
  <2>3. QED
    BY <1>0, <2>1, <2>2, OthersWhole DEF WholeInv
<1>4. CASE Store(w)
  <2>1. /\ disk'[pointer].db = disk[pointer].db
        /\ disk'[pointer].objects = disk[pointer].objects \cup {writer[w].content}
        /\ disk'[pointer].bad = disk[pointer].bad \ {writer[w].content}
        /\ \A g \in Homes \ {pointer} : disk'[g] = disk[g]
        /\ UNCHANGED writer[w].content
        /\ \A u \in Writers \ {w} : writer'[u] = writer[u]
    BY <1>2, <1>4, StoreIs
  <2>2. \A u \in Writers : writer'[u].phase = "stored" /\ writer'[u].home = pointer
                          => writer'[u].content \in disk'[pointer].objects \ disk'[pointer].bad
    BY <2>1 DEF WholeInv
  <2>3. Whole(disk'[pointer]) /\ (Sound(disk[pointer]) => Sound(disk'[pointer]))
    BY <2>1 DEF WholeInv, Whole, Sound
  <2>4. \A m \in Migrators : mig[m].phase = "placed" => UNCHANGED disk[mig[m].target]
    BY <1>0, <1>1, <2>1
  <2>5. cleanup'.phase = "checked" => cleanup'.content \notin disk'[pointer].db
    BY <1>0, <2>1 DEF WholeInv
  <2>6. QED
    BY <1>0, <2>1, <2>2, <2>3, <2>4, <2>5, OthersWhole
<1>5. CASE Commit(w)
  <2>1. writer[w].phase = "stored"
    BY <1>5 DEF Commit
  <2>2. cleanup.phase = "idle"
    BY <2>1 DEF CallsInv, Writing
  <2>3. /\ Whole(disk'[pointer]) /\ disk'[pointer].objects = disk[pointer].objects
        /\ disk'[pointer].bad = disk[pointer].bad
        /\ Sound(disk[pointer]) => Sound(disk'[pointer])
    <3>1. CASE writer[w].home = pointer
      <4>1. writer[w].content \in disk[pointer].objects \ disk[pointer].bad
        BY <2>1, <3>1 DEF WholeInv
      <4>2. /\ disk'[pointer].db = disk[pointer].db \cup {writer[w].content}
            /\ disk'[pointer].objects = disk[pointer].objects
            /\ disk'[pointer].bad = disk[pointer].bad
        BY <1>2, <1>5, <3>1, CommitIs
      <4>3. QED
        BY <4>1, <4>2 DEF WholeInv, Whole, Sound
    <3>2. CASE writer[w].home # pointer
      BY <1>0, <1>5, <3>2, CommitIs DEF WholeInv
    <3>3. QED
      BY <3>1, <3>2
  <2>4. \A u \in Writers : writer'[u].phase = "stored" /\ writer'[u].home = pointer
                          => writer'[u].content \in disk'[pointer].objects \ disk'[pointer].bad
    BY <1>5, <2>3, CommitIs DEF NoSnapshot, WholeInv
  <2>5. ASSUME NEW m \in Migrators, mig[m].phase = "placed"
        PROVE  UNCHANGED disk[mig[m].target]
    <3>1. writer[w].home # mig[m].target
      BY <2>5 DEF KeptInv, MigKept
    <3>2. QED
      BY <1>0, <1>5, <3>1, CommitIs
  <2>6. QED
    BY <1>0, <2>2, <2>3, <2>4, <2>5, OthersWhole
<1>6. QED
  BY <1>3, <1>4, <1>5 DEF Snapshot

LEMMA CleanupWhole ==
  ASSUME HomeTypeOK, PartsOK, MoveInv, CallsInv, KeptInv, WholeInv, Cleanup, SameObjects'
  PROVE  WholeInv'
<1>0. /\ UNCHANGED <<pointer, mig, writer>> /\ marred \subseteq marred' /\ pointer \in Homes
      /\ \A m \in Migrators : mig[m].target \in Homes
  BY MigrationIs DEF Cleanup, CleanRow, CleanCheck, CleanObject, migVars, HomeTypeOK
<1>1. \A m \in Migrators : mig[m].phase = "placed" => mig[m].target # pointer
  BY PlacedIs DEF Early
<1>2. ASSUME NEW c \in Contents, CleanRow(c)
      PROVE  WholeInv'
  <2>1. /\ disk'[pointer].db \subseteq disk[pointer].db
        /\ disk'[pointer].objects = disk[pointer].objects
        /\ disk'[pointer].bad = disk[pointer].bad
        /\ \A g \in Homes \ {pointer} : disk'[g] = disk[g]
    BY <1>2, CleanRowIs
  <2>2. cleanup'.phase = "rows"
    BY <1>2 DEF CleanRow
  <2>3. Whole(disk'[pointer]) /\ (Sound(disk[pointer]) => Sound(disk'[pointer]))
    BY <2>1 DEF WholeInv, Whole, Sound
  <2>4. \A u \in Writers : writer'[u].phase = "stored" /\ writer'[u].home = pointer
                          => writer'[u].content \in disk'[pointer].objects \ disk'[pointer].bad
    BY <1>0, <2>1 DEF WholeInv
  <2>5. QED
    BY <1>0, <1>1, <2>1, <2>2, <2>3, <2>4, OthersWhole
<1>3. CASE CleanCheck
  <2>1. disk' = disk /\ At(pointer) = disk[pointer]
    BY <1>3, ConnectIs DEF CleanCheck, KeptInv, At
  <2>2. cleanup'.phase = "checked" => cleanup'.content \notin disk'[pointer].db
    BY <1>3, <2>1 DEF CleanCheck, NoCleanup, PartsOK
  <2>3. QED
    BY <1>0, <2>1, <2>2, OthersWhole DEF WholeInv
<1>4. CASE CleanObject
  <2>1. /\ disk'[pointer].db = disk[pointer].db
        /\ disk'[pointer].objects = disk[pointer].objects \ {cleanup.content}
        /\ disk'[pointer].bad \subseteq disk[pointer].bad
        /\ \A g \in Homes \ {pointer} : disk'[g] = disk[g]
    BY <1>4, CleanObjectIs DEF KeptInv
  <2>2. cleanup.phase = "checked" /\ cleanup'.phase = "idle"
    BY <1>4 DEF CleanObject, NoCleanup
  <2>3. Whole(disk'[pointer]) /\ (Sound(disk[pointer]) => Sound(disk'[pointer]))
    BY <2>1, <2>2 DEF WholeInv, Whole, Sound
  <2>4. \A u \in Writers : writer'[u].phase # "stored"
    BY <1>0, <2>2 DEF CallsInv, Writing
  <2>5. \A m \in Migrators : mig[m].phase # "backedUp"
    BY <1>4 DEF CleanObject, SameObjects
  <2>6. QED
    BY <1>0, <1>1, <2>1, <2>2, <2>3, <2>4, <2>5, OthersWhole
<1>5. QED
  BY <1>2, <1>3, <1>4 DEF Cleanup

LEMMA CopiesWhole ==
  ASSUME HomeTypeOK, PartsOK, MoveInv, KeptInv, WholeInv, Export \/ Import, SameVault'
  PROVE  WholeInv'
<1>0. /\ UNCHANGED <<pointer, mig, cleanup>> /\ marred \subseteq marred' /\ pointer \in Homes
      /\ \A m \in Migrators : mig[m].target \in Homes
      /\ importer.target \in Homes
  BY MigrationIs, ExportIs DEF Import, ImportStart, ImportClear, ImportPlace, ImportFail,
     migVars, otherVars, HomeTypeOK, PartsOK
<1>1. CASE Export \/ (Import /\ ~ImportClear /\ ~ImportPlace)
  <2>1. disk' = disk /\ writer' = writer
    BY <1>1, ConnectIs, ExportIs DEF Import, ImportStart, ImportFail, migVars, otherVars,
       KeptInv
  <2>2. QED
    BY <1>0, <2>1, OthersWhole DEF WholeInv
<1>2. CASE ImportClear
  <2>1. Remove(importer.target) /\ importer.target # pointer
    BY <1>2 DEF ImportClear, KeptInv
  <2>2. /\ \A g \in Homes \ {importer.target} : disk'[g] = disk[g]
        /\ \A w \in Writers :
              /\ writer'[w].home = pointer => writer[w].home = pointer
              /\ UNCHANGED <<writer[w].phase, writer[w].content>>
    BY <1>0, <2>1, HomeAssumption, RemoveIs
  <2>3. disk'[pointer] = disk[pointer]
    BY <1>0, <2>1, <2>2
  <2>4. ASSUME NEW m \in Migrators, mig[m].phase = "placed"
        PROVE  UNCHANGED disk[mig[m].target]
    <3>1. mig[m].target # importer.target
      BY <1>2, <2>4 DEF ImportClear, SameVault
    <3>2. QED
      BY <1>0, <2>2, <3>1
  <2>5. \A u \in Writers : writer'[u].phase = "stored" /\ writer'[u].home = pointer
                          => writer'[u].content \in disk'[pointer].objects \ disk'[pointer].bad
    BY <2>2, <2>3 DEF WholeInv
  <2>6. QED
    BY <1>0, <2>3, <2>4, <2>5, OthersWhole DEF WholeInv
<1>3. CASE ImportPlace
  <2>1. /\ disk[importer.target] = Absent /\ UNCHANGED writer
        /\ \A g \in Homes \ {importer.target} : disk'[g] = disk[g]
    BY <1>3 DEF ImportPlace, otherVars, HomeTypeOK
  <2>2. disk'[pointer] = disk[pointer]
    BY <1>0, <2>1 DEF KeptInv
  <2>3. \A m \in Migrators : mig[m].phase = "placed" => UNCHANGED disk[mig[m].target]
    BY <1>0, <2>1 DEF KeptInv, MigKept
  <2>4. QED
    BY <1>0, <2>1, <2>2, <2>3, OthersWhole DEF WholeInv
<1>4. QED
  BY <1>1, <1>2, <1>3

LEMMA QuietMoveWhole ==
  ASSUME HomeTypeOK, PartsOK, WholeInv, NEW m \in Migrators, Migration(m),
         UNCHANGED <<disk, pointer>>, ~RemoveSource(m), marred \subseteq marred',
         MigWhole(m)'
  PROVE  WholeInv'
<1>1. /\ UNCHANGED cleanup
      /\ \A w \in Writers : UNCHANGED <<writer[w].phase, writer[w].home, writer[w].content>>
  BY MigrationWriters
<1>2. OnlyOf(m)
  BY MigrationGoes DEF MigratorGoes
<1>3. ASSUME NEW n \in Migrators PROVE MigWhole(n)'
  <2>1. CASE n # m
    BY <1>1, <1>2, <2>1 DEF MigWhole, WholeInv, OnlyOf
  <2>2. QED
    BY <2>1
<1>4. QED
  BY <1>1, <1>3 DEF WholeInv

LEMMA MigrationWhole ==
  ASSUME HomeTypeOK, PartsOK, MoveInv, KeptInv, WholeInv, SameObjects',
         NEW m \in Migrators, Migration(m), marred \subseteq marred'
  PROVE  WholeInv'
<1>0. /\ OnlyOf(m) /\ mig[m].target \in Homes /\ mig[m].source \in Homes
      /\ pointer \in Homes /\ UNCHANGED cleanup
      /\ \A w \in Writers : UNCHANGED <<writer[w].phase, writer[w].content>>
  BY MigrationIs, MigrationGoes, MigrationWriters DEF MigratorGoes, HomeTypeOK
<1>1. ASSUME Holding(m), NEW n \in Migrators \ {m}
      PROVE  mig'[n].phase \in {"idle", "stated"}
  BY <1>0, <1>1 DEF OnlyOf, Holding, HomeTypeOK
<1>2. ASSUME NEW n \in Migrators, mig'[n].phase \notin {"backedUp", "verified", "placed"}
      PROVE  MigWhole(n)'
  BY <1>2 DEF MigWhole
<1>3. CASE ~BackupDatabase(m) /\ ~Verify(m) /\ ~Place(m) /\ ~Switch(m) /\ ~RemoveSource(m)
  <2>1. UNCHANGED <<disk, pointer>>
    BY <1>3 DEF Migration, MigrateStart, TakeLock, BeginCopy, EndCopy, Report, Release,
       FailMigration, Die
  <2>2. mig'[m].phase \notin {"backedUp", "verified", "placed"}
    <3>1. ASSUME NEW t \in Homes, NEW remove \in BOOLEAN, NEW deep \in BOOLEAN,
                 MigrateStart(m, t, remove, deep)
          PROVE  mig'[m].phase \notin {"backedUp", "verified", "placed"}
      BY <3>1, StartGoes
    <3>2. CASE TakeLock(m)
      BY <3>2, LockGoes
    <3>3. CASE BeginCopy(m) \/ EndCopy(m) \/ Report(m)
      BY <3>3, BeginCopyGoes, EndCopyGoes, ReportGoes DEF Advances
    <3>4. CASE Release(m) \/ FailMigration(m) \/ Die(m)
      BY <3>4, LeaveGoes DEF Leaves
    <3>5. QED
      BY <1>3, <3>1, <3>2, <3>3, <3>4 DEF Migration
  <2>3. QED
    BY <1>2, <1>3, <2>1, <2>2, QuietMoveWhole
<1>4. CASE BackupDatabase(m)
  <2>1. UNCHANGED <<disk, pointer>> /\ ~RemoveSource(m)
    BY <1>4, ConnectIs DEF BackupDatabase, RemoveSource, KeptInv
  <2>2. mig[m].source = pointer
    BY <1>4 DEF BackupDatabase, KeptInv, MigKept, Early
  <2>3. mig'[m].stage.db = disk[pointer].db /\ mig'[m].phase = "backedUp"
    BY <1>4, <2>2, BackupGoes DEF KeptInv, At, Advances
  <2>4. MigWhole(m)'
    BY <2>1, <2>3 DEF MigWhole, WholeInv, Whole
  <2>5. QED
    BY <2>1, <2>4, QuietMoveWhole
<1>5. CASE Verify(m)
  <2>1. UNCHANGED <<disk, pointer>> /\ ~RemoveSource(m) /\ mig[m].phase = "backedUp"
    BY <1>5 DEF Verify, RemoveSource
  <2>2. At(mig[m].source) = disk[pointer]
    BY <2>1 DEF KeptInv, MigKept, Early, At
  <2>3. disk[pointer].objects \subseteq mig[m].stage.objects
        /\ (mig[m].deep => disk[pointer].objects \cap mig[m].stage.bad = {})
    BY <1>5, <2>2 DEF Verify, Verified
  <2>4. mig[m].stage.db \subseteq disk[pointer].objects
    BY <2>1 DEF WholeInv, MigWhole
  <2>5. /\ mig'[m].phase = "verified" /\ mig'[m].stage = mig[m].stage
        /\ mig'[m].deep = mig[m].deep
    BY <1>5, VerifyGoes DEF Advances
  <2>6. MigWhole(m)'
    BY <2>3, <2>4, <2>5 DEF MigWhole, Whole, Sound
  <2>7. QED
    BY <2>1, <2>6, QuietMoveWhole
<1>6. CASE Place(m)
  <2>1. mig[m].phase = "verified" /\ mig[m].target # pointer
    BY <1>6, PlacedIs DEF Place, Early
  <2>2. /\ UNCHANGED <<pointer, writer>> /\ disk'[mig[m].target] = mig[m].stage
        /\ disk'[pointer] = disk[pointer]
    BY <1>0, <1>6, <2>1 DEF Place, otherVars, HomeTypeOK
  <2>3. /\ mig'[m].phase = "placed" /\ mig'[m].deep = mig[m].deep
        /\ mig'[m].target = mig[m].target
    BY <1>6, PlaceGoes DEF Advances
  <2>4. Whole(mig[m].stage) /\ (mig[m].deep => Sound(mig[m].stage))
    BY <2>1 DEF WholeInv, MigWhole
  <2>5. MigWhole(m)'
    BY <2>2, <2>3, <2>4 DEF MigWhole
  <2>6. \A n \in Migrators : MigWhole(n)'
    BY <1>1, <1>2, <2>1, <2>5 DEF Holding
  <2>7. QED
    BY <1>0, <2>2, <2>6 DEF WholeInv
<1>7. CASE Switch(m)
  <2>1. /\ mig[m].phase = "placed" /\ pointer' = mig[m].target /\ UNCHANGED <<disk, writer>>
        /\ mig'[m].phase = "switched"
    BY <1>7, SwitchGoes DEF Switch, otherVars, Advances
  <2>2. /\ Whole(disk[mig[m].target])
        /\ mig[m].deep => Sound(disk[mig[m].target])
    BY <2>1 DEF WholeInv, MigWhole
  <2>3. /\ disk[mig[m].target] # Absent
        /\ \A w \in Writers : writer[w].home # mig[m].target
    BY <2>1 DEF KeptInv, MigKept
  <2>4. cleanup.phase # "checked"
    BY <1>7 DEF Switch, SameObjects
  <2>5. "shallow" \notin marred' => Sound(disk[mig[m].target])
    BY <1>7, <2>2, <2>3 DEF Switch, At, Sound
  <2>6. \A n \in Migrators : MigWhole(n)'
    BY <1>1, <1>2, <2>1 DEF Holding
  <2>7. QED
    BY <1>0, <2>1, <2>2, <2>3, <2>4, <2>5, <2>6 DEF WholeInv
<1>8. CASE RemoveSource(m)
  <2>1. mig[m].phase = "switched" /\ UNCHANGED pointer /\ mig'[m].phase = "removed"
    BY <1>8, RemoveSourceGoes DEF RemoveSource, Advances
  <2>2. mig[m].source # pointer
    BY <2>1 DEF MoveInv, Late
  <2>3. /\ disk'[pointer] = disk[pointer]
        /\ \A w \in Writers : writer'[w].home = pointer => writer[w].home = pointer
    <3>1. CASE Remove(mig[m].source)
      BY <1>0, <2>2, <3>1, HomeAssumption, RemoveIs
    <3>2. QED
      BY <1>8, <3>1 DEF RemoveSource
  <2>4. \A n \in Migrators : MigWhole(n)'
    BY <1>1, <1>2, <2>1 DEF Holding
  <2>5. QED
    BY <1>0, <2>1, <2>3, <2>4 DEF WholeInv
<1>9. QED
  BY <1>3, <1>4, <1>5, <1>6, <1>7, <1>8

LEMMA WholeStep ==
  ASSUME HomeTypeOK, PartsOK, OpenOK, MoveInv, CallsInv, KeptInv, WholeInv, SameObjects',
         [Next]_vars
  PROVE  WholeInv'
<1>0. marred \subseteq marred' /\ SameVault'
  BY MarredGrows DEF SameObjects, SameVault
<1>1. CASE (\E t \in Homes : QueueFromUi(t)) \/ UNCHANGED vars
  <2>1. UNCHANGED <<disk, pointer, mig, writer, cleanup, marred>>
    BY <1>1 DEF QueueFromUi, vars, otherVars
  <2>2. QED
    BY <2>1 DEF WholeInv, MigWhole
<1>2. QED
  BY <1>0, <1>1, MigrationWhole, SnapshotWhole, CleanupWhole, CopiesWhole DEF Next

-----------------------------------------------------------------------------
(* Archives.                                                               *)

LEMMA PackStep == PartsOK /\ PackInv /\ [Next]_vars => PackInv'
<1> SUFFICES ASSUME PartsOK, PackInv, [Next]_vars PROVE PackInv'
  OBVIOUS
<1>0. exporter \in ExportRecords
  BY DEF PartsOK
<1>1. CASE UNCHANGED exporter
  BY <1>1 DEF PackInv
<1>2. ASSUME NEW h \in Homes, Remove(h)
      PROVE  PackInv'
  BY <1>0, <1>2 DEF Remove, PackInv, ExportRecords
<1>3. ASSUME NEW m \in Migrators, Migration(m)
      PROVE  PackInv'
  <2>1. CASE RemoveSource(m)
    BY <1>1, <1>2, <2>1, MigrationIs DEF RemoveSource
  <2>2. CASE ~RemoveSource(m)
    BY <1>1, <1>3, <2>2 DEF Migration, MigrateStart, TakeLock, BeginCopy, EndCopy,
       BackupDatabase, Verify, Place, Switch, Report, Release, FailMigration, Die, copyVars
  <2>3. QED
    BY <2>1, <2>2
<1>4. CASE Export
  <2>1. ASSUME NEW deep \in BOOLEAN, ExportDb(deep)
        PROVE  PackInv'
    BY <2>1 DEF ExportDb, NoExport, PackInv
  <2>2. ASSUME NEW c \in Contents, ValidateObject(c)
        PROVE  PackInv'
    BY <1>0, <2>2 DEF ValidateObject, PackInv, ExportRecords
  <2>3. ASSUME NEW c \in Contents, PackObject(c)
        PROVE  PackInv'
    BY <1>0, <2>3 DEF PackObject, PackInv, ExportRecords
  <2>4. CASE PackDatabase
    BY <1>0, <2>4 DEF PackDatabase, PackInv, ExportRecords
  <2>5. CASE ExportDone \/ ExportFail
    BY <2>5 DEF ExportDone, ExportFail, NoExport, PackInv
  <2>6. QED
    BY <1>4, <2>1, <2>2, <2>3, <2>4, <2>5 DEF Export
<1>5. CASE Import
  <2>1. CASE ImportClear
    BY <1>2, <2>1 DEF ImportClear, PartsOK
  <2>2. QED
    BY <1>1, <1>5, <2>1 DEF Import, ImportStart, ImportPlace, ImportFail
<1>6. QED
  BY <1>1, <1>3, <1>4, <1>5 DEF Next, Snapshot, Open, Store, Commit, Cleanup, CleanRow,
     CleanCheck, CleanObject, QueueFromUi, vars, copyVars

LEMMA ArchiveStep == PackInv /\ ArchiveRestores /\ [Next]_vars => ArchiveRestores'
<1> SUFFICES ASSUME PackInv, ArchiveRestores, [Next]_vars PROVE ArchiveRestores'
  OBVIOUS
<1>1. CASE UNCHANGED <<archive, importer>>
  BY <1>1 DEF ArchiveRestores
<1>2. ASSUME NEW m \in Migrators, Migration(m)
      PROVE  UNCHANGED <<archive, importer>>
  BY <1>2 DEF Migration, MigrateStart, TakeLock, BeginCopy, EndCopy, BackupDatabase,
     Verify, Place, Switch, RemoveSource, Report, Release, FailMigration, Die, copyVars
<1>3. CASE ExportDone
  <2>1. UNCHANGED importer
    BY <1>3 DEF ExportDone, exportOnly
  <2>2. exporter.db \subseteq exporter.packed
    BY <1>3 DEF ExportDone, PackInv
  <2>3. archive'.db = exporter.db /\ archive'.objects = exporter.packed
    BY <1>3 DEF ExportDone
  <2>4. QED
    BY <2>1, <2>2, <2>3 DEF ArchiveRestores
<1>4. ASSUME NEW t \in Homes, NEW overwrite \in BOOLEAN, NEW skip \in BOOLEAN,
             ImportStart(t, overwrite, skip)
      PROVE  ArchiveRestores'
  <2>1. importer'.temp = archive /\ archive' = archive /\ archive # Absent
    BY <1>4 DEF ImportStart
  <2>2. QED
    BY <2>1 DEF ArchiveRestores
<1>5. CASE ImportPlace \/ ImportFail
  <2>1. importer'.temp = Absent /\ UNCHANGED archive
    BY <1>5 DEF ImportPlace, ImportFail, NoImport
  <2>2. QED
    BY <2>1 DEF ArchiveRestores
<1>6. CASE ImportClear
  <2>1. importer'.temp = importer.temp /\ UNCHANGED archive
    BY <1>6 DEF ImportClear
  <2>2. QED
    BY <2>1 DEF ArchiveRestores
<1>7. QED
  BY <1>1, <1>2, <1>3, <1>4, <1>5, <1>6 DEF Next, Snapshot, Open, Store, Commit, Cleanup,
     CleanRow, CleanCheck, CleanObject, Export, ExportDb, ValidateObject, PackDatabase,
     PackObject, ExportFail, exportOnly, Import, QueueFromUi, vars, copyVars

-----------------------------------------------------------------------------
LEMMA InitHome == Init => HomeInv
<1> SUFFICES ASSUME Init PROVE HomeInv
  OBVIOUS
<1>1. HomeTypeOK /\ PartsOK
  BY InitParts
<1>2. \A m \in Migrators : mig[m].phase = "idle"
  BY DEF Init, NoMigration
<1>3. \A w \in Writers : writer[w].phase = "idle" /\ writer[w].home = Absent
  BY DEF Init, NoSnapshot
<1>4. /\ pointer = First /\ disk[First] = [db |-> Initial, objects |-> Initial, bad |-> {}]
      /\ saved = Initial
  BY HomeAssumption DEF Init
<1>5. cleanup.phase = "idle" /\ importer.phase = "idle" /\ importer.temp = Absent
      /\ archive = Absent /\ state.status = "none"
  BY DEF Init, NoCleanup, NoImport
<1>6. disk[First] \in Vaults /\ First \notin {Absent}
  BY <1>4, HomeAssumption DEF Vaults
<1>7. disk[First] # Absent
  BY <1>6, HomeAssumption
<1>8. OpenOK
  BY <1>3 DEF OpenOK
<1>9. MoveInv
  BY <1>2, <1>5 DEF MoveInv, StateIsTrue, Moving, Early, Late
<1>10. CallsInv
  BY <1>2, <1>5 DEF CallsInv, Migrating
<1>11. KeptInv
  BY <1>2, <1>3, <1>4, <1>5, <1>7 DEF KeptInv, SnapKept, MigKept, Early
<1>12. WholeInv
  BY <1>2, <1>3, <1>4, <1>5 DEF WholeInv, MigWhole, Whole, Sound
<1>13. ArchiveRestores /\ PackInv
  BY <1>5 DEF ArchiveRestores, PackInv, Init, NoExport
<1>14. QED
  BY <1>1, <1>8, <1>9, <1>10, <1>11, <1>12, <1>13 DEF HomeInv

LEMMA HomeStep == HomeInv /\ [Next]_vars => HomeInv'
<1> SUFFICES ASSUME HomeInv, [Next]_vars PROVE HomeInv'
  OBVIOUS
<1>1. /\ HomeTypeOK /\ PartsOK /\ OpenOK /\ MoveInv /\ CallsInv
      /\ PackInv /\ ArchiveRestores
  BY DEF HomeInv
<1>2. /\ HomeTypeOK' /\ PartsOK' /\ OpenOK' /\ MoveInv' /\ CallsInv'
      /\ PackInv' /\ ArchiveRestores'
  BY <1>1, TypeStep, OpenStep, MoveStep, CallsStep, PackStep, ArchiveStep
<1>3. marred \subseteq marred'
  BY MarredGrows
<1>4. ASSUME SameVault' PROVE KeptInv /\ KeptInv'
  <2>1. KeptInv
    BY <1>3, <1>4 DEF SameVault, HomeInv
  <2>2. QED
    BY <1>1, <1>4, <2>1, KeptStep
<1>5. ASSUME SameObjects' PROVE WholeInv'
  <2>1. SameVault' /\ SameObjects
    BY <1>3, <1>5 DEF SameVault, SameObjects
  <2>2. KeptInv /\ WholeInv
    BY <1>4, <2>1 DEF HomeInv
  <2>3. QED
    BY <1>1, <1>5, <2>2, WholeStep
<1>6. QED
  BY <1>2, <1>4, <1>5 DEF HomeInv

\* The inductive invariant.
THEOREM HomeInvariant == Spec => []HomeInv
  BY InitHome, HomeStep, PTL DEF Spec

\* Types, and the lock: one migrator at most is at work, the lock is there while it is
\* and at no other time, unless one has died or its unlink failed.
THEOREM OneMigrator == Spec => []HomeTypeOK
<1>1. HomeInv => HomeTypeOK
  BY DEF HomeInv
<1>2. QED
  BY HomeInvariant, <1>1, PTL

\* migrate_storage beside snapshots, cleanups, imports and crashes: every version
\* of the vault in use has its object, for any number of moves.
THEOREM MovedWhole == Spec => []ActiveComplete
<1>1. HomeInv => ActiveComplete
  <2> SUFFICES ASSUME HomeInv, SameObjects PROVE
        /\ disk[pointer] # Absent
        /\ disk[pointer].db \subseteq disk[pointer].objects
        /\ "shallow" \notin marred => disk[pointer].db \cap disk[pointer].bad = {}
    BY DEF ActiveComplete, SameObjects
  <2>1. SameVault
    BY DEF SameObjects, SameVault
  <2>2. KeptInv /\ WholeInv
    BY <2>1 DEF HomeInv
  <2>3. QED
    BY <2>2 DEF KeptInv, WholeInv, Whole, Sound
<1>2. QED
  BY HomeInvariant, <1>1, PTL

\* What was committed beside no copying migration is in the vault in use after any
\* number of moves, failures and deaths.
THEOREM SavedStays == Spec => []SavedIsKept
<1>1. HomeInv => SavedIsKept
  BY DEF HomeInv, KeptInv, SavedIsKept, SameVault, At
<1>2. QED
  BY HomeInvariant, <1>1, PTL

\* read_migration_state: the state file says complete of the home in use only, and
\* running only while a migrator is.
THEOREM StateTold == Spec => []StateIsTrue
<1>1. HomeInv => StateIsTrue
  BY DEF HomeInv, MoveInv
<1>2. QED
  BY HomeInvariant, <1>1, PTL

\* export_vault: though the home may be moved or cleaned between the dump of the
\* database, the validation of each object and its packing, a finished archive has an
\* object for every version.
THEOREM ArchivesRestore == Spec => []ArchiveRestores
<1>1. HomeInv => ArchiveRestores
  BY DEF HomeInv
<1>2. QED
  BY HomeInvariant, <1>1, PTL
=============================================================================
