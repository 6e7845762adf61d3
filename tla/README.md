# SafeVault in TLA+

SafeVault keeps the history of folders a user protects: it takes snapshots into a
content-addressed object store with a SQLite index, watches the folders from a
daemon, removes old versions under a retention policy, runs commands on copies of a
folder and brings their changes back, restores versions, and moves, exports and
backs up its own data. This directory holds
TLA+ models of the parts where its guarantees are decided, TLC instances that
check them, and proofs for every value of the constants.

All paths below are relative to the repository; the program is
`src/safevault/*.py`.

## 1. Inventory

| Component | State | Operations | Hard behaviour | Must hold | Module |
|---|---|---|---|---|---|
| Snapshot engine (`snapshot.py`) | open transaction, set of seen paths | `create_snapshot`, `capture_entry_stable` | the folder changes while it is walked; exceptions half way commit a failed snapshot; crash | no mixture of two contents is recorded; a complete snapshot agrees with a folder nobody touched; rows agree with versions | `Vault` |
| Object store (`object_store.py`, `hashing.py`) | object files by hash | `store_file`, `remove_object` | stored before the row that needs it is committed, found in place by others | every version has its object | `Vault`, `Prune` |
| Database (`db.py`) | `roots`, `files`, `versions`, `snapshots` with restore points, audit rows | inserts and updates in transactions | one writer at a time, 5 s busy timeout, row ids given out again | ids keep their meaning | `Vault` |
| Retention plan (`retention.py`) | none | which versions and snapshots may go | ids, cutoffs, protection by restore points | last content, markers and important points stay | `Vault` |
| Retention cleanup (`retention_cleanup.py`) | hashes to reclaim between two transactions; schedule and status in the configuration | `apply_retention_cleanup`, `run_due_retention_cleanup` | snapshots between the transactions; crash or busy lock | never removes an object in use | `Vault` |
| Prune (`prune.py`) | referenced hashes, listing | `prune_unreferenced_objects` | takes no lock | same | `Prune` |
| Watcher (`watcher.py`) | pending flag, debounce timer, windows of recent events | `note_event`, `flush`, `enable_auto_flush` | observer thread, timer threads and main thread; busy database | no change of a watched folder is forgotten | `Watcher` |
| Daemon loop (`daemon.py`, `processes.py`) | watched folders, heartbeat row, lock file, stop file | startup scan, policy refresh, scheduled tasks, start and stop | start and stop requests race; stale locks; database errors end it | one daemon at a time; a stop request is honoured | `Watcher` (loop), `Daemon` (lifecycle) |
| Protection policies (`protection.py`, `safety.py`) | policy rows | add, pause, resume, remove | while the daemon runs | a paused folder is left alone, a resumed one is scanned | `Watcher` (their effect) |
| Sandbox (`sandbox.py`, `diffing.py`, `safety.py`), AI sessions (`ai_changes.py`) | a copy of the folder, `diff.json`, placeholder map, rows | create, command, diff, check, apply, clean | the user edits folder and copy meanwhile; a file changes between check and overwrite; one of several writes fails | nothing is overwritten that cannot be restored; only what was reviewed is applied; the status is true | `Writeback` |
| Restore (`restore.py`) | none | `restore_file` into the folder or outside | the snapshot of the destination may skip it | same | `Writeback` |
| Storage migration (`storage.py`) | location file, migration lock and state, two homes | copy, back up, verify, place, switch, remove | crash between any two steps; snapshots and cleanups go on | one complete copy is always in use, nothing saved is missing | `Home` |
| Export and import (`exporter.py`, `importer.py`) | archive | dump and pack; check, clear, place | a cleanup or a switch between dump, validation and packing; a death after the clearing | an archive restores | `Home` |
| Backup (`backup.py`) | job rows, archives in a target folder | run, rotate, due times, retry | failures, a daemon that ends and is started again, change of target, two at once | the archive the status names survives; retries wait | `Upkeep` |
| Configuration (`config.py`, `atomic.py`) | one TOML file, replaced whole | load, edit, save | read-modify-write from CLI, UI and daemon; files of older versions | a saved setting is not undone | `Upkeep` |
| Web UI (`ui/`) | session file and tokens | services | several requests at once | – | its services that change state: `Upkeep`, `Home`, `Writeback`, `Daemon` |
| CLI, tray, startup, verify, doctor, recent, paths, filters | none of their own, or read only | delegate or report | none of their own | – | not modelled |

Interactions. The CLI, the web UI, the tray and the daemon are processes that
share the database, the object store, the folders and the configuration file, and
know of each other only through files and SQLite's lock. A home is looked up anew by every call, through the location file, so whatever is
under way when a migration switches may use both homes. Nothing that writes into the
user's folder takes a lock: sandbox, restore and user meet there. Inside the daemon, the
observer's thread calls the handler, timers call `create_snapshot`, and the main
loop calls it too; all contend for the writer lock. A snapshot takes that lock
with its first INSERT and keeps it to its end, so for as long as a large folder is
walked everybody else's writes run into the busy timeout.

The hazards that follow from this are in `PROJECT.json`, each at its line and with
the property that would catch it.

## 2. Plan

1. `Vault` with `History` and `Prune`: what is promised of versions. *Done.*
2. `VaultProofs`, `HistoryProofs`, `RetentionProofs`: types, locking,
   recoverability, the refinement, the retention invariants, what a snapshot captures,
   and `Prune`. *Done.*
3. `Watcher`: from a change to a snapshot. *Done.*
4. `Daemon`: lock file, pid, heartbeat, stop file, requests to stop. *Done.*
5. `Writeback`: everything that writes into the user's folder. *Done.*
6. `Home`: two homes and a pointer, export and import, a crash after every step. *Done.*
7. `Upkeep`: configuration, schedule, backups, rotation, daily cleanup. *Done.*
8. `DaemonProofs`, `WatcherProofs`, `HomeProofs`, `WritebackProofs`, `UpkeepProofs`: every
   invariant and action property of the runs. *Done.*
9. Left: hold what a proof shows to be the reason of a property (the inductive
   invariants of section 5) against the code again whenever one of these files changes;
   states of those invariants that no bound of section 4 reaches are the place to look.

## 3. Modules

### History
The abstract specification: one variable, the set of versions a restore can bring
back. `Record` adds versions numbered above all others, `Forget` takes only content
that is superseded; never a file's newest content and never a deletion marker.

### Vault
One protected folder and everything that moves its content.

| In the model | In the code |
|---|---|
| `tree`, `stamp` | the folder; the size and mtime `lstat` reports |
| `objects` | object files in place |
| `db` | committed rows of `files`, `versions`, `snapshots` (with `restore_points`) |
| `txn`, `writer` | the connection with an open write transaction, and SQLite's writer lock |
| `phase`, `walk`, `capture` | where `create_snapshot` is, `seen`, and the locals of `capture_entry_stable` |
| `cleaner`, `garbage` | `apply_retention_cleanup` between and inside its two transactions |
| `noted`, `events` | `record_deleted_marker` between its SELECT and its INSERT |

`BeginSnapshot` is the first INSERT. Each entry is skipped (vanished, in a directory
that cannot be listed, unreadable, unmodified) or captured: `StatBefore`,
`StoreObject`, then `CaptureStable`, `CaptureAgain` or a failure. `MarkMissing` and
`CommitSnapshot` end it; `FailSnapshot` is the `except` clause, which commits what was
recorded so far; `CrashSnapshot` is a process that dies. `ApplyPlan` is the first
cleanup transaction with `_build_retention_plan`, `LockAndRecheck`, `Unlink` and
`FinishCleanup` the second, `AbandonCleanup` a crash or a busy lock. `FindActiveRow`,
`WriteMarker`, `RetryMarker` and `LeaveToSnapshot` are the watcher's deletion marker.

Abstractions:
- A content stands for its hash; collisions are left out. Files are compared only
  for equality, so directories appear only as the reason an entry is not listed.
- A write gives a size and mtime the file has not had. The shortcut of
  `snapshot.py:322-332` cannot see a write that keeps both; that limit is the
  program's design and is assumed away.
- A cutoff is a position between version ids instead of a date, and `started` of a
  snapshot counts on the same clock.
- A symbolic link's payload is stored after the stability check, not before it; the
  model stores before, which only makes more orphans.
- Both the daemon's first try and its retry of a marker are `FindActiveRow`; the number
  of retries is not counted.
- The plan protects the two snapshots of an AI session as well as those of important restore
  points (`retention.py:61-68`). Their reasons, `before-ai-change` and `after-ai-change`
  (`sandbox.py:160,325,449`), make each an important point in its own transaction
  (`snapshot.py:459-463`), so the second protection takes nothing more out of a plan, and
  `CandidateVersions` has the first only. Audit rows are left out: no property reads them.

### Prune
Extends `Vault` with `prune_unreferenced_objects`: query, listing and unlinks are separate
steps, beside every step of the vault. `overlapped` remembers that a snapshot was being
written in between. `PruneTypeOK` also says what each phase holds: what is to be unlinked
is never among what the query returned.

### Watcher
Changes of one folder are numbered; a snapshot holds every change made before it
began (how it does so is `Vault`'s subject). The observer's thread takes events from
watchdog's queue (`NoteEvent`, `NoteDone`), timers fire and flush (`TimerFires`,
`TakePending`, `BeginFlush`, `EndFlush`, `FlushFails`), and the main thread starts, scans,
enables auto-flush, runs scheduled snapshots and follows the policies (`Start` to
`EndAdd`). `MoveFails`, `WarningFails` and `BusyStop` are database errors that leave a
callback or the loop; `Stop` is a stop request or a kill, and `Start` the next run.

Abstractions: what kind of change an event reports, and so the alarms about mass
changes, only choose the reason of a snapshot. A new event restarts the debounce
timer; that a folder which never rests postpones its flush is not modelled, because
events are bounded here. The scheduled backup, cleanup and verification write to the
database as `OtherWrites` does. A timer of a handler that was taken away may flush once
more in the code; the model leaves that snapshot out.

### Daemon
| In the model | In the code |
|---|---|
| `daemon` | where a process is in `run_daemon` and `DaemonLock` |
| `requester` | where a process is in `request_daemon_stop`, or in the wait of `_ensure_daemon_stopped` |
| `lock`, `stop` | `daemon.lock` with the process that created the file and the pid in it; `daemon.stop` |
| `row` | status and pid of `daemon_state` |
| `killed`, `denied`, `tangled` | history only |

Every file operation and every write of the row is a step, so any two processes may
meet between them. `FindNoLock` to `WritePid` is `DaemonLock.__enter__`, `Unlock` its
`__exit__`, `ClearStop` to `RemoveStop` the body of `run_daemon` with its `except` and
`finally` clauses. `FindNobody` to `SayStopped` and `FindDaemon` to `SayStopping` are the two
branches of `request_daemon_stop`; `Confirm` is the answer storage migration waits for.
`WritePidFails`, `StartFails`, `LoopFails`, `RecordStopFails`, the outcomes of `RecordError`,
`AskFails` and `Kill` are the errors.

Each unlink of the lock or the stop file is under `suppress(OSError)` in the code, so in the
model it may fail and leave the file (`UnlinkLock`, `UnlinkStop`): the daemon or the request
goes on as if it had not. `denied` remembers the daemons whose own unlink of the lock
failed. What follows is in the model: a denied `Unlock` leaves the lock of a daemon that
ended in good order, a denied `RemoveStaleLock` is refused by `O_EXCL` (`Refuse`), and a
denied `ClearStop` starts a daemon that stops at once.

`tangled` is set when a start is between its look at the lock file and the end of its
changes to it while another start, or a request that clears up, is there too. The
lock's guarantee holds without such an overlap and not with it (section 6).

Abstractions: `exists`, the read of the pid and the test whether the process lives are one
step, and so is `get_daemon_status`. A process runs the daemon once, so pids are not
reused. `test_once` and the notification about a stale heartbeat are left out.

### Writeback
| In the model | In the code |
|---|---|
| `proj`, `work` | the user's folder (and places outside it); the sandbox's copy |
| `history`, `fileKind` | the versions of a path, and `files.file_kind` of its last capture |
| `diff`, `mapped` | `diff.json`, `placeholder-map.json` |
| `status`, `session` | the rows of `sandboxes` and `ai_change_sessions` |
| `op` | per process, where it is in `create_sandbox`, `apply_sandbox` or `restore_file` |
| `cleaner` | where `sandbox-clean` is |
| `landed`, `stale`, `exposed`, `raced` | history only |

`StartSandbox` to `InsertSession` are `create_sandbox`: snapshot, copy, rows, command
(`WorkEdit` is what it does), comparison. `StartApply` loads the diff; for each entry,
`CheckEntry` hashes and decides, and a later step writes, links or unlinks, with the user
and other processes in between; `SnapshotAfterApply`, `CompleteSession` and `ReportApply`
end it, `FailApply` is the `except` clause. `StartRestore` to `AfterRestore` are
`restore_file`. `exposed` are the paths others changed since a call's own snapshot read
them, `raced` says that the path at hand changed between its check and its write.

Abstractions: a snapshot is one step that may miss files it cannot read (how it is taken is
`Vault`); a content and its hash are one value; a binary file is treated as a text; a
diff that was edited by hand is left out, and with it the path checks that only such a
diff can fail.

Where the system makes no links, `sandbox.py:65-68`, `sandbox.py:256-259` and
`restore.py:81-84` write the text of the link instead (`SandboxForm`, `Symlinked`). The model
takes that path at any link, as an event, and whenever somebody has put something at
the place between the unlink and the link. As in the code, such an entry counts as applied:
`ReviewedOnly` accepts the link or its text (`BroughtBack`), and nothing else. A text that
`restore.py:84` writes over a link put in the way goes where that link leads, which is
none of the modelled paths.

### Home
| In the model | In the code |
|---|---|
| `disk` | the homes: rows of the database, object files, corrupt ones among them |
| `pointer` | `.safevault-location` |
| `lock`, `state` | `.safevault-migration.lock`, `.safevault-migration.json` |
| `mig` | where a process is in `migrate_storage`, and its staging directory |
| `writer`, `cleanup` | a snapshot and a cleanup that are under way |
| `exporter`, `importer`, `archive` | `export_vault`, `import_vault` and the file |
| `saved`, `marred` | history only |

`QueueFromUi` and `MigrateStart` to `Release` are a migration in the order of
`storage.py`; `FailMigration` and `Die` are an exception and a death at any of its steps.
`Open`, `Store`, `Commit` keep the database they have opened and look up the home again
for each object, as the code does; so does the cleanup. `ImportClear` is the removal before
an overwriting import. `marred` names what the code does not guard against, each
described at `Marks`; an invariant that depends on one says so.

`FailMigration` is the `except` and the `finally` clause, and both may fail in turn: the
state file then keeps what it said (mark "state"), or the lock stays (mark "lock"), as it
does when the last unlink of a migration that succeeded is denied (`Release`). `Verified`
asks only for the objects that the source holds by then, as `storage.py:453-461` does; a
copy of an object that has gone meanwhile is not hashed. An object that is stored again
replaces a corrupt one.

An export is as many steps as it has objects: `ExportDb` dumps the database, `ValidateObject`
looks at one object, `PackDatabase` and `PackObject` write what is at each path by then, and
`ExportDone` puts the archive in place. Every object is looked up in the home in use at that
moment; one that is missing ends the export (`ExportFail`). So the archive's objects are what
was found, and that they cover its database is not given by its construction.

Abstractions: one version per content; the cleanup takes one content; free space, sizes,
the analysis and the stop of the daemon (module `Daemon`, `StoppedIsStopped`) are left out.

### Upkeep
| In the model | In the code |
|---|---|
| `config`, `user` | `config.toml`, and a call of CLI or UI between load and save |
| `roots` | protected folders, which a backup target must not lie in |
| `jobs`, `archives`, `run` | rows of `backup_jobs`, files in the targets, `run_backup` under way |
| `loop`, `alive` | a round of the daemon: backup if due, cleanup if due |
| `now` | the clock |
| `chosen`, `torn`, `deleted`, `made`, `spoilt`, `cleaned` | history only |

`LoadEdit` and `SaveEdit` are any change of a setting; `LoadRecord` and `SaveRecord` the
same for the cleanup's status. `NextDue` and `Blocked` are the
arithmetic of `backup.py` on ticks: a day has `Day` of them, the backup is due at `DueAt`,
a retry waits `Retry`. `FromDict` reads a file of an older version.

Abstractions: sub-day times are few ticks; an archive is the number of its job; what is in
it is `Home`'s; which history a cleanup deletes is `Vault`'s.

## 4. Runs

| Run | Instance | Question | Outcome |
|---|---|---|---|
| `vault` | 2 files, 2 contents, 1 cleaner, 1 observer, 3 edits, 4 versions, 3 snapshots, 2 attempts; 1.6 M states | are the invariants, the action properties and the refinement of `History` kept in every interleaving? | yes |
| `vault_restore_point` | 1 file | does cleanup keep all content of an important restore point? | no |
| `vault_unreadable_dir` | 1 file | does a file that is there stay active when it cannot be listed? | no |
| `prune_alone` | 1 file, 2 contents; 1.4 M states | is prune safe while no snapshot is written? | yes |
| `prune_race` | same | is prune safe beside a snapshot? | no |
| `watcher` | 2 timer threads, 2 changes; 141 k states | is every change on its way to a snapshot, and does it arrive? | yes |
| `watcher_observer` | same | does the observer survive a busy database? | no |
| `daemon` | 2 daemons, 1 requester; 71 k states | without overlapping starts, is there one daemon, can its status be trusted, is a stop file heard? Who leaves a lock behind, and can it always be started again? | yes |
| `writeback` | 2 files, 1 place outside, 2 texts, 2 links (1 leads out), 1 sandbox, 1 apply process, 1 restore process, 3 events; 2.4 M states | is what is overwritten restorable, what is applied reviewed, and what is reported true? | yes |
| `writeback_stale` | same | is what the user edits while the command runs safe from an apply? | no |
| `home` | 3 homes, 2 contents, 2 migrators, 1 writer, 2 migrations, 2 calls, 1 fault; 3.7 M states | is the home in use complete, is everything saved in it, is the state file true, does an archive restore? | yes |
| `upkeep` | 1 user and the daemon, 2 targets, 1 folder, 9 calls to choose from, 3 calls, 3 jobs, 8 ticks of 3 a day; 685 k states | do settings stay, does the named archive stay, do retries wait, do cleanups come once a day? | yes |

Why the bounds are enough. Two contents and three edits give a file that is written,
changed and changed back while a capture reads it; four versions and three snapshots
give a superseded version, a newer one, a marker, and a cleanup between two of them; two
files separate what a step does to one from what it must leave alone. Two attempts
are a retry and a last one. In `Prune` one file suffices, since sharing between contents
is what matters. In `Watcher` two timers let a flush begin while another runs, and two
changes put one before and one after the begin of a snapshot. In
`Daemon` two runs are one and the next, or one and its rival, and the requester, which
may ask again and again, is late in one run with what it found in another; the theorems are
for any number of both. In `Writeback` three events are an edit of the copy, the
apply and an edit, restore or death that meets it; the second file can hold a link that
leads out and may be unreadable. In `Home` three homes are a move and the next one, two
migrators one that waits for the other's lock, one fault hits any step, and
two calls are an export and what comes in the middle of it, or its archive's import. In `Upkeep`
eight ticks are three days, a retry interval of two ticks ends between two due times,
and three jobs with one archive kept are a success, a failure and a rotation. Bounds on edits and ids are
guards of `Edit`, `Remove` and of what takes an id; a snapshot that cannot get an id fails
or crashes, so nothing deadlocks.

The five violated properties are findings; `PROJECT.json` quotes the line of the
repository that each contradicts:
- `prune.py` unlinks without the writer lock and can take an object that a snapshot in
  progress is about to reference.
- Retention protects versions *recorded by* an important restore point, while the user
  guide promises the point: content recorded earlier and current at the point goes.
- A directory that cannot be listed makes its files look deleted.
- Moves and warnings are written to the database from the observer's thread without
  the guard that deletions have; a busy database ends the thread.
- A sandbox's diff compares the copy with the folder as it is after the command: what the
  user edited meanwhile counts as the old content, and an apply puts back what was copied.

The properties, in words:
- `Recoverable`: every committed version has its object.
- `CurrentContentKept`: the row of a tracked file stands on a version that exists and is
  the file's newest content.
- `StatusMatchesHistory`: a row is deleted exactly when the last version is a marker.
- `SnapshotsKept`, `RestorePointKept`, `IdsNotReused`: what cleanup must leave.
- `NoTornVersion`: a version holds something its file held at one moment.
- `ShortcutSound`: an equal stamp on an active row means equal content.
- `CompleteSnapshotMatchesTree`: a snapshot that completes while the folder rested leaves
  rows that agree with it, but for entries it could not read.
- `HistorySpec`: the refinement.
- `AloneIsSafe`: prune with no overlapping snapshot keeps `Recoverable`.
- `NoChangeForgotten`: a change of a watched folder is queued, flagged, in a snapshot under
  way, saved, or its flush failed.
- `PendingIsFlushed`: a set flag always has a timer, or somebody about to start one.
- `EveryChangeSaved` (liveness): every change ends up in a snapshot while the daemon runs and
  the folder is watched; without scheduled snapshots, unless its flush failed or the
  observer died.
- `OneAtATime`: without overlap, one daemon is past its lock, and the lock file is its own.
- `LockLetGo`: a lock with a pid whose daemon is gone was left by a kill, or by an unlink of
  its own that was denied, and by nothing else that failed.
- `StartsAfterAnyEnding` (liveness): a lock file left behind, by a kill or a denied unlink
  of the daemon before, never keeps a lone starter out that may remove it.
- `WorkingIsReported`, `StoppedIsStopped`, `ErrorStays`: what the reported status says is so,
  for a caller that starts a daemon, for storage migration, and for the user.
- `StopIsHeard` (liveness): a daemon in its loop leaves it once there is a stop file.
- `CopyBeforeOverwrite`: an apply or a restore writes over nothing but recorded content, or
  what changed or could not be read after its own snapshot.
- `ReviewedOnly`: an apply turns a file from what the diff says it was into what the diff
  says it shall be, or the text of that link, unless it changed between this check and
  this write.
- `AppliedIsWhole`, `ResultRecorded`: a sandbox or session that says "applied" had every
  entry brought back, and what was written is in the history.
- `ActiveComplete`, `SavedIsKept`: the home in use has an object for every version, and has
  whatever was committed beside no migration, after any moves, failures and deaths.
- `StateIsTrue`: the migration's state file says complete only of the home in use, and
  running only while one is, unless one died, was refused or could not write the file.
- `ArchiveRestores`: an archive, and what an import extracts, has an object for every
  version it lists.
- `SettingsKept`: each setting is as the user saved it last, but for overlapping saves.
- `NamedArchiveKept`: the archive that the backup status names is in its place.
- `NoEarlyRetry`, `CleanupAtMostDaily`: the daemon, restarted or not, keeps the intervals.

Fairness, in `Watcher`: threads that can go on do (the operating system's
scheduler), a timer that was started fires (`threading.Timer`), the holder of the writer
lock ends its transaction, a waiter either gets the lock or its busy timeout passes
(`db.py:18-26`), and while the loop runs a scheduled snapshot comes due. In `Daemon`: a daemon
process that is alive goes on to its next step. Nothing is assumed of users, requests, policies, failures or restarts.

## 5. Proofs

Every invariant and every action property that a passing run checks is a theorem of its
specification, and so is the refinement of `History`. The theorems hold for every value of
the constants under the named assumptions of the modules:

- `Vault`: `None` is neither file nor content, the names of processes differ, bounds are
  naturals. `Prune` adds none.
- `Daemon`: `None` is neither a process nor a lock file's content (`NoneIsNobody`).
- `Watcher`: the timer threads are none of the other threads (`FlushersAreThreads`), the bound on
  changes is a natural.
- `Writeback`: links are contents, those that lead out are links, the value for an absent file
  is no content, `None` is no path, content or diff, paths in, ignored and outside the folder
  are disjoint, names of processes differ (`WritebackAssumption`).
- `Home`: `Absent` is no home, content or vault, the first home is a home with some contents,
  bounds are naturals (`HomeAssumption`).
- `Upkeep`: the daemon is no user, a day has ticks, the backup is due within a day, a retry
  waits at most a day, at least one archive is kept, `Never` is no time or target, and the
  first configuration, which has seen no cleanup, and the calls are of their types
  (`UpkeepAssumption`).

The assumptions on `None`, `Absent` and `Never` say no more than that a missing value
can be told from one that is there, which Python's `None` and a missing file provide.

| Theorem | Module | Says |
|---|---|---|
| `TypeAndLock`, `TypeCorrect` | `VaultProofs` | types; the lock's holder, the phases and the uncommitted image agree |
| `VersionsAreRecoverable` | `VaultProofs` | `[]Recoverable` |
| `NothingIsTorn`, `ShortcutIsSound` | `VaultProofs` | `[]NoTornVersion`, `[]ShortcutSound` |
| `VaultImplementsHistory` | `HistoryProofs` | `Spec => HistorySpec` |
| `ContentKept`, `DeletionsAreMarked`, `VersionsKeepTheirSnapshots` | `RetentionProofs` | `[]CurrentContentKept`, `[]StatusMatchesHistory`, `[]SnapshotsKept` |
| `RestorePointsStay`, `IdsStay`, `CompleteIsTrue` | `RetentionProofs` | `RestorePointKept`, `IdsNotReused`, `CompleteSnapshotMatchesTree` |
| `PruneTypeCorrect`, `PruneAloneIsSafe` | `RetentionProofs` | `PruneSpec => []PruneTypeOK`, `PruneSpec => []AloneIsSafe` |
| `TypeCorrect`, `OneDaemonAtATime`, `LocksAreLetGo`, `WorkIsReported` | `DaemonProofs` | `[]TypeOK`, `[]OneAtATime`, `[]LockLetGo`, `[]WorkingIsReported` |
| `ConfirmedIsStopped`, `ErrorsStay` | `DaemonProofs` | `StoppedIsStopped`, `ErrorStays` |
| `TypeCorrect`, `ChangesAreOnTheirWay`, `FlagIsTaken` | `WatcherProofs` | `[]TypeOK`, `[]NoChangeForgotten`, `[]PendingIsFlushed` |
| `OneMigrator`, `MovedWhole`, `SavedStays` | `HomeProofs` | `[]HomeTypeOK`, `[]ActiveComplete`, `[]SavedIsKept` |
| `StateTold`, `ArchivesRestore` | `HomeProofs` | `[]StateIsTrue`, `[]ArchiveRestores` |
| `TypeCorrect`, `ReportsAreWhole`, `ResultsAreRecorded` | `WritebackProofs` | `[]WbTypeOK`, `[]AppliedIsWhole`, `[]ResultRecorded` |
| `OverwrittenIsKept`, `ReviewedIsBroughtBack` | `WritebackProofs` | `CopyBeforeOverwrite`, `ReviewedOnly` |
| `TypeCorrect`, `SettingsAreKept`, `NamedArchiveIsKept` | `UpkeepProofs` | `[]UpkeepTypeOK`, `[]SettingsKept`, `[]NamedArchiveKept` |
| `NoRetryTooEarly`, `CleanupsAreDaily` | `UpkeepProofs` | `NoEarlyRetry`, `CleanupAtMostDaily` |

`DaemonInvariant`, `WatcherInvariant`, `HomeInvariant`, `WritebackInvariant`,
`UpkeepInvariant`, `RetentionInvariant`, `CaptureInvariant` and `PruneInvariant` are the
inductive invariants the others follow from. In each of these proofs the step
lemmas come first (what an action leaves alone, what a process's step leaves of
the calls of the others), then one lemma for each group of actions, then the theorem.

The argument, vault.
- `TypeInv` adds to the types what a phase says of the walk and the capture (a file being
  captured is a file). `LockInv` says that the snapshot holds the lock exactly when it has
  a phase, a cleaner exactly when it unlinks, and that without a snapshot the two images
  of the database are equal. They are proved together, because a commit is well typed
  only since its image is the snapshot's own.
- `Recoverable` alone is not inductive: a commit publishes rows it says nothing of, and an
  unlink may take any object. `RecoveryInv` adds that the *uncommitted* versions have their
  objects, that a capture that has read has stored, and that what a cleaner unlinks under
  the lock is not referenced. The last conjunct is what the re-check of
  `retention_cleanup.py:199-213` establishes and the lock preserves.
- The refinement needs `TxnInv`: the open image only adds versions above the committed
  ones. Every step then records or forgets (`VersionsStep`), and `Recoverable` makes the
  restorable versions equal to the table.
- `RetentionInv` holds of both images the conjunction `ImageOK`: versions have snapshots,
  versions and snapshots have a highest row, versions are numbered in the order of their
  snapshots, rows stand on their newest content and markers match. Each operator on images
  (append, finish, prune) has a lemma that keeps it. That the highest row exists is part of
  the invariant, since it cannot be had from the bound without induction; it is what
  makes ids safe: the highest version is a marker or its file's newest content, and the
  highest snapshot with versions has that version.
- `CaptureInv` relates stamps and contents. No row has a stamp from the future, and an
  active row with the file's stamp has the file's content (`RowsTrue`, of both images);
  what a capture has read is the content if the stamp is still the one of its first
  `lstat` (`CaptureTrue`), which is why the second `lstat` is enough; and in a folder
  nobody has touched, the entries the walk is done with are seen exactly when they are there, with
  their rows up to date (`WalkTrue`). The markers of the watcher keep it since a
  deleted row is not active.
- `PruneInv`: while nothing overlaps, what prune has read still covers every version, and
  what it unlinks is in none. It rests on `HashesOnlyGo`: without a snapshot no step refers
  to content that was not referred to; so cleanups and markers beside prune are harmless,
  and a snapshot is the one thing that is not, which is the finding of `prune_race`.

The argument, the other components.
- `DaemonInv`: what is known of the lock file whatever overlaps (`LockInv`: it is empty or has
  its maker's pid, and outlives a maker only that was killed or denied the unlink), and, while nothing is
  tangled, that a start is alone between its look and its last change (`EntryInv`) and
  that whoever is past the lock owns file and row (`OwnerInv`): the lock of a living daemon
  then has its pid, so no start and no request takes it for stale.
- `WatcherInv`: `NoChangeForgotten` is not inductive, for a flag says nothing of *which*
  changes it stands for. `OnItsWay` counts the flag only for changes that had been noted,
  and a flush only for those of its batch; then a failing flush gives up no more than
  `lost` says. The order in which `flush` takes the flag and then begins, and the scan
  after the registration, are what the proof rests on.
- `HomeInv`: for each phase of a migrator, what its stage and its target hold
  (`MigKept`, `MigWhole`): before the switch the pointer is the source, once the database is copied
  the stage has all that is saved, and once it is verified all that it lists. `SavedIsKept`
  and `ActiveComplete` are kept under different sets of marks, so their parts are apart
  (`KeptInv`, `WholeInv`). `OpenOK`, `CallsInv` and `MoveInv` hold without any exception. `PackInv` follows an export: what has been packed and
  what is still to do make up the dump, whatever the home does meanwhile, which is why
  `PackObject` must find each object again; `ArchiveRestores` is its end.
- `WritebackInv`: per process, what its place in `apply_sandbox` or `restore_file` implies. An
  apply that skipped nothing has brought back each entry that it does not still have to
  do (`Whole`); what it has neither written nor seen change is restorable (`Saved`, from its
  snapshot before); what it has checked still holds unless it was raced (`Reviewed`). Steps
  of others are dealt with once, by `Undisturbed`.
- `UpkeepInv`: a save under way is the edit of what was loaded (`EditOK`, `RoundOK`); a backup
  under way is the newest row, jobs end and archives are made in the same order, and the
  last success, or the one before while the last still rotates, is in place (`OrderOK`);
  `RetryOK` carries the daemon's decision to the step that acts on it.

`TypeInv`, `LockInv`, `RecoveryInv`, `RetentionInv`, `CaptureInv`, the invariant of `Prune`,
`WritebackInv` and `UpkeepInv` were model-checked on the instances of section 4 before they were
proved.

Only model-checked: `EveryChangeSaved`, `StartsAfterAnyEnding` and `StopIsHeard`, because
liveness under fairness is out of the prover's reach. The five properties of the
violation runs are false and have a counterexample instead.

## 6. Limits of the code that the models show

Beside the findings, the models contain these. Most contradict no line of the repository;
where one does, a definition states what would have to hold and quotes the line. Those five,
`OneDaemon`, `StopRequestObeyed`, `HistoryMoved`, `RemovedAfterReference` and
`ImportSparesHome`, are checked by no run of section 4; put in place of the properties in
`MCDaemon.cfg` or `MCHome.cfg` (the first and the third as `INVARIANT`, the others as
`PROPERTY`), TLC refutes each within a minute. The properties of the runs say where they
except one of them.

Daemon
- A lock or a stop file whose removal is denied stays without a word: a lock of a
  daemon that ended refuses every start that may not remove it either, and an old stop
  file ends the next daemon at its first look.
- Two daemons can run (`OneDaemon`, `CHANGELOG.md:312`): a starter unlinks a lock it took for
  stale without looking again, and takes a lock still without a pid for stale; a request
  that clears up removes the lock of a daemon that has started since it looked.
- A starting daemon removes the stop file after its pid can be seen, so it deletes a
  request that was meant for it (`StopRequestObeyed`, `USER_GUIDE_EN.md:127`).

Sandbox and restore
- A link that cannot be made comes back as a text file with its payload, and an apply
  reports it as applied (`docs/zh/TROUBLESHOOTING.md:37` mentions the fallback).
- The check of a destination and its replacement are two steps; what the user saves in
  between is overwritten unrecorded (`raced`, `exposed`).
- Restore takes the kind from the file's row, not from the version: an old link comes
  back as a text file with the payload in it, or an old text is refused once the path
  has become a link (`AsKind`, `RefusePayload`).
- A path that snapshots ignore has no version: a restore onto it, and an apply, replace
  it without a copy. `CopyBeforeOverwrite` excepts `Ignored`, which is empty in the run.
- `sandbox-clean` removes the directory first; the row of a sandbox with an AI session
  cannot be deleted, the batch is rolled back, and rows of removed copies stay.
- An apply that begins before the session's row is written treats an AI sandbox as a plain
  one; one that dies leaves status "complete" though part of it is done; a file that
  cannot be read in the copy appears as deleted in the diff.

Storage
- The source of a migration is read before its lock is taken (`storage.py:262-277`). One that
  waited while another moved and removed that source copies nothing, backs up nothing, and
  switches to an empty home (`HistoryMoved`; mark `stale`).
- A cleanup holds the lock of one database and looks the home up again for each unlink: after
  a switch it removes an object that the other home's database, copied earlier, still
  refers to (`RemovedAfterReference`; mark `cleanup`).
- An import compares its target with the home in use before it extracts, and clears it
  afterwards: a migration may have made it the home in use (`ImportSparesHome`; mark
  `import`).
- The lock file of a migrator that died blocks later migrations, and a state "running" that
  it, or one refused by the lock, left behind makes the UI refuse for ever.
- A failure after the switch reports "failed" though the data has moved; one that cannot
  be written leaves "running", which also makes the UI refuse.
- An overwriting import that dies after the clearing leaves nothing in its target.

Schedule
- A failing scheduled backup raises through `run_scheduled_tasks` and ends the daemon; a
  failing validation leaves no job row, so it has no retry interval.
- A failing rotation marks a job "failed" whose archive is complete.
- Two saves of the configuration that overlap undo one another (`torn`).
- A backup target may contain a protected folder, which is then silently not watched.
- Removing a folder from the UI deletes all its history, so ids are given out again;
  `IdsNotReused` is about a folder that stays protected.

## 7. Not modelled

- Schema migration of the database, and the audit rows and event tables: no property
  reads them.
- The smart retention plan, dry runs, verify, doctor, recent, diffs as text, the
  analysis before a migration: they only report.
- The UI's session file and tokens, routes, templates and translations; the CLI; tray,
  startup entries and notifications: they delegate, or are platform glue.
- Paths, ignore patterns, durations, encodings and permissions: pure helpers.
- A lock file whose pid was given to another program: nothing in the code tells the two
  apart.
