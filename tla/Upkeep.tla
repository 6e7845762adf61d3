------------------------------- MODULE Upkeep -------------------------------
(***************************************************************************)
(* What SafeVault does on a schedule and what the user sets for it: the    *)
(* configuration file, which every process reads, changes and writes back  *)
(* whole without a lock; the folders that are protected; the backups, their*)
(* job rows, their archives and the rotation of these (backup.py); the     *)
(* daily cleanup of history (retention_cleanup.py).                        *)
(*                                                                         *)
(* Time counts in ticks, Day of them to a day.  What a cleanup deletes is  *)
(* Vault's, what an archive holds is Home's.                               *)
(***************************************************************************)
EXTENDS Integers, FiniteSets, Sequences

CONSTANTS
  Users,     \* processes the user works with: the web UI, the command line
  Daemon,    \* the background process
  Targets,   \* folders backups may go to
  Roots,     \* folders that may be protected
  Inside,    \* <<t, r>>: the folder t is r or lies in it
  Around,    \* <<t, r>>: the folder r lies in t
  Calls,     \* what a user may ask for: a sequence of edits, see Edit
  Initial,   \* the configuration file to begin with
  KeepLast,  \* backup.keep_last
  Day, Week, DueAt, Retry,  \* ticks; DueAt is backup.time
  LegacyDays, DefaultDays,  \* retention.keep_days of old, and by default
  Never, Missing,           \* no time yet, no such key in the file
  MaxTime,   \* bound: the clock
  MaxCalls,  \* bound: what users ask for, the backups they run, restarts
  MaxJobs    \* bound: backup jobs

\* What config.toml can hold.  Versions that knew no cleanup have left it out.
Configs ==
  [target : Targets \cup {Never}, schedule : {"manual", "daily", "weekly"},
   enabled : BOOLEAN, budget : Nat, cleanup : BOOLEAN \cup {Missing}, days : Nat,
   last : (0..MaxTime) \cup {Never}, onboarded : BOOLEAN]

\* What a user may ask for.
SettingEdits ==
  [kind : {"backup"}, target : Targets, schedule : {"manual", "daily", "weekly"}]
    \cup [kind : {"disable", "onboarded"}] \cup [kind : {"budget"}, budget : Nat]
    \cup [kind : {"retention"}, days : Nat, on : BOOLEAN, confirmed : BOOLEAN]
Edits == SettingEdits \cup [kind : {"root", "unprotect"}, root : Roots]

ASSUME UpkeepAssumption ==
  /\ Daemon \notin Users
  /\ Day \in Nat \ {0} /\ Week \in Nat /\ DueAt \in 0..(Day - 1) /\ Retry \in 0..Day
  /\ KeepLast \in Nat \ {0}
  /\ MaxTime \in Nat /\ MaxCalls \in Nat /\ MaxJobs \in Nat
  /\ Never \notin Int \cup Targets /\ Missing \notin BOOLEAN
  /\ DefaultDays \in Nat /\ Initial \in Configs /\ Initial.last = Never
  /\ Calls \subseteq Seq(Edits)

Runners == Users \cup {Daemon}

VARIABLES
  now,
  config,    \* config.toml
  roots,     \* rows of roots with a policy
  jobs,      \* rows of backup_jobs
  archives,  \* per target: the archives in it, each by the number of its job
  user,      \* per user: what is left of the call, and the edit under way
  run,       \* per runner: its run_backup
  alive,     \* the daemon runs
  loop,      \* the daemon's round: where it is, `current', what it has loaded
  chosen,    \* history: the settings as the user has last saved them
  torn,      \* history: a save has written over another made since it loaded
  deleted,   \* history: archives the user has deleted
  made,      \* history: the order in which the archives were made
  spoilt,    \* history: backups overlapped, or a rotation failed halfway
  cleaned,   \* history: the time of the last cleanup, unless it may be repeated
  calls

backupVars == <<jobs, archives, run, deleted, made, spoilt>>
vars == <<now, config, roots, backupVars, user, alive, loop, chosen, torn, cleaned,
          calls>>

Idle == [step |-> "idle", job |-> 0, target |-> Never]
Resting == [step |-> "idle", current |-> 0, copy |-> Initial, base |-> Initial]
NoCall == [todo |-> <<>>, step |-> "next", copy |-> Initial, base |-> Initial]

-----------------------------------------------------------------------------
(* The configuration file.                                                  *)

\* SafeVaultConfig.from_dict: what a file of an older version is read as.
FromDict(f) ==
  [f EXCEPT !.cleanup = (@ = TRUE),
            !.days = IF f.cleanup = Missing /\ @ = LegacyDays THEN DefaultDays ELSE @]

load == FromDict(config)

\* configure_retention: confirmation is asked to enable or to shorten.
Confirming(c, e) == e.on /\ (~c.cleanup \/ e.days < c.days)

\* Mutant: every change of the retention makes the next cleanup due.
EditResetting(c, e) ==
  CASE e.kind = "backup"    -> [c EXCEPT !.target = e.target, !.schedule = e.schedule,
                                         !.enabled = TRUE]
    [] e.kind = "disable"   -> [c EXCEPT !.enabled = FALSE]
    [] e.kind = "budget"    -> [c EXCEPT !.budget = e.budget]
    [] e.kind = "retention" -> [c EXCEPT !.days = e.days, !.cleanup = e.on, !.last = Never]
    [] e.kind = "onboarded" -> [c EXCEPT !.onboarded = TRUE]

\* What an edit makes of a configuration: with_backup, set_storage_budget,
\* configure_retention, the end of complete_onboarding_from_ui.
Edit(c, e) ==
  CASE e.kind = "backup"    -> [c EXCEPT !.target = e.target, !.schedule = e.schedule,
                                         !.enabled = TRUE]
    [] e.kind = "disable"   -> [c EXCEPT !.enabled = FALSE]
    [] e.kind = "budget"    -> [c EXCEPT !.budget = e.budget]
    [] e.kind = "retention" -> [c EXCEPT !.days = e.days, !.cleanup = e.on,
                                         !.last = IF Confirming(c, e) THEN Never ELSE @]
    [] e.kind = "onboarded" -> [c EXCEPT !.onboarded = TRUE]

\* validate_backup_target against the folders that are protected.
TargetAllowed(t) == \A r \in roots : <<t, r>> \notin Inside

\* What an edit is checked for first: the typed words, the folder for backups.
Accepted(e) ==
  /\ e.kind = "retention" => (Confirming(load, e) => e.confirmed)
  /\ e.kind = "backup" => TargetAllowed(e.target)

\* What the user has chosen by it.
Choice(s, e) == LET c == Edit([s EXCEPT !.last = Never], e) IN [c EXCEPT !.last = Never]

\* Somebody has saved since this copy was loaded.
Overwrites(base) == config # base

\* root_safety_issue: the folder and the configured backup target keep apart.
RootAllowed(r) == LET t == load.target
                  IN  <<t, r>> \notin Inside /\ <<t, r>> \notin Around

Init ==
  /\ now = 0 /\ config = Initial /\ roots = {}
  /\ jobs = <<>> /\ archives = [t \in Targets |-> {}]
  /\ user = [u \in Users |-> NoCall]
  /\ run = [p \in Runners |-> Idle]
  /\ alive = FALSE /\ loop = Resting
  /\ chosen = [FromDict(Initial) EXCEPT !.last = Never]
  /\ torn = FALSE /\ deleted = {} /\ made = <<>> /\ spoilt = FALSE
  /\ cleaned = Never /\ calls = 0

Call == calls < MaxCalls /\ calls' = calls + 1

Tick == /\ now < MaxTime /\ now' = now + 1
        /\ UNCHANGED <<config, roots, backupVars, user, alive, loop, chosen, torn,
                       cleaned, calls>>

-----------------------------------------------------------------------------
(* A user's call: one edit, or the edits of complete_onboarding_from_ui.    *)

\* validate_onboarding_inputs: all folders it names, before the first is saved.
Valid(c) ==
  \A i \in DOMAIN c :
    /\ c[i].kind = "root" => RootAllowed(c[i].root)
    /\ c[i].kind = "backup" =>
         /\ TargetAllowed(c[i].target)
         /\ \A k \in DOMAIN c : c[k].kind = "root" => <<c[i].target, c[k].root>> \notin Inside

Ask(u, c) ==
  /\ user[u].todo = <<>> /\ run[u].step = "idle" /\ Call
  /\ Len(c) > 1 => Valid(c)
  /\ user' = [user EXCEPT ![u].todo = c]
  /\ UNCHANGED <<now, config, roots, backupVars, alive, loop, chosen, torn, cleaned>>

Done(u) == [user EXCEPT ![u].todo = Tail(@), ![u].step = "next"]

\* add_or_enable_protected_root; one that is protected already is left as it is.
AddRoot(u) ==
  /\ user[u].todo # <<>> /\ Head(user[u].todo).kind = "root"
  /\ LET r == Head(user[u].todo).root
     IN  IF RootAllowed(r)
         THEN roots' = roots \cup {r} /\ user' = Done(u)
         ELSE user' = [user EXCEPT ![u] = NoCall] /\ UNCHANGED roots
  /\ UNCHANGED <<now, config, backupVars, alive, loop, chosen, torn, cleaned, calls>>

\* unprotect_from_ui.
RemoveRoot(u) ==
  /\ user[u].todo # <<>> /\ Head(user[u].todo).kind = "unprotect"
  /\ roots' = roots \ {Head(user[u].todo).root}
  /\ user' = Done(u)
  /\ UNCHANGED <<now, config, backupVars, alive, loop, chosen, torn, cleaned, calls>>

\* The checks of an edit, and load_config.
LoadEdit(u) ==
  /\ user[u].todo # <<>> /\ user[u].step = "next"
  /\ LET e == Head(user[u].todo)
     IN  /\ e.kind \notin {"root", "unprotect"}
         /\ user' = IF ~Accepted(e)
                    THEN [user EXCEPT ![u] = NoCall]
                    ELSE [user EXCEPT ![u].step = "save", ![u].base = config,
                                      ![u].copy = Edit(load, e)]
  /\ UNCHANGED <<now, config, roots, backupVars, alive, loop, chosen, torn, cleaned,
                 calls>>

\* save_config: the whole file, by an atomic replace.
SaveEdit(u) ==
  /\ user[u].step = "save"
  /\ config' = user[u].copy
  /\ torn' = (torn \/ Overwrites(user[u].base))
  /\ LET e == Head(user[u].todo)
     IN  /\ chosen' = Choice(chosen, e)
         /\ cleaned' = IF e.kind = "retention" /\ Confirming(FromDict(user[u].base), e)
                       THEN Never ELSE cleaned
  /\ user' = [Done(u) EXCEPT ![u].copy = Initial, ![u].base = Initial]
  /\ UNCHANGED <<now, roots, backupVars, alive, loop, calls>>

\* delete_backup_file_from_ui.
DeleteArchive(u, a) ==
  LET t == load.target
  IN  /\ user[u].todo = <<>> /\ run[u].step = "idle" /\ Call
      /\ t \in Targets /\ a \in archives[t] /\ TargetAllowed(t)
      /\ archives' = [archives EXCEPT ![t] = @ \ {a}]
      /\ deleted' = deleted \cup {a}
      /\ UNCHANGED <<now, config, roots, jobs, run, made, spoilt, user, alive, loop,
                     chosen, torn, cleaned>>

-----------------------------------------------------------------------------
(* Backups.                                                                 *)

Ended(status) == {j \in DOMAIN jobs : jobs[j].status = status}

\* get_backup_status: the last row of this status, by the time it ended.
Latest(status) ==
  CHOOSE j \in Ended(status) : \A k \in Ended(status) :
    jobs[k].at < jobs[j].at \/ (jobs[k].at = jobs[j].at /\ k <= j)

\* Times of day are local; the clock has no summer time here.
DueOn(t) == (t \div Day) * Day + DueAt
AtLeast(a, b) == IF a < b THEN b ELSE a

\* next_due_after.
NextDue(last, schedule, t) ==
  CASE last = Never -> DueOn(t)
    [] last # Never /\ schedule = "daily" ->
         IF last >= DueOn(t) THEN DueOn(t) + Day ELSE DueOn(t)
    [] last # Never /\ schedule = "weekly" ->
         AtLeast(IF DueOn(last + Week) < last + Week THEN DueOn(last + Week) + Day
                 ELSE DueOn(last + Week), DueOn(t))

LastSuccess == IF Ended("success") = {} THEN Never ELSE jobs[Latest("success")].at

\* Mutant: the failure counts only until the day of the next backup has come.
BlockedUntilDue(t) ==
  /\ Ended("failed") # {}
  /\ LET f == jobs[Latest("failed")].at
     IN  /\ LastSuccess # Never => LastSuccess < f
         /\ t - f < Retry /\ t < DueOn(t)

\* _recent_failure_blocks_retry.
Blocked(t) ==
  /\ Ended("failed") # {}
  /\ LET f == jobs[Latest("failed")].at
     IN  /\ LastSuccess # Never => LastSuccess < f
         /\ t - f < Retry

\* run_backup, up to the row of its job.  A target that is not allowed, and a
\* backup that has been disabled since, is an error before there is a row.
Start(p, t) ==
  /\ load.enabled /\ t \in Targets /\ t = load.target /\ TargetAllowed(t)
  /\ Len(jobs) < MaxJobs
  /\ jobs' = Append(jobs, [status |-> "running", at |-> Never, target |-> t])
  /\ run' = [run EXCEPT ![p] = [step |-> "export", job |-> Len(jobs) + 1, target |-> t]]
  /\ spoilt' = (spoilt \/ \E q \in Runners \ {p} : run[q].step # "idle")
  /\ UNCHANGED <<archives, deleted, made>>

\* backup run, from the command line or the UI.
RunBackup(u) ==
  /\ user[u].todo = <<>> /\ run[u].step = "idle" /\ Call
  /\ \E t \in Targets : Start(u, t)
  /\ UNCHANGED <<now, config, roots, user, alive, loop, chosen, torn, cleaned>>

\* The archive is there, under its own name and as safevault-latest.
Export(p) ==
  /\ run[p].step = "export"
  /\ archives' = [archives EXCEPT ![run[p].target] = @ \cup {run[p].job}]
  /\ made' = Append(made, run[p].job)
  /\ run' = [run EXCEPT ![p].step = "exported"]
  /\ UNCHANGED <<now, config, roots, jobs, deleted, spoilt, user, alive, loop, chosen,
                 torn, cleaned, calls>>

\* Mutant: the time a job has ended is left out.
FinishUnstamped(j, status) == jobs' = [jobs EXCEPT ![j].status = status]

Finish(j, status) == jobs' = [jobs EXCEPT ![j].status = status, ![j].at = now]

Succeed(p) ==
  /\ run[p].step = "exported" /\ Finish(run[p].job, "success")
  /\ run' = [run EXCEPT ![p].step = "rotate"]
  /\ UNCHANGED <<now, config, roots, archives, deleted, made, spoilt, user, alive, loop,
                 chosen, torn, cleaned, calls>>

MadeAfter(a, b) == \E i, k \in DOMAIN made : i < k /\ made[i] = b /\ made[k] = a

\* Mutant: the list is not reversed.
ExcessOldestFirst(t) ==
  {a \in archives[t] : Cardinality({b \in archives[t] : MadeAfter(a, b)}) >= KeepLast}

\* _prune_old_backups: what is behind the first KeepLast, newest first.
Excess(t) ==
  {a \in archives[t] : Cardinality({b \in archives[t] : MadeAfter(b, a)}) >= KeepLast}

Rotate(p) ==
  /\ run[p].step = "rotate"
  /\ archives' = [archives EXCEPT ![run[p].target] = @ \ Excess(run[p].target)]
  /\ run' = [run EXCEPT ![p] = Idle]
  /\ loop' = IF p = Daemon THEN [loop EXCEPT !.step = "clean"] ELSE loop
  /\ UNCHANGED <<now, config, roots, jobs, deleted, made, spoilt, user, alive, chosen,
                 torn, cleaned, calls>>

\* The except clause: of the export, of the copy, and of the rotation, whose job
\* has been a success already.  Nobody catches it in the daemon, which ends.
FailBackup(p) ==
  /\ run[p].step # "idle" /\ Finish(run[p].job, "failed")
  /\ \E gone \in SUBSET (IF run[p].step = "rotate" THEN Excess(run[p].target) ELSE {}) :
       /\ archives' = [archives EXCEPT ![run[p].target] = @ \ gone]
       /\ spoilt' = (spoilt \/ gone # {})
  /\ run' = [run EXCEPT ![p] = Idle]
  /\ IF p = Daemon THEN alive' = FALSE /\ loop' = Resting
     ELSE UNCHANGED <<alive, loop>>
  /\ UNCHANGED <<now, config, roots, deleted, made, user, chosen, torn, cleaned, calls>>

-----------------------------------------------------------------------------
(* A round of the daemon: run_scheduled_tasks.                              *)

DaemonStart ==
  /\ ~alive /\ Call /\ alive' = TRUE
  /\ UNCHANGED <<now, config, roots, backupVars, user, loop, chosen, torn, cleaned>>

\* Its snapshots may take any time; the rest goes by the time it has begun.
Round ==
  /\ alive /\ loop.step = "idle"
  /\ loop' = [loop EXCEPT !.step = "backup", !.current = now]
  /\ UNCHANGED <<now, config, roots, backupVars, user, alive, chosen, torn, cleaned,
                 calls>>

Due(t) ==
  /\ load.enabled /\ load.schedule # "manual"
  /\ ~Blocked(t)
  /\ t >= NextDue(LastSuccess, load.schedule, t)

\* run_due_backup: not now, or to run_backup, which loads and checks for itself.
DueBackup ==
  /\ loop.step = "backup"
  /\ loop' = [loop EXCEPT !.step = IF Due(loop.current) THEN "start" ELSE "clean"]
  /\ UNCHANGED <<now, config, roots, backupVars, user, alive, chosen, torn, cleaned,
                 calls>>

StartDue ==
  /\ loop.step = "start"
  /\ IF load.enabled /\ load.target \in Targets /\ TargetAllowed(load.target)
     THEN Start(Daemon, load.target) /\ loop' = [loop EXCEPT !.step = "running"]
                                     /\ UNCHANGED alive
     ELSE alive' = FALSE /\ loop' = Resting /\ UNCHANGED backupVars
  /\ UNCHANGED <<now, config, roots, user, chosen, torn, cleaned, calls>>

\* run_due_retention_cleanup: the configuration it goes by.
DueCleanup ==
  /\ loop.step = "clean"
  /\ LET due == load.cleanup /\ (load.last # Never => loop.current - load.last >= Day)
     IN  loop' = IF due THEN [loop EXCEPT !.step = "delete", !.copy = load]
                 ELSE Resting
  /\ UNCHANGED <<now, config, roots, backupVars, user, alive, chosen, torn, cleaned,
                 calls>>

\* apply_retention_cleanup; an error it catches is recorded as well.
Delete ==
  /\ loop.step = "delete"
  /\ loop' = [loop EXCEPT !.step = "record"]
  /\ cleaned' = loop.current
  /\ UNCHANGED <<now, config, roots, backupVars, user, alive, chosen, torn, calls>>

\* Mutant: the status is recorded in the configuration the cleanup has gone by.
RecordAsLoaded ==
  /\ loop.step = "record"
  /\ loop' = [loop EXCEPT !.step = "save", !.base = config,
                          !.copy = [loop.copy EXCEPT !.last = loop.current]]
  /\ UNCHANGED <<now, config, roots, backupVars, user, alive, chosen, torn, cleaned,
                 calls>>

\* _record_cleanup_status loads the file again.
LoadRecord ==
  /\ loop.step = "record"
  /\ loop' = [loop EXCEPT !.step = "save", !.base = config,
                          !.copy = [load EXCEPT !.last = loop.current]]
  /\ UNCHANGED <<now, config, roots, backupVars, user, alive, chosen, torn, cleaned,
                 calls>>

SaveRecord ==
  /\ loop.step = "save"
  /\ config' = loop.copy /\ torn' = (torn \/ Overwrites(loop.base))
  /\ loop' = Resting
  /\ UNCHANGED <<now, roots, backupVars, user, alive, chosen, cleaned, calls>>

\* Killed, or an error nobody catches: a job stays "running", and a cleanup that
\* has not been recorded is due again.
DaemonDies ==
  /\ alive /\ Call /\ alive' = FALSE /\ loop' = Resting
  /\ run' = [run EXCEPT ![Daemon] = Idle]
  /\ cleaned' = IF loop.step \in {"record", "save"} THEN Never ELSE cleaned
  /\ UNCHANGED <<now, config, roots, jobs, archives, deleted, made, spoilt, user, chosen,
                 torn>>

-----------------------------------------------------------------------------
UserStep(u) ==
  \/ \E c \in Calls : Ask(u, c)
  \/ AddRoot(u) \/ RemoveRoot(u) \/ LoadEdit(u) \/ SaveEdit(u)
  \/ \E a \in 1..MaxJobs : DeleteArchive(u, a)
  \/ RunBackup(u)

BackupStep(p) == Export(p) \/ Succeed(p) \/ Rotate(p) \/ FailBackup(p)

DaemonStep == Round \/ DueBackup \/ StartDue \/ DueCleanup \/ Delete \/ LoadRecord
              \/ SaveRecord

Next ==
  \/ Tick
  \/ \E u \in Users : UserStep(u)
  \/ \E p \in Runners : BackupStep(p)
  \/ DaemonStart \/ DaemonStep \/ DaemonDies

Spec == Init /\ [][Next]_vars

-----------------------------------------------------------------------------
\* Types; a job has ended exactly when it has a time of ending, every backup under
\* way has its row, and the daemon's belongs to a round of the daemon.
UserType == [todo : Seq(Edits), step : {"next", "save"}, copy : Configs, base : Configs]
RunType == [step : {"idle", "export", "exported", "rotate"}, job : 0..MaxJobs,
            target : Targets \cup {Never}]
LoopType == [step : {"idle", "backup", "start", "running", "clean", "delete", "record", "save"},
             current : 0..MaxTime, copy : Configs, base : Configs]
JobType == [status : {"running", "success", "failed"}, at : (0..MaxTime) \cup {Never},
            target : Targets]

UpkeepTypeOK ==
  /\ now \in 0..MaxTime /\ calls \in 0..MaxCalls /\ roots \in SUBSET Roots
  /\ config \in Configs /\ chosen \in Configs /\ chosen.cleanup \in BOOLEAN
  /\ torn \in BOOLEAN /\ alive \in BOOLEAN /\ spoilt \in BOOLEAN
  /\ archives \in [Targets -> SUBSET (1..MaxJobs)] /\ deleted \in SUBSET (1..MaxJobs)
  /\ jobs \in Seq(JobType) /\ Len(jobs) <= MaxJobs /\ made \in Seq(1..MaxJobs)
  /\ user \in [Users -> UserType]
  /\ run \in [Runners -> RunType]
  /\ loop \in LoopType
  /\ cleaned \in (0..MaxTime) \cup {Never}
  /\ \A j \in DOMAIN jobs : jobs[j].at = Never <=> jobs[j].status = "running"
  /\ \A p \in Runners : run[p].step # "idle" => run[p].job \in DOMAIN jobs
  /\ run[Daemon].step # "idle" => alive /\ loop.step = "running"

\* config.py: every setting is as the user has last saved it, whatever the daemon
\* records in the same file and whatever older version wrote it, as long as no save
\* came between the load and the save of another.
SettingsKept == ~torn => [load EXCEPT !.last = Never] = chosen

\* backup.py: the archive that the backup status names is there, through failed
\* jobs, rotations and changes of target, until the user deletes it, unless
\* backups overlapped or a rotation failed halfway.
NamedArchiveKept ==
  Ended("success") # {} /\ ~spoilt =>
    LET j == Latest("success") IN j \in archives[jobs[j].target] \cup deleted

\* backup.py: the daemon, also one that has been started anew, begins no backup
\* within the retry interval of the last failure, unless a backup has succeeded
\* since or the failure came after the round had begun.
NoEarlyRetry ==
  [][run[Daemon].step = "idle" /\ run'[Daemon].step = "export" /\ Ended("failed") # {} =>
       LET failure == jobs[Latest("failed")].at
       IN  \/ now - failure >= Retry \/ failure >= loop.current
           \/ \E k \in Ended("success") : jobs[k].at >= failure]_vars

\* CHANGELOG.md:14: "at most once per day": a cleanup runs a day after the one
\* before, unless the user has confirmed a stricter setting since, the daemon died
\* before it could record it, or the record was lost to an overlapping save.
CleanupAtMostDaily ==
  [][loop.step = "delete" /\ loop'.step = "record" =>
       cleaned = Never \/ torn \/ loop.current - cleaned >= Day]_vars
=============================================================================
