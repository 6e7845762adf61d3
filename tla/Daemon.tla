------------------------------- MODULE Daemon -------------------------------
(***************************************************************************)
(* The life of SafeVault's daemon: processes that start it (at sign-in,    *)
(* from the command line, from the UI), processes that ask it to stop (the *)
(* command line, the tray, storage migration), the lock file, the stop     *)
(* file and the state row in the database by which they know of each       *)
(* other.  What the daemon does in its loop is module Watcher's subject.   *)
(*                                                                         *)
(* Every file operation is a step of its own.  A process runs the daemon   *)
(* once, so a pid names one run: that the system gives the pid of a dead   *)
(* daemon to another program is left out.                                  *)
(***************************************************************************)
EXTENDS Naturals

CONSTANTS
  Daemons,     \* processes that run `safevault daemon run', by pid
  Requesters,  \* processes that ask for a stop
  None         \* no pid, no lock file

\* A lock file: who created it, and the pid in it.
Locks == [by : Daemons, pid : Daemons \cup {None}]

ASSUME NoneIsNobody == None \notin Daemons \cup Locks

VARIABLES
  daemon,      \* process -> where it is in run_daemon
  requester,   \* process -> where it is in request_daemon_stop
  lock,        \* daemon.lock: None, or who created it and the pid in it
  stop,        \* daemon.stop is there
  row,         \* daemon_state: its status and pid
  killed,      \* history: daemons that died without their finally clauses
  denied,      \* history: daemons whose own unlink of the lock file failed
  tangled      \* history: a start ran beside another start or a stop request

vars == <<daemon, requester, lock, stop, row, killed, denied, tangled>>

\* Where a daemon is before, in and after its loop.
Entering == {"check", "unlink", "create", "write"}
Starting == {"clear", "announce"}
InLoop   == {"loop", "beat"}
Leaving  == {"record stop", "record error", "clear stop", "unlock"}
Running  == Starting \cup InLoop \cup Leaving

\* Where a requester is in clearing up after a daemon it found dead.
ClearingUp == {"drop lock", "drop stop", "say stopped"}

TypeOK ==
  /\ daemon \in [Daemons -> {"new", "gone"} \cup Entering \cup Running]
  /\ requester \in [Requesters -> {"idle", "ask", "say stopping", "wait", "sure"}
                                    \cup ClearingUp]
  /\ lock \in {None} \cup Locks
  /\ stop \in BOOLEAN
  /\ row \in [status : {"stopped", "running", "stopping", "error"},
              pid    : Daemons \cup {None}]
  /\ killed \subseteq Daemons
  /\ denied \subseteq Daemons
  /\ tangled \in BOOLEAN

Alive(d) == d # None /\ daemon[d] \notin {"new", "gone"}

\* _read_pid: nothing when there is no lock file, or no pid in it yet.
LockPid == IF lock = None THEN None ELSE lock.pid

\* get_daemon_status.  (No row yet reads as stopped.)
Status ==
  LET runtimeAlive == Alive(LockPid) /\ row.pid = LockPid
  IN  IF runtimeAlive \/ row.status \in {"stopped", "error"} THEN row.status
      ELSE IF row.status = "running" THEN "error"
      ELSE "stopped"

\* Processes in the middle of looking at the lock file and changing it.
Entrants == {d \in Daemons : daemon[d] \in Entering \ {"check"}}
Clearers == {r \in Requesters : requester[r] \in ClearingUp}

Go(d, to) ==
  /\ daemon' = [daemon EXCEPT ![d] = to]
  /\ tangled' = (tangled \/ /\ to \in Entering \ {"check"}
                            /\ (Entrants \ {d} # {} \/ Clearers # {}))
  /\ UNCHANGED requester

Request(r, to) ==
  /\ requester' = [requester EXCEPT ![r] = to]
  /\ tangled' = (tangled \/ (to \in ClearingUp /\ Entrants # {}))
  /\ UNCHANGED <<daemon, killed, denied>>

\* Every unlink of these two files suppresses an OSError (no permission, the file
\* is open in another program): what fails leaves the file, and the code goes on.
UnlinkLock == lock' \in {None, lock}
UnlinkStop == stop' \in {FALSE, stop}

Unlink(d) ==
  /\ UnlinkLock
  /\ denied' = IF lock' = None THEN denied ELSE denied \cup {d}

-----------------------------------------------------------------------------
(* run_daemon.                                                             *)

Launch(d) ==
  /\ daemon[d] = "new"
  /\ Go(d, "check")
  /\ UNCHANGED <<lock, stop, row, killed, denied>>

\* Mutant: what is in the lock file is not looked at.
TakeLockAway(d) ==
  /\ daemon[d] = "check"
  /\ Go(d, "unlink")
  /\ UNCHANGED <<lock, stop, row, killed, denied>>

\* DaemonLock.__enter__: nothing there, or a lock that belongs to nobody alive.
FindNoLock(d) ==
  /\ daemon[d] = "check"
  /\ lock = None
  /\ Go(d, "create")
  /\ UNCHANGED <<lock, stop, row, killed, denied>>

FindStaleLock(d) ==
  /\ daemon[d] = "check"
  /\ lock # None
  /\ ~Alive(LockPid)
  /\ Go(d, "unlink")
  /\ UNCHANGED <<lock, stop, row, killed, denied>>

RemoveStaleLock(d) ==
  /\ daemon[d] = "unlink"
  /\ Unlink(d)
  /\ Go(d, "create")
  /\ UNCHANGED <<stop, row, killed>>

\* O_EXCL: an empty lock file of d's own.
CreateLock(d) ==
  /\ daemon[d] = "create"
  /\ lock = None
  /\ lock' = [by |-> d, pid |-> None]
  /\ Go(d, "write")
  /\ UNCHANGED <<stop, row, killed, denied>>

\* Mutant: a lock file keeps out whoever finds it.
RefuseAnyLock(d) ==
  /\ daemon[d] \in {"check", "create"}
  /\ lock # None
  /\ Go(d, "gone")
  /\ UNCHANGED <<lock, stop, row, killed, denied>>

\* "already running", or "lock already exists".
Refuse(d) ==
  /\ \/ daemon[d] = "check" /\ Alive(LockPid)
     \/ daemon[d] = "create" /\ lock # None
  /\ Go(d, "gone")
  /\ UNCHANGED <<lock, stop, row, killed, denied>>

\* d writes into the file it created, which may have been unlinked meanwhile.
WritePid(d) ==
  /\ daemon[d] = "write"
  /\ lock' = IF lock # None /\ lock.by = d THEN [lock EXCEPT !.pid = d] ELSE lock
  /\ Go(d, "clear")
  /\ UNCHANGED <<stop, row, killed, denied>>

\* An error there leaves the file: __exit__ is not called.
WritePidFails(d) ==
  /\ daemon[d] = "write"
  /\ Go(d, "gone")
  /\ UNCHANGED <<lock, stop, row, killed, denied>>

\* A stop file from before is not for this run; one that stays stops it at once.
ClearStop(d) ==
  /\ daemon[d] = "clear"
  /\ UnlinkStop
  /\ Go(d, "announce")
  /\ UNCHANGED <<lock, row, killed, denied>>

Announce(d) ==
  /\ daemon[d] = "announce"
  /\ row' = [status |-> "running", pid |-> d]
  /\ Go(d, "beat")
  /\ UNCHANGED <<lock, stop, killed, denied>>

\* Mutant: nothing lets go of the lock.
StartFailsLocked(d) ==
  /\ daemon[d] \in Starting
  /\ Go(d, "gone")
  /\ UNCHANGED <<lock, stop, row, killed, denied>>

\* An exception before the try: the lock is let go, the row not written.
StartFails(d) ==
  /\ daemon[d] \in Starting
  /\ Go(d, "unlock")
  /\ UNCHANGED <<lock, stop, row, killed, denied>>

\* Mutant: the stop file is not looked at.
GoOnRegardless(d) ==
  /\ daemon[d] = "loop"
  /\ Go(d, "beat")
  /\ UNCHANGED <<lock, stop, row, killed, denied>>

\* The condition of the loop, and the heartbeat it begins with; the startup scan
\* ends with one too.
GoOn(d) ==
  /\ daemon[d] = "loop"
  /\ ~stop
  /\ Go(d, "beat")
  /\ UNCHANGED <<lock, stop, row, killed, denied>>

Heartbeat(d) ==
  /\ daemon[d] = "beat"
  /\ row' = [status |-> "running", pid |-> d]
  /\ Go(d, "loop")
  /\ UNCHANGED <<lock, stop, killed, denied>>

SeeStop(d) ==
  /\ daemon[d] = "loop"
  /\ stop
  /\ Go(d, "record stop")
  /\ UNCHANGED <<lock, stop, row, killed, denied>>

\* An exception in the loop; a keyboard interrupt is no Exception.
LoopFails(d) ==
  /\ daemon[d] \in InLoop
  /\ \E to \in {"record error", "record stop"} : Go(d, to)
  /\ UNCHANGED <<lock, stop, row, killed, denied>>

\* Mutant: the finally clause does not ask whether there was an error.
RecordErrorAndStop(d) ==
  /\ daemon[d] = "record error"
  /\ row' = [status |-> "error", pid |-> None]
  /\ Go(d, "record stop")
  /\ UNCHANGED <<lock, stop, killed, denied>>

\* The except clause, whose write may fail in turn, ...
RecordError(d) ==
  /\ daemon[d] = "record error"
  /\ row' \in {row, [status |-> "error", pid |-> None]}
  /\ Go(d, "clear stop")
  /\ UNCHANGED <<lock, stop, killed, denied>>

\* ... and the finally clause after a run without one.
RecordStop(d) ==
  /\ daemon[d] = "record stop"
  /\ row' = [status |-> "stopped", pid |-> None]
  /\ Go(d, "clear stop")
  /\ UNCHANGED <<lock, stop, killed, denied>>

RecordStopFails(d) ==
  /\ daemon[d] = "record stop"
  /\ Go(d, "unlock")
  /\ UNCHANGED <<lock, stop, row, killed, denied>>

RemoveStop(d) ==
  /\ daemon[d] = "clear stop"
  /\ UnlinkStop
  /\ Go(d, "unlock")
  /\ UNCHANGED <<lock, row, killed, denied>>

\* DaemonLock.__exit__ unlinks the lock file, whosever it is.
Unlock(d) ==
  /\ daemon[d] = "unlock"
  /\ Unlink(d)
  /\ Go(d, "gone")
  /\ UNCHANGED <<stop, row, killed>>

\* Power loss, or a kill that cannot be caught.
Kill(d) ==
  /\ Alive(d)
  /\ killed' = killed \cup {d}
  /\ Go(d, "gone")
  /\ UNCHANGED <<lock, stop, row, denied>>

-----------------------------------------------------------------------------
(* request_daemon_stop.                                                    *)

\* Nobody alive has the lock: clear up.
FindNobody(r) ==
  /\ requester[r] = "idle"
  /\ ~Alive(LockPid)
  /\ Request(r, "drop lock")
  /\ UNCHANGED <<lock, stop, row>>

DropLock(r) ==
  /\ requester[r] = "drop lock"
  /\ UnlinkLock
  /\ Request(r, "drop stop")
  /\ UNCHANGED <<stop, row>>

DropStop(r) ==
  /\ requester[r] = "drop stop"
  /\ UnlinkStop
  /\ Request(r, "say stopped")
  /\ UNCHANGED <<lock, row>>

SayStopped(r) ==
  /\ requester[r] = "say stopped"
  /\ row' = [status |-> "stopped", pid |-> None]
  /\ Request(r, "wait")
  /\ UNCHANGED <<lock, stop>>

FindDaemon(r) ==
  /\ requester[r] = "idle"
  /\ Alive(LockPid)
  /\ Request(r, "ask")
  /\ UNCHANGED <<lock, stop, row>>

WriteStop(r) ==
  /\ requester[r] = "ask"
  /\ stop' = TRUE
  /\ Request(r, "say stopping")
  /\ UNCHANGED <<lock, row>>

\* Mutants: the row gets the pid of the process that asks, or none.
SayStoppingAsSelf(r) ==
  /\ requester[r] = "say stopping"
  /\ row' = [status |-> "stopping", pid |-> r]
  /\ Request(r, "wait")
  /\ UNCHANGED <<lock, stop>>

SayStoppingWithoutPid(r) ==
  /\ requester[r] = "say stopping"
  /\ row' = [status |-> "stopping", pid |-> None]
  /\ Request(r, "wait")
  /\ UNCHANGED <<lock, stop>>

\* _write_daemon_state keeps the pid that is there.
SayStopping(r) ==
  /\ requester[r] = "say stopping"
  /\ row' = [row EXCEPT !.status = "stopping"]
  /\ Request(r, "wait")
  /\ UNCHANGED <<lock, stop>>

\* Mutant: the lock file is not waited for.
ConfirmByStatus(r) ==
  /\ requester[r] = "wait"
  /\ Status \notin {"running", "stopping"}
  /\ Request(r, "sure")
  /\ UNCHANGED <<lock, stop, row>>

\* storage._ensure_daemon_stopped: the migration goes ahead.
Confirm(r) ==
  /\ requester[r] \in {"idle", "wait"}
  /\ Status \notin {"running", "stopping"}
  /\ lock = None
  /\ Request(r, "sure")
  /\ UNCHANGED <<lock, stop, row>>

\* Other callers do not wait, migration gives up after a minute; it ends.
Return(r) ==
  /\ requester[r] \in {"wait", "sure"}
  /\ Request(r, "idle")
  /\ UNCHANGED <<lock, stop, row>>

\* A write fails, or the process that asks dies.
AskFails(r) ==
  /\ requester[r] \in ClearingUp \cup {"ask", "say stopping"}
  /\ Request(r, "idle")
  /\ UNCHANGED <<lock, stop, row>>

-----------------------------------------------------------------------------
Init ==
  /\ daemon = [d \in Daemons |-> "new"]
  /\ requester = [r \in Requesters |-> "idle"]
  /\ lock = None
  /\ stop = FALSE
  /\ row = [status |-> "stopped", pid |-> None]
  /\ killed = {}
  /\ denied = {}
  /\ tangled = FALSE

\* What a daemon does of itself; it is never waiting for another process.
Run(d) ==
  \/ FindNoLock(d) \/ FindStaleLock(d) \/ RemoveStaleLock(d)
  \/ CreateLock(d) \/ Refuse(d) \/ WritePid(d)
  \/ ClearStop(d) \/ Announce(d)
  \/ GoOn(d) \/ Heartbeat(d) \/ SeeStop(d)
  \/ RecordError(d) \/ RecordStop(d) \/ RemoveStop(d) \/ Unlock(d)

Fail(d) ==
  \/ WritePidFails(d) \/ StartFails(d) \/ LoopFails(d) \/ RecordStopFails(d)
  \/ Kill(d)

Ask(r) ==
  \/ FindNobody(r) \/ DropLock(r) \/ DropStop(r) \/ SayStopped(r)
  \/ FindDaemon(r) \/ WriteStop(r) \/ SayStopping(r)
  \/ Confirm(r) \/ Return(r) \/ AskFails(r)

Next ==
  \/ \E d \in Daemons : Launch(d) \/ Run(d) \/ Fail(d)
  \/ \E r \in Requesters : Ask(r)

\* A process that is alive goes on.
Fairness == \A d \in Daemons : WF_vars(Run(d))

Spec == Init /\ [][Next]_vars /\ Fairness

-----------------------------------------------------------------------------
\* The single-instance lock: no two daemons are past it.
OneDaemon == \A d, e \in Daemons : {daemon[d], daemon[e]} \subseteq Running => d = e

\* At most one daemon is past its lock, and the lock file is its own, as long as
\* no start ran beside another start or beside a stop request that clears up.
OneAtATime ==
  ~tangled =>
    /\ OneDaemon
    /\ \A d \in Daemons :
         daemon[d] \in Running => lock # None /\ lock.by = d /\ lock.pid = d

\* A daemon that has written its pid and ends leaves no lock file behind, whatever
\* else failed (a start, the loop, a write of its state), unless it was killed or
\* the system denied it the unlink.
LockLetGo ==
  lock # None /\ lock.pid # None /\ ~Alive(lock.by) => lock.by \in killed \cup denied

\* A daemon that works is reported as such, so nobody starts a second one: a
\* late answer to an earlier stop request is put right by the next heartbeat.
WorkingIsReported ==
  ~tangled => \A d \in Daemons :
    daemon[d] = "beat" =>
      Status \in {"running", "stopping"}

\* When storage migration is told that the daemon is stopped, no daemon works.
StoppedIsStopped ==
  [][\A r \in Requesters :
       ~tangled /\ requester[r] # "sure" /\ requester'[r] = "sure"
         => \A d \in Daemons : daemon[d] \notin Running]_vars

\* After any ending of the daemon before it, also a kill, a process that starts
\* and stays alone gets through: a lock file left behind does not keep it out,
\* unless the system denies it the removal of that file.
StartsAfterAnyEnding ==
  \A d \in Daemons :
    LET alone == \A e \in Daemons \ {d} : ~Alive(e)
    IN  (daemon[d] = "check" /\ alone)
          ~> (daemon[d] = "write" \/ d \in killed \cup denied \/ ~alone)

\* The error a daemon ended with stays to be seen until a daemon starts or a stop
\* is asked for: its own finally clause does not overwrite it.
ErrorStays ==
  [][~tangled /\ row.status = "error" /\ row'.status = "stopped" =>
       \E r \in Requesters : requester[r] = "say stopped"]_vars

\* A stop file is heard by a daemon that is in its loop: it leaves it.
StopIsHeard ==
  \A d \in Daemons :
    (stop /\ ~tangled /\ daemon[d] \in InLoop) ~> (tangled \/ daemon[d] \notin InLoop)

\* What the guide says of quitting: a request that finds a daemon's lock stops
\* that daemon.
StopRequestObeyed ==
  \A d \in Daemons, r \in Requesters :
    (~tangled /\ requester[r] = "say stopping" /\ daemon[d] \in Running /\ LockPid = d)
      ~> (daemon[d] = "gone")
=============================================================================
