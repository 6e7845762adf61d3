------------------------------ MODULE Watcher -------------------------------
(***************************************************************************)
(* How the daemon gets changes of one protected folder into snapshots:     *)
(* daemon._run_watch_loop on the main thread, watchdog's observer thread   *)
(* that calls watcher.SafeVaultEventHandler, and the threads of its        *)
(* debounce timers, which all want SQLite's writer lock.                   *)
(*                                                                         *)
(* Changes are numbered; a snapshot holds every change made before it      *)
(* began (module Vault has its inside).  Which file changed and how, the   *)
(* alarms about mass changes and the deletion markers are left out: they   *)
(* choose a reason or write rows, and matter here only because writing     *)
(* rows can fail when the database is busy.                                *)
(***************************************************************************)
EXTENDS Integers, FiniteSets

CONSTANTS
  Flushers,   \* bound: timer threads that can be alive at once
  MaxEdits    \* bound: changes made to the folder

ASSUME FlushersAreThreads == {"free", "main", "other"} \cap Flushers = {}

ASSUME MaxEditsIsNatural == MaxEdits \in Nat

VARIABLES
  edits,      \* changes made to the folder
  queue,      \* changes whose event is in watchdog's queue
  observer,   \* watchdog's thread: "off", "alive", or "dead" of an exception
  scheduled,  \* the observer has a handler for the folder
  noting,     \* the handler's lock is held by note_event
  pending,    \* the handler's flag: something to flush
  autoFlush,  \* the handler's flag: events arm the timer
  timers,     \* how many timers of the handler are running
  flusher,    \* timer thread -> where it is in flush
  batch,      \* timer thread -> the last change noted before it took the flag
  main,       \* where the main thread is
  began,      \* thread -> changes made before its snapshot began
  writer,     \* who holds SQLite's writer lock
  saved,      \* changes that a complete snapshot holds
  noted,      \* history: the last change whose event was noted
  lost,       \* history: the last change whose flush failed, or that a
              \* scan should have found and did not take place
  watchable,  \* the policy: enabled, not paused, its folder there and safe
  hourly      \* the configuration: scheduled snapshots are on

dbVars == <<began, writer, saved>>
handlerVars == <<noting, pending, autoFlush, timers>>
flushVars == <<flusher, batch, lost>>
configVars == <<watchable, hourly>>
vars == <<edits, queue, observer, scheduled, noting, pending, autoFlush, timers,
          flusher, batch, main, began, writer, saved, noted, lost, watchable,
          hourly>>

Change == 0..MaxEdits

Latest(m, n) == IF m < n THEN n ELSE m

\* "snap" stands for a snapshot in progress, named by what called for it.
MainStates == {"dead", "scan", "scanSnap", "scanned", "arm", "loop",
               "hourlySnap", "stopHandler", "add", "addSnap"}

TypeOK ==
  /\ edits \in Change
  /\ queue \in SUBSET (1..MaxEdits)
  /\ observer \in {"off", "alive", "dead"}
  /\ scheduled \in BOOLEAN /\ noting \in BOOLEAN
  /\ pending \in BOOLEAN /\ autoFlush \in BOOLEAN
  /\ watchable \in BOOLEAN /\ hourly \in BOOLEAN
  /\ timers \in 0..1
  /\ flusher \in [Flushers -> {"idle", "fired", "ready", "snap"}]
  /\ batch \in [Flushers -> Change]
  /\ main \in MainStates
  /\ began \in [Flushers \cup {"main"} -> Change]
  /\ writer \in {"free", "main", "other"} \cup Flushers
  /\ saved \in Change /\ noted \in Change /\ lost \in Change

-----------------------------------------------------------------------------
(* The user, and other processes on the same database.                     *)

Edit ==
  /\ edits < MaxEdits
  /\ edits' = edits + 1
  /\ queue' = IF scheduled /\ observer = "alive"
              THEN queue \cup {edits + 1} ELSE queue
  /\ UNCHANGED <<observer, scheduled, handlerVars, flushVars, main, dbVars,
                 noted, configVars>>

PauseOrResume ==
  /\ watchable' = ~watchable
  /\ UNCHANGED <<edits, queue, observer, scheduled, handlerVars, flushVars, main,
                 dbVars, noted, hourly>>

OtherWrites ==
  /\ writer = "free"
  /\ writer' = "other"
  /\ UNCHANGED <<edits, queue, observer, scheduled, handlerVars, flushVars, main,
                 began, saved, noted, configVars>>

OtherCommits ==
  /\ writer = "other"
  /\ writer' = "free"
  /\ UNCHANGED <<edits, queue, observer, scheduled, handlerVars, flushVars, main,
                 began, saved, noted, configVars>>

-----------------------------------------------------------------------------
(* Snapshots, whichever thread takes them.                                 *)

BeginSnapshot(t) ==
  /\ writer = "free"
  /\ writer' = t
  /\ began' = [began EXCEPT ![t] = edits]
  /\ UNCHANGED saved

CompleteSnapshot(t) ==
  /\ writer' = "free"
  /\ saved' = Latest(saved, began[t])
  /\ UNCHANGED began

\* The lock is held by somebody else for longer than the busy timeout.
Busy(t) == writer \notin {"free", t}

-----------------------------------------------------------------------------
(* The observer thread.                                                    *)

NextEvent == CHOOSE e \in queue : \A f \in queue : e <= f

\* note_event takes the handler's lock and keeps it while it records deletions
\* and warns.
NoteEvent ==
  /\ observer = "alive"
  /\ queue # {}
  /\ ~noting
  /\ noting' = TRUE
  /\ pending' = TRUE
  /\ noted' = NextEvent
  /\ queue' = queue \ {NextEvent}
  /\ UNCHANGED <<edits, observer, scheduled, autoFlush, timers, flushVars, main,
                 dbVars, configVars>>

\* Mutant: the timer that runs is not cancelled.
NoteDoneUncancelled ==
  /\ noting
  /\ noting' = FALSE
  /\ timers' = IF autoFlush THEN timers + 1 ELSE timers
  /\ UNCHANGED <<edits, queue, observer, scheduled, pending, autoFlush, flushVars,
                 main, dbVars, noted, configVars>>

\* _schedule_timer cancels the timer that runs and starts a new one.
NoteDone ==
  /\ noting
  /\ noting' = FALSE
  /\ timers' = IF autoFlush THEN 1 ELSE timers
  /\ UNCHANGED <<edits, queue, observer, scheduled, pending, autoFlush, flushVars,
                 main, dbVars, noted, configVars>>

\* on_any_event records a move before it notes it; an exception of the busy
\* database leaves the callback and ends the thread.
MoveFails ==
  /\ observer = "alive"
  /\ queue # {}
  /\ ~noting
  /\ Busy("observer")
  /\ observer' = "dead"
  /\ queue' = queue \ {NextEvent}
  /\ UNCHANGED <<edits, scheduled, handlerVars, flushVars, main, dbVars, noted,
                 configVars>>

\* So does a warning about mass changes, which is written inside note_event.
WarningFails ==
  /\ noting
  /\ Busy("observer")
  /\ noting' = FALSE
  /\ observer' = "dead"
  /\ UNCHANGED <<edits, queue, scheduled, pending, autoFlush, timers, flushVars,
                 main, dbVars, noted, configVars>>

-----------------------------------------------------------------------------
(* The timer threads.                                                      *)

TimerFires(t) ==
  /\ timers > 0
  /\ flusher[t] = "idle"
  /\ timers' = timers - 1
  /\ flusher' = [flusher EXCEPT ![t] = "fired"]
  /\ UNCHANGED <<edits, queue, observer, scheduled, noting, pending, autoFlush,
                 batch, lost, main, dbVars, noted, configVars>>

\* Mutant: a flush gives way to one that is under way.
TakePendingUnlessBusy(t) ==
  /\ flusher[t] = "fired"
  /\ ~noting
  /\ pending' = FALSE
  /\ flusher' = [flusher EXCEPT ![t] =
       IF pending /\ \A u \in Flushers : flusher[u] # "snap" THEN "ready" ELSE "idle"]
  /\ batch' = [batch EXCEPT ![t] = noted]
  /\ UNCHANGED <<edits, queue, observer, scheduled, noting, autoFlush, timers,
                 lost, main, dbVars, noted, configVars>>

\* flush, up to the end of its critical section.
TakePending(t) ==
  /\ flusher[t] = "fired"
  /\ ~noting
  /\ pending' = FALSE
  /\ flusher' = [flusher EXCEPT ![t] = IF pending THEN "ready" ELSE "idle"]
  /\ batch' = [batch EXCEPT ![t] = noted]
  /\ UNCHANGED <<edits, queue, observer, scheduled, noting, autoFlush, timers,
                 lost, main, dbVars, noted, configVars>>

BeginFlush(t) ==
  /\ flusher[t] = "ready"
  /\ BeginSnapshot(t)
  /\ flusher' = [flusher EXCEPT ![t] = "snap"]
  /\ UNCHANGED <<edits, queue, observer, scheduled, handlerVars, batch, lost,
                 main, noted, configVars>>

EndFlush(t) ==
  /\ flusher[t] = "snap"
  /\ CompleteSnapshot(t)
  /\ flusher' = [flusher EXCEPT ![t] = "idle"]
  /\ UNCHANGED <<edits, queue, observer, scheduled, handlerVars, batch, lost,
                 main, noted, configVars>>

\* An exception of create_snapshot, or a busy database, ends the timer's thread;
\* the flag is gone and nobody tries again.
FlushFails(t) ==
  /\ \/ flusher[t] = "snap"
     \/ flusher[t] = "ready" /\ Busy(t)
  /\ flusher' = [flusher EXCEPT ![t] = "idle"]
  /\ lost' = Latest(lost, batch[t])
  /\ writer' = IF writer = t THEN "free" ELSE writer
  /\ UNCHANGED <<edits, queue, observer, scheduled, handlerVars, batch, main,
                 began, saved, noted, configVars>>

-----------------------------------------------------------------------------
(* The main thread.                                                        *)

\* A new handler.
NewHandler(auto) ==
  /\ scheduled' = TRUE
  /\ pending' = FALSE
  /\ autoFlush' = auto

\* The daemon starts (again): the handler first, then the startup scan.
Start ==
  /\ main = "dead"
  /\ main' = "scan"
  /\ observer' = "alive"
  /\ IF watchable THEN NewHandler(FALSE) ELSE UNCHANGED <<scheduled, pending, autoFlush>>
  /\ UNCHANGED <<edits, queue, noting, timers, flushVars, dbVars, noted,
                 configVars>>

MainBegins(from, to) ==
  /\ main = from
  /\ main' = to
  /\ BeginSnapshot("main")
  /\ UNCHANGED <<edits, queue, observer, scheduled, handlerVars, flushVars, noted,
                 configVars>>

MainCompletes(from, to) ==
  /\ main = from
  /\ main' = to
  /\ CompleteSnapshot("main")
  /\ UNCHANGED <<edits, queue, observer, scheduled, handlerVars, flushVars, noted,
                 configVars>>

BeginScan == watchable /\ MainBegins("scan", "scanSnap")
EndScan == MainCompletes("scanSnap", "scanned")

\* The scan asks for the policies again: a folder paused meanwhile is left out,
\* and what changed before the daemon started is not looked for.
SkipScan ==
  /\ main = "scan"
  /\ ~watchable
  /\ main' = "scanned"
  /\ lost' = edits
  /\ UNCHANGED <<edits, queue, observer, scheduled, handlerVars, flusher, batch,
                 dbVars, noted, configVars>>

\* Mutant: what is pending by now is not looked at.
EnableAutoFlushOnly ==
  /\ main = "scanned"
  /\ ~noting
  /\ autoFlush' = TRUE
  /\ main' = "loop"
  /\ UNCHANGED <<edits, queue, observer, scheduled, noting, pending, timers,
                 flushVars, dbVars, noted, configVars>>

\* Other folders are scanned in between.  The timer is armed outside the
\* handler's lock; two timers at once would only flush earlier.
EnableAutoFlush ==
  /\ main = "scanned"
  /\ ~noting
  /\ autoFlush' = TRUE
  /\ main' = IF pending THEN "arm" ELSE "loop"
  /\ UNCHANGED <<edits, queue, observer, scheduled, noting, pending, timers,
                 flushVars, dbVars, noted, configVars>>

ArmTimer ==
  /\ main = "arm"
  /\ main' = "loop"
  /\ timers' = 1
  /\ UNCHANGED <<edits, queue, observer, scheduled, noting, pending, autoFlush,
                 flushVars, dbVars, noted, configVars>>

\* _run_due_snapshots, when one is due.
BeginHourly == hourly /\ watchable /\ MainBegins("loop", "hourlySnap")
EndHourly == MainCompletes("hourlySnap", "loop")

\* A policy refresh finds the folder paused: unschedule stops the timers, ...
StopHandler ==
  /\ main = "loop"
  /\ scheduled /\ ~watchable
  /\ main' = "stopHandler"
  /\ timers' = 0
  /\ UNCHANGED <<edits, queue, observer, scheduled, noting, pending, autoFlush,
                 flushVars, dbVars, noted, configVars>>

\* ... and, once the observer is not dispatching, takes the handler away.
Unschedule ==
  /\ main = "stopHandler"
  /\ ~noting
  /\ main' = "loop"
  /\ scheduled' = FALSE
  /\ queue' = {}
  /\ UNCHANGED <<edits, observer, handlerVars, flushVars, dbVars, noted,
                 configVars>>

\* Mutant: the folder is watched again and not scanned.
ScheduleOnly ==
  /\ main = "loop"
  /\ watchable /\ ~scheduled
  /\ main' = "loop"
  /\ NewHandler(TRUE)
  /\ UNCHANGED <<edits, queue, observer, noting, timers, flushVars, dbVars, noted,
                 configVars>>

\* A policy refresh finds it watchable again: watch first, then scan.  (What a
\* leaked timer of the old handler would flush is left out.)
Schedule ==
  /\ main = "loop"
  /\ watchable /\ ~scheduled
  /\ main' = "add"
  /\ NewHandler(TRUE)
  /\ UNCHANGED <<edits, queue, observer, noting, timers, flushVars, dbVars, noted,
                 configVars>>

BeginAdd == MainBegins("add", "addSnap")
EndAdd == MainCompletes("addSnap", "loop")

\* The process ends and its threads with it; SQLite rolls back.
Exit ==
  /\ main' = "dead"
  /\ observer' = "off"
  /\ scheduled' = FALSE
  /\ noting' = FALSE
  /\ pending' = FALSE
  /\ timers' = 0
  /\ queue' = {}
  /\ flusher' = [t \in Flushers |-> "idle"]
  /\ writer' = IF writer = "other" THEN "other" ELSE "free"
  /\ UNCHANGED <<edits, autoFlush, batch, began, saved, noted, lost, configVars>>

\* A stop request, a kill, or an exception that leaves _run_watch_loop.
Stop == main # "dead" /\ Exit

\* The heartbeat, the notifications, the batches and the snapshots of the main
\* thread all write: a busy database ends the daemon.
BusyStop == main # "dead" /\ Busy("main") /\ Exit

-----------------------------------------------------------------------------
Init ==
  /\ edits = 0
  /\ queue = {}
  /\ observer = "off"
  /\ scheduled = FALSE
  /\ noting = FALSE
  /\ pending = FALSE
  /\ autoFlush = FALSE
  /\ timers = 0
  /\ flusher = [t \in Flushers |-> "idle"]
  /\ batch = [t \in Flushers |-> 0]
  /\ main = "dead"
  /\ began = [t \in Flushers \cup {"main"} |-> 0]
  /\ writer = "free"
  /\ saved = 0
  /\ noted = 0
  /\ lost = 0
  /\ watchable = TRUE
  /\ hourly \in BOOLEAN

Observe == NoteEvent \/ NoteDone \/ MoveFails \/ WarningFails

Flush(t) ==
  \/ TakePending(t)
  \/ BeginFlush(t)
  \/ EndFlush(t)
  \/ FlushFails(t)

Main ==
  \/ BeginScan \/ SkipScan \/ EndScan
  \/ EnableAutoFlush \/ ArmTimer
  \/ StopHandler \/ Unschedule
  \/ Schedule \/ BeginAdd \/ EndAdd
  \/ EndHourly

Next ==
  \/ Edit
  \/ PauseOrResume
  \/ OtherWrites
  \/ OtherCommits
  \/ Observe
  \/ \E t \in Flushers : TimerFires(t) \/ Flush(t)
  \/ Start
  \/ Main
  \/ BeginHourly
  \/ Stop
  \/ BusyStop

\* Every thread goes on: it gets the lock it waits for or gives up when the
\* busy timeout is over; timers fire; whoever holds the lock ends; and while
\* the loop runs, the hour that makes a scheduled snapshot due comes.
Fairness ==
  /\ WF_vars(OtherCommits)
  /\ WF_vars(Observe)
  /\ WF_vars(\E t \in Flushers : TimerFires(t))
  /\ \A t \in Flushers : WF_vars(Flush(t))
  /\ WF_vars(Main \/ BusyStop)
  /\ WF_vars(BeginHourly \/ BusyStop)

Spec == Init /\ [][Next]_vars /\ Fairness

-----------------------------------------------------------------------------
\* A snapshot of t that has begun, or is going to, after change e.
Covers(t, e) == flusher[t] = "ready" \/ (flusher[t] = "snap" /\ e <= began[t])

MainCovers(e) ==
  \/ main \in {"scan", "add"}
  \/ main \in {"scanSnap", "hourlySnap", "addSnap"} /\ e <= began["main"]

\* While the folder is watched, a change that no complete snapshot holds is on
\* its way into one: its event is queued, or the handler's flag is set, or a
\* snapshot that includes it is under way, unless its flush has failed or the
\* observer is dead.  Scanning after watching, and the order in which flush
\* clears its flag and takes the snapshot, are what this rests on.
NoChangeForgotten ==
  scheduled => \A e \in (saved + 1)..edits :
    \/ e \in queue
    \/ pending
    \/ \E t \in Flushers : Covers(t, e)
    \/ MainCovers(e)
    \/ e <= lost
    \/ observer = "dead"

\* A set flag has a timer running, or somebody about to start one or to take the
\* flag: also when the flag was set while the startup scan kept timers off.
PendingIsFlushed ==
  pending /\ autoFlush /\ scheduled =>
    \/ timers > 0 \/ noting
    \/ \E t \in Flushers : flusher[t] = "fired"
    \/ main \in {"arm", "stopHandler"}
    \/ observer = "dead"

\* Every change ends up in a complete snapshot, as long as the daemon runs and
\* the folder is not paused.  Scheduled snapshots make up for flushes that fail
\* and for a dead observer; without them those changes wait for the next one.
EveryChangeSaved ==
  \A e \in 1..MaxEdits :
    edits >= e ~> \/ saved >= e
                  \/ main = "dead"
                  \/ ~watchable
                  \/ ~hourly /\ (lost >= e \/ observer = "dead")

\* What daemon.py says of its callbacks: "a temporary database lock must not
\* terminate watchdog's observer thread".
ObserverSurvivesBusyDatabase == observer # "dead"
=============================================================================
