---------------------------- MODULE WatcherProofs ---------------------------
(***************************************************************************)
(* Proofs about module Watcher, for every number of timer threads and of   *)
(* changes.                                                                *)
(***************************************************************************)
EXTENDS Watcher, WellFoundedInduction, TLAPS

\* Events are noted in the order of the changes: what is in the queue comes after
\* what has been noted.
QueueInv == noted <= edits /\ \A e \in queue : noted < e /\ e <= edits

\* A handler needs a process, and a process has its observer thread.
RunInv == (scheduled => main # "dead") /\ (main # "dead" => observer # "off")

\* Change e is on its way: NoChangeForgotten with the flag and the flushes counted
\* only for changes that had been noted when the flag was set or taken, since no
\* more than those is given up when a flush fails.
OnItsWay(e) ==
  \/ e \in queue
  \/ pending /\ e <= noted
  \/ \E t \in Flushers : e <= batch[t] /\ Covers(t, e)
  \/ MainCovers(e)
  \/ e <= lost
  \/ observer = "dead"

WayInv == scheduled => \A e \in (saved + 1)..edits : OnItsWay(e)

WatcherInv == TypeOK /\ QueueInv /\ RunInv /\ WayInv /\ PendingIsFlushed

-----------------------------------------------------------------------------
(* Operators.                                                              *)

LEMMA LatestIs ==
  ASSUME NEW m \in Change, NEW n \in Change
  PROVE  /\ Latest(m, n) \in Change
         /\ m <= Latest(m, n) /\ n <= Latest(m, n)
  BY MaxEditsIsNatural DEF Latest, Change

LEMMA IntervalIs ==
  ASSUME NEW a \in Int, NEW b \in Int, NEW c \in (a + 1)..b
  PROVE  c \in Int /\ a < c /\ c <= b
  OBVIOUS

\* The next event is the earliest in the queue.
LEMMA NextEventIs ==
  ASSUME TypeOK, queue # {}
  PROVE  /\ NextEvent \in queue
         /\ \A e \in queue : NextEvent <= e
<1>1. queue \in SUBSET Nat
  BY MaxEditsIsNatural DEF TypeOK
<1>2. PICK e \in queue : \A f \in queue : ~(<<f, e>> \in OpToRel(<, Nat))
  BY <1>1, NatLessThanWellFounded, WFMin
<1>3. ASSUME NEW f \in queue PROVE e <= f
  <2>1. <<f, e>> \in Nat \X Nat /\ <<f, e>>[1] = f /\ <<f, e>>[2] = e
    BY <1>1
  <2>2. ~(f < e)
    BY <1>2, <2>1 DEF OpToRel
  <2>3. QED
    BY <1>1, <2>2
<1>4. QED
  BY <1>3 DEF NextEvent

-----------------------------------------------------------------------------
(* Types.                                                                  *)

LEMMA InitType == Init => TypeOK
<1> SUFFICES ASSUME Init PROVE TypeOK
  OBVIOUS
<1>1. 0 \in Change
  BY MaxEditsIsNatural DEF Change
<1>2. flusher \in [Flushers -> {"idle", "fired", "ready", "snap"}]
  BY DEF Init
<1>3. batch \in [Flushers -> Change] /\ began \in [Flushers \cup {"main"} -> Change]
  BY <1>1 DEF Init
<1>4. timers \in 0..1 /\ queue \in SUBSET (1..MaxEdits)
  BY DEF Init
<1>5. QED
  BY <1>1, <1>2, <1>3, <1>4 DEF Init, TypeOK, MainStates

LEMMA TypeStep == TypeOK /\ [Next]_vars => TypeOK'
<1> SUFFICES ASSUME TypeOK, [Next]_vars PROVE TypeOK'
  OBVIOUS
<1>0. Change \subseteq Int /\ 0 \in Change
  BY MaxEditsIsNatural DEF Change
<1>a. queue # {} => NextEvent \in Change
  <2>1. queue # {} => NextEvent \in queue
    BY NextEventIs
  <2>2. queue \subseteq 1..MaxEdits /\ 1..MaxEdits \subseteq Change
    BY MaxEditsIsNatural DEF TypeOK, Change
  <2>3. QED
    BY <2>1, <2>2
<1>b. 0 \in 0..1 /\ 1 \in 0..1
  OBVIOUS
<1> USE FlushersAreThreads DEF TypeOK
<1>1. CASE Edit
  BY <1>1, MaxEditsIsNatural DEF Edit, Change, handlerVars, flushVars, dbVars, configVars
<1>2. CASE PauseOrResume \/ OtherWrites \/ OtherCommits
  BY <1>2 DEF PauseOrResume, OtherWrites, OtherCommits, handlerVars, flushVars, dbVars,
     configVars
<1>3. CASE Observe
  <2>2. CASE NoteEvent
    BY <1>a, <2>2 DEF NoteEvent, flushVars, dbVars, configVars
  <2>3. CASE NoteDone
    <3>1. timers' \in 0..1
      BY <1>b, <2>3 DEF NoteDone
    <3>2. QED
      BY <2>3, <3>1 DEF NoteDone, flushVars, dbVars, configVars
  <2>4. CASE MoveFails \/ WarningFails
    BY <2>4 DEF MoveFails, WarningFails, handlerVars, flushVars, dbVars, configVars
  <2>5. QED
    BY <1>3, <2>2, <2>3, <2>4 DEF Observe
<1>4. ASSUME NEW t \in Flushers, TimerFires(t) \/ Flush(t)
      PROVE  TypeOK'
  <2>1. CASE TimerFires(t)
    BY <2>1 DEF TimerFires, dbVars, configVars
  <2>2. CASE TakePending(t)
    BY <2>2 DEF TakePending, dbVars, configVars
  <2>3. CASE BeginFlush(t)
    BY <2>3 DEF BeginFlush, BeginSnapshot, handlerVars, configVars
  <2>4. CASE EndFlush(t)
    BY <2>4, LatestIs DEF EndFlush, CompleteSnapshot, handlerVars, configVars
  <2>5. CASE FlushFails(t)
    BY <2>5, LatestIs DEF FlushFails, handlerVars, configVars
  <2>6. QED
    BY <1>4, <2>1, <2>2, <2>3, <2>4, <2>5 DEF Flush
<1>5. CASE Start
  BY <1>5 DEF Start, NewHandler, flushVars, dbVars, configVars, MainStates
<1>6. ASSUME NEW from, NEW to \in MainStates, MainBegins(from, to)
      PROVE  TypeOK'
  BY <1>6 DEF MainBegins, BeginSnapshot, handlerVars, flushVars, configVars
<1>7. ASSUME NEW from, NEW to \in MainStates, MainCompletes(from, to)
      PROVE  TypeOK'
  BY <1>7, LatestIs DEF MainCompletes, CompleteSnapshot, handlerVars, flushVars, configVars
<1>8. CASE Main \/ BeginHourly
  <2>1. CASE BeginScan \/ EndScan \/ BeginAdd \/ EndAdd \/ EndHourly \/ BeginHourly
    BY <2>1, <1>6, <1>7 DEF BeginScan, EndScan, BeginAdd, EndAdd, EndHourly, BeginHourly,
       MainStates
  <2>2. CASE SkipScan
    BY <2>2 DEF SkipScan, MainStates, handlerVars, dbVars, configVars
  <2>3. CASE EnableAutoFlush
    <3>1. main' \in MainStates
      BY <2>3 DEF EnableAutoFlush, MainStates
    <3>2. QED
      BY <2>3, <3>1 DEF EnableAutoFlush, flushVars, dbVars, configVars
  <2>4. CASE ArmTimer
    BY <1>b, <2>4 DEF ArmTimer, MainStates, flushVars, dbVars, configVars
  <2>5. CASE StopHandler
    BY <1>b, <2>5 DEF StopHandler, MainStates, flushVars, dbVars, configVars
  <2>6. CASE Unschedule
    BY <2>6 DEF Unschedule, MainStates, handlerVars, flushVars, dbVars, configVars
  <2>7. CASE Schedule
    BY <2>7 DEF Schedule, NewHandler, MainStates, flushVars, dbVars, configVars
  <2>8. QED
    BY <1>8, <2>1, <2>2, <2>3, <2>4, <2>5, <2>6, <2>7 DEF Main
<1>9. CASE Stop \/ BusyStop
  <2>1. Exit
    BY <1>9 DEF Stop, BusyStop
  <2>2. writer' \in {"free", "main", "other"} \cup Flushers
    BY <2>1 DEF Exit
  <2>3. flusher' \in [Flushers -> {"idle", "fired", "ready", "snap"}]
    BY <2>1 DEF Exit
  <2>4. timers' \in 0..1 /\ main' \in MainStates /\ queue' \in SUBSET (1..MaxEdits)
    BY <1>b, <2>1 DEF Exit, MainStates
  <2>5. QED
    BY <2>1, <2>2, <2>3, <2>4 DEF Exit, configVars
<1>10. CASE UNCHANGED vars
  BY <1>10 DEF vars
<1>11. QED
  BY <1>1, <1>2, <1>3, <1>4, <1>5, <1>8, <1>9, <1>10 DEF Next

-----------------------------------------------------------------------------
(* The queue and the process.                                              *)

LEMMA QueueStep == TypeOK /\ QueueInv /\ [Next]_vars => QueueInv'
<1> SUFFICES ASSUME TypeOK, QueueInv, [Next]_vars PROVE QueueInv'
  OBVIOUS
<1>0. edits \in Nat /\ noted \in Int /\ queue \subseteq Int
  BY MaxEditsIsNatural DEF TypeOK, Change
<1>1. CASE Edit
  BY <1>0, <1>1 DEF Edit, QueueInv
<1>2. CASE NoteEvent
  <2>1. NextEvent \in queue /\ \A e \in queue : NextEvent <= e
    BY <1>2, NextEventIs DEF NoteEvent
  <2>2. QED
    BY <1>0, <1>2, <2>1 DEF NoteEvent, QueueInv
<1>3. CASE UNCHANGED <<edits, noted>> /\ queue' \subseteq queue
  BY <1>3 DEF QueueInv
<1>4. CASE Observe
  BY <1>2, <1>3, <1>4 DEF Observe, NoteDone, MoveFails, WarningFails
<1>5. ASSUME NEW t \in Flushers, TimerFires(t) \/ Flush(t)
      PROVE  QueueInv'
  BY <1>3, <1>5 DEF TimerFires, Flush, TakePending, BeginFlush, EndFlush, FlushFails
<1>6. CASE Start \/ BeginHourly \/ EndHourly
  BY <1>3, <1>6 DEF Start, BeginHourly, EndHourly, MainBegins, MainCompletes
<1>7. CASE BeginScan \/ SkipScan \/ EndScan \/ BeginAdd \/ EndAdd
  BY <1>3, <1>7 DEF BeginScan, SkipScan, EndScan, BeginAdd, EndAdd, MainBegins,
     MainCompletes
<1>8. CASE EnableAutoFlush \/ ArmTimer \/ StopHandler \/ Unschedule \/ Schedule
  BY <1>3, <1>8 DEF EnableAutoFlush, ArmTimer, StopHandler, Unschedule, Schedule
<1>9. CASE Stop \/ BusyStop
  BY <1>3, <1>9 DEF Stop, BusyStop, Exit
<1>10. CASE PauseOrResume \/ OtherWrites \/ OtherCommits \/ UNCHANGED vars
  BY <1>3, <1>10 DEF PauseOrResume, OtherWrites, OtherCommits, vars
<1>11. QED
  BY <1>1, <1>4, <1>5, <1>6, <1>7, <1>8, <1>9, <1>10 DEF Next, Main

LEMMA RunStep == RunInv /\ [Next]_vars => RunInv'
<1> SUFFICES ASSUME RunInv, [Next]_vars PROVE RunInv'
  OBVIOUS
<1>1. CASE UNCHANGED <<scheduled, main, observer>>
  BY <1>1 DEF RunInv
<1>2. CASE Edit \/ PauseOrResume \/ OtherWrites \/ OtherCommits \/ UNCHANGED vars
  BY <1>1, <1>2 DEF Edit, PauseOrResume, OtherWrites, OtherCommits, vars
<1>3. CASE Observe
  BY <1>3 DEF Observe, NoteEvent, NoteDone, MoveFails, WarningFails, RunInv
<1>4. ASSUME NEW t \in Flushers, TimerFires(t) \/ Flush(t)
      PROVE  RunInv'
  BY <1>1, <1>4 DEF TimerFires, Flush, TakePending, BeginFlush, EndFlush, FlushFails
<1>5. CASE Start
  BY <1>5 DEF Start, NewHandler, RunInv
<1>6. CASE BeginScan \/ EndScan \/ BeginAdd \/ EndAdd \/ BeginHourly \/ EndHourly
  BY <1>6 DEF BeginScan, EndScan, BeginAdd, EndAdd, BeginHourly, EndHourly, MainBegins,
     MainCompletes, RunInv
<1>7. CASE SkipScan \/ EnableAutoFlush \/ ArmTimer \/ StopHandler \/ Unschedule
  BY <1>7 DEF SkipScan, EnableAutoFlush, ArmTimer, StopHandler, Unschedule, RunInv
<1>8. CASE Schedule
  BY <1>8 DEF Schedule, NewHandler, RunInv
<1>9. CASE Stop \/ BusyStop
  BY <1>9 DEF Stop, BusyStop, Exit, RunInv
<1>10. QED
  BY <1>2, <1>3, <1>4, <1>5, <1>6, <1>7, <1>8, <1>9 DEF Next, Main

-----------------------------------------------------------------------------
(* No change is forgotten.                                                 *)

\* A change on its way, in a step that takes nothing from its way, stays on it.
LEMMA StaysOnItsWay ==
  ASSUME NEW e, OnItsWay(e),
         UNCHANGED <<pending, noted, flusher, batch, began, lost>>,
         e \in queue => e \in queue',
         MainCovers(e) => MainCovers(e)',
         observer = "dead" => observer' = "dead"
  PROVE  OnItsWay(e)'
  BY DEF OnItsWay, Covers

\* The observer's steps.
LEMMA ObserveKeepsWay ==
  ASSUME TypeOK, QueueInv, NEW e \in Int, OnItsWay(e), Observe
  PROVE  OnItsWay(e)'
<1>0. noted \in Int /\ queue \subseteq Int
  BY MaxEditsIsNatural DEF TypeOK, Change
<1>1. CASE NoteEvent
  <2>1. NextEvent \in queue /\ noted < NextEvent /\ noted' = NextEvent
    BY <1>1, NextEventIs DEF NoteEvent, QueueInv
  <2>2. UNCHANGED <<flusher, batch, began, lost, main, observer>>
    BY <1>1 DEF NoteEvent, flushVars, dbVars
  <2>3. pending' /\ queue' = queue \ {NextEvent}
    BY <1>1 DEF NoteEvent
  <2>4. CASE e \in queue
    BY <1>0, <2>1, <2>3, <2>4 DEF OnItsWay
  <2>5. CASE pending /\ e <= noted
    BY <1>0, <2>1, <2>3, <2>5 DEF OnItsWay
  <2>6. CASE (\E t \in Flushers : e <= batch[t] /\ Covers(t, e)) \/ MainCovers(e)
             \/ e <= lost \/ observer = "dead"
    BY <2>2, <2>6 DEF OnItsWay, Covers, MainCovers
  <2>7. QED
    BY <2>4, <2>5, <2>6 DEF OnItsWay
<1>2. CASE NoteDone
  BY <1>2, StaysOnItsWay DEF NoteDone, flushVars, dbVars, MainCovers
<1>3. CASE MoveFails \/ WarningFails
  BY <1>3 DEF MoveFails, WarningFails, OnItsWay
<1>4. QED
  BY <1>1, <1>2, <1>3 DEF Observe

\* The timers' steps: a change whose flush begins or fails, and one that is not
\* yet saved when a flush ends.
LEMMA FlushKeepsWay ==
  ASSUME TypeOK, NEW e \in Int, e <= edits, OnItsWay(e),
         NEW t \in Flushers, TimerFires(t) \/ Flush(t), saved' < e
  PROVE  OnItsWay(e)'
<1>0. /\ flusher \in [Flushers -> {"idle", "fired", "ready", "snap"}]
      /\ batch \in [Flushers -> Change] /\ began \in [Flushers \cup {"main"} -> Change]
      /\ saved \in Change /\ lost \in Change /\ edits \in Change /\ noted \in Change
  BY DEF TypeOK
<1>1. /\ Change \subseteq Int
      /\ batch[t] \in Change /\ batch[t] \in Int
      /\ began[t] \in Change /\ began[t] \in Int
  BY <1>0, MaxEditsIsNatural DEF Change
<1>2. t # "main"
  BY FlushersAreThreads
<1>3. UNCHANGED <<queue, observer, main, noted>>
  BY DEF TimerFires, Flush, TakePending, BeginFlush, EndFlush, FlushFails
<1>4. UNCHANGED began["main"] /\ (MainCovers(e) => MainCovers(e)')
  <2>1. UNCHANGED began["main"]
    BY <1>0, <1>2 DEF TimerFires, Flush, TakePending, BeginFlush, EndFlush, FlushFails,
       dbVars, BeginSnapshot, CompleteSnapshot
  <2>2. QED
    BY <1>3, <2>1 DEF MainCovers
<1>5. lost' = lost \/ (FlushFails(t) /\ lost' = Latest(lost, batch[t]))
  BY DEF TimerFires, Flush, TakePending, BeginFlush, EndFlush, FlushFails
<1>6. lost <= lost' /\ (FlushFails(t) => batch[t] <= lost')
  <2>1. lost <= Latest(lost, batch[t]) /\ batch[t] <= Latest(lost, batch[t])
    BY <1>0, <1>1, LatestIs
  <2>2. FlushFails(t) => lost' = Latest(lost, batch[t])
    BY DEF FlushFails
  <2>3. QED
    BY <1>0, <1>1, <1>5, <2>1, <2>2
<1>7. lost' \in Int
  BY <1>0, <1>1, <1>5, LatestIs
<1>8. CASE e \in queue \/ MainCovers(e) \/ e <= lost \/ observer = "dead"
  BY <1>0, <1>1, <1>3, <1>4, <1>6, <1>7, <1>8 DEF OnItsWay
<1>9. CASE pending /\ e <= noted
  <2>1. CASE TakePending(t)
    <3>1. flusher'[t] = "ready" /\ batch'[t] = noted
      BY <1>0, <1>9, <2>1 DEF TakePending
    <3>2. QED
      BY <1>9, <3>1 DEF OnItsWay, Covers
  <2>2. CASE ~TakePending(t)
    BY <1>3, <1>9, <2>2 DEF TimerFires, Flush, BeginFlush, EndFlush, FlushFails,
       handlerVars, OnItsWay
  <2>3. QED
    BY <2>1, <2>2
<1>10. ASSUME NEW u \in Flushers, e <= batch[u], Covers(u, e)
       PROVE  OnItsWay(e)'
  <2>1. CASE u # t
    <3>1. UNCHANGED <<flusher[u], batch[u], began[u]>>
      BY <1>0, <2>1 DEF TimerFires, Flush, TakePending, BeginFlush, EndFlush,
         FlushFails, dbVars, BeginSnapshot, CompleteSnapshot
    <3>2. QED
      BY <1>10, <3>1 DEF OnItsWay, Covers
  <2>2. CASE u = t
    <3>1. CASE TimerFires(t) \/ TakePending(t)
      BY <1>10, <2>2, <3>1 DEF TimerFires, TakePending, Covers
    <3>2. CASE BeginFlush(t)
      <4>1. flusher'[t] = "snap" /\ began'[t] = edits /\ batch' = batch
        BY <1>0, <3>2 DEF BeginFlush, BeginSnapshot
      <4>2. QED
        BY <1>10, <2>2, <4>1 DEF OnItsWay, Covers
    <3>3. CASE EndFlush(t)
      <4>1. e <= began[t]
        BY <1>10, <2>2, <3>3 DEF EndFlush, Covers
      <4>2. began[t] <= saved' /\ saved' \in Int
        BY <1>0, <1>1, <3>3, LatestIs DEF EndFlush, CompleteSnapshot
      <4>3. QED
        BY <1>1, <4>1, <4>2
    <3>4. CASE FlushFails(t)
      BY <1>1, <1>6, <1>7, <1>10, <2>2, <3>4 DEF OnItsWay
    <3>5. QED
      BY <3>1, <3>2, <3>3, <3>4 DEF Flush
  <2>3. QED
    BY <2>1, <2>2
<1>11. QED
  BY <1>8, <1>9, <1>10 DEF OnItsWay

\* The main thread's steps: a snapshot that begins covers every change made so
\* far, and so does the one that a folder newly watched is going to get.
LEMMA MainKeepsWay ==
  ASSUME TypeOK, NEW e \in Int, e <= edits, scheduled => OnItsWay(e),
         Start \/ Main \/ BeginHourly, scheduled', saved' < e
  PROVE  OnItsWay(e)'
<1>0. began["main"] \in Change /\ saved \in Change /\ Change \subseteq Int
  BY MaxEditsIsNatural DEF TypeOK, Change
<1>1. CASE Start \/ Schedule
  BY <1>1 DEF Start, Schedule, OnItsWay, MainCovers
<1>2. ASSUME NEW from, NEW to \in {"scanSnap", "hourlySnap", "addSnap"},
             MainBegins(from, to)
      PROVE  OnItsWay(e)'
  <2>1. main' = to /\ began'["main"] = edits
    BY <1>2 DEF MainBegins, BeginSnapshot, TypeOK
  <2>2. QED
    BY <2>1 DEF OnItsWay, MainCovers
<1>3. ASSUME NEW from \in {"scanSnap", "hourlySnap", "addSnap"}, NEW to,
             MainCompletes(from, to)
      PROVE  OnItsWay(e)'
  <2>1. saved' = Latest(saved, began["main"]) /\ main = from /\ UNCHANGED scheduled
    BY <1>3 DEF MainCompletes, CompleteSnapshot, handlerVars
  <2>2. began["main"] <= saved' /\ saved' \in Int /\ began["main"] \in Int
    BY <1>0, <2>1, LatestIs
  <2>3. ~(e <= began["main"])
    BY <2>2
  <2>4. ~MainCovers(e)
    BY <2>1, <2>3 DEF MainCovers
  <2>5. QED
    BY <1>3, <2>1, <2>4, StaysOnItsWay DEF MainCompletes, CompleteSnapshot, handlerVars,
       flushVars
<1>4. CASE SkipScan
  BY <1>4 DEF SkipScan, OnItsWay
<1>5. CASE EnableAutoFlush \/ ArmTimer \/ StopHandler
  BY <1>5, StaysOnItsWay DEF EnableAutoFlush, ArmTimer, StopHandler, flushVars, dbVars,
     MainCovers
<1>6. CASE Unschedule
  BY <1>6 DEF Unschedule
<1>7. CASE BeginScan \/ BeginAdd \/ BeginHourly
  BY <1>2, <1>7 DEF BeginScan, BeginAdd, BeginHourly
<1>8. CASE EndScan \/ EndAdd \/ EndHourly
  BY <1>3, <1>8 DEF EndScan, EndAdd, EndHourly
<1>9. QED
  BY <1>1, <1>4, <1>5, <1>6, <1>7, <1>8 DEF Main

LEMMA WayStep == TypeOK /\ QueueInv /\ RunInv /\ WayInv /\ [Next]_vars => WayInv'
<1> SUFFICES ASSUME TypeOK, QueueInv, RunInv, WayInv, [Next]_vars, scheduled',
                    NEW e \in (saved' + 1)..edits'
             PROVE  OnItsWay(e)'
  BY DEF WayInv
<1>1. CASE Edit
  <2>1. edits \in Int /\ saved \in Int
    BY <1>1, MaxEditsIsNatural DEF TypeOK, Change
  <2>2. /\ edits' = edits + 1 /\ scheduled
        /\ UNCHANGED <<observer, pending, noted, flusher, batch, began, lost, main, saved>>
    BY <1>1 DEF Edit, handlerVars, flushVars, dbVars
  <2>3. observer = "alive" \/ observer = "dead"
    BY <2>2 DEF RunInv, TypeOK
  <2>4. CASE e = edits + 1
    BY <1>1, <2>2, <2>3, <2>4 DEF Edit, OnItsWay
  <2>5. CASE e \in (saved + 1)..edits
    <3>1. OnItsWay(e)
      BY <2>2, <2>5 DEF WayInv
    <3>2. QED
      BY <1>1, <2>2, <3>1, StaysOnItsWay DEF Edit, MainCovers
  <2>6. QED
    BY <2>1, <2>2, <2>4, <2>5
<1>2. ASSUME UNCHANGED edits, saved <= saved', saved' \in Int
      PROVE  e \in Int /\ e <= edits /\ saved' < e /\ (scheduled => OnItsWay(e))
  <2>1. saved \in Int /\ edits \in Int
    BY MaxEditsIsNatural DEF TypeOK, Change
  <2>2. e \in (saved' + 1)..edits
    BY <1>2
  <2>3. e \in Int /\ e <= edits /\ saved' < e
    BY <1>2, <2>1, <2>2, IntervalIs
  <2>4. e \in (saved + 1)..edits
    BY <1>2, <2>1, <2>3
  <2>5. QED
    BY <2>3, <2>4 DEF WayInv
<1>3. ASSUME NEW t, saved' = Latest(saved, began[t]), began[t] \in Change
      PROVE  saved <= saved' /\ saved' \in Int
  <2>1. saved \in Change
    BY DEF TypeOK
  <2>2. Change \subseteq Int
    BY MaxEditsIsNatural DEF Change
  <2>3. saved <= Latest(saved, began[t]) /\ Latest(saved, began[t]) \in Change
    BY <1>3, <2>1, LatestIs
  <2>4. QED
    BY <1>3, <2>2, <2>3
<1>4. saved \in Int /\ saved <= saved
  BY MaxEditsIsNatural DEF TypeOK, Change
<1>5. CASE PauseOrResume \/ OtherWrites \/ OtherCommits \/ UNCHANGED vars
  <2>1. UNCHANGED <<edits, queue, observer, scheduled, pending, noted, flusher, batch,
                    began, lost, main, saved>>
    BY <1>5 DEF PauseOrResume, OtherWrites, OtherCommits, vars, handlerVars, flushVars,
       dbVars
  <2>2. QED
    BY <1>2, <1>4, <2>1, StaysOnItsWay DEF MainCovers
<1>6. CASE Observe
  <2>1. UNCHANGED <<edits, saved, scheduled>>
    BY <1>6 DEF Observe, NoteEvent, NoteDone, MoveFails, WarningFails, dbVars
  <2>2. QED
    BY <1>2, <1>4, <1>6, <2>1, ObserveKeepsWay
<1>7. ASSUME NEW t \in Flushers, TimerFires(t) \/ Flush(t)
      PROVE  OnItsWay(e)'
  <2>1. UNCHANGED <<edits, scheduled>>
    BY <1>7 DEF TimerFires, Flush, TakePending, BeginFlush, EndFlush, FlushFails,
       handlerVars
  <2>2. saved' = saved \/ saved' = Latest(saved, began[t])
    BY <1>7 DEF TimerFires, Flush, TakePending, BeginFlush, EndFlush, FlushFails,
       dbVars, BeginSnapshot, CompleteSnapshot
  <2>3. began[t] \in Change
    BY DEF TypeOK
  <2>4. saved <= saved' /\ saved' \in Int
    BY <1>3, <1>4, <2>2, <2>3
  <2>5. QED
    BY <1>2, <1>7, <2>1, <2>4, FlushKeepsWay
<1>8. CASE Start \/ Main \/ BeginHourly
  <2>1. UNCHANGED edits
    BY <1>8 DEF Start, Main, BeginHourly, BeginScan, SkipScan, EndScan, EnableAutoFlush,
       ArmTimer, StopHandler, Unschedule, Schedule, BeginAdd, EndAdd, EndHourly,
       MainBegins, MainCompletes
  <2>2. saved' = saved \/ saved' = Latest(saved, began["main"])
    BY <1>8 DEF Start, Main, BeginHourly, BeginScan, SkipScan, EndScan, EnableAutoFlush,
       ArmTimer, StopHandler, Unschedule, Schedule, BeginAdd, EndAdd, EndHourly,
       MainBegins, MainCompletes, BeginSnapshot, CompleteSnapshot, dbVars
  <2>3. began["main"] \in Change
    BY DEF TypeOK
  <2>4. saved <= saved' /\ saved' \in Int
    BY <1>3, <1>4, <2>2, <2>3
  <2>5. QED
    BY <1>2, <1>8, <2>1, <2>4, MainKeepsWay
<1>9. CASE Stop \/ BusyStop
  BY <1>9 DEF Stop, BusyStop, Exit
<1>10. QED
  BY <1>1, <1>5, <1>6, <1>7, <1>8, <1>9 DEF Next

-----------------------------------------------------------------------------
(* A set flag is flushed.                                                  *)

LEMMA PendingStep ==
  TypeOK /\ RunInv /\ PendingIsFlushed /\ [Next]_vars => PendingIsFlushed'
<1> SUFFICES ASSUME TypeOK, RunInv, PendingIsFlushed, [Next]_vars
             PROVE  PendingIsFlushed'
  OBVIOUS
<1>1. CASE UNCHANGED <<pending, autoFlush, scheduled, timers, noting, flusher, observer>>
           /\ (main \in {"arm", "stopHandler"} => UNCHANGED main)
  BY <1>1 DEF PendingIsFlushed
<1>2. CASE Edit \/ PauseOrResume \/ OtherWrites \/ OtherCommits \/ UNCHANGED vars
  BY <1>1, <1>2 DEF Edit, PauseOrResume, OtherWrites, OtherCommits, vars, handlerVars,
     flushVars
<1>3. CASE Observe
  <2>1. CASE NoteEvent
    BY <2>1 DEF NoteEvent, PendingIsFlushed
  <2>2. CASE NoteDone
    BY <2>2 DEF NoteDone, PendingIsFlushed
  <2>3. CASE MoveFails \/ WarningFails
    BY <2>3 DEF MoveFails, WarningFails, PendingIsFlushed
  <2>4. QED
    BY <1>3, <2>1, <2>2, <2>3 DEF Observe
<1>4. ASSUME NEW t \in Flushers, TimerFires(t) \/ Flush(t)
      PROVE  PendingIsFlushed'
  <2>0. flusher \in [Flushers -> {"idle", "fired", "ready", "snap"}]
    BY DEF TypeOK
  <2>1. CASE TimerFires(t)
    <3>1. flusher'[t] = "fired"
      BY <2>0, <2>1 DEF TimerFires
    <3>2. QED
      BY <3>1 DEF PendingIsFlushed
  <2>2. CASE TakePending(t)
    BY <2>2 DEF TakePending, PendingIsFlushed
  <2>3. CASE BeginFlush(t) \/ EndFlush(t) \/ FlushFails(t)
    <3>1. \A u \in Flushers : flusher[u] = "fired" => flusher'[u] = "fired"
      BY <2>0, <2>3 DEF BeginFlush, EndFlush, FlushFails
    <3>2. UNCHANGED <<pending, autoFlush, scheduled, timers, noting, observer, main>>
      BY <2>3 DEF BeginFlush, EndFlush, FlushFails, handlerVars
    <3>3. QED
      BY <3>1, <3>2 DEF PendingIsFlushed
  <2>4. QED
    BY <1>4, <2>1, <2>2, <2>3 DEF Flush
<1>5. CASE Start
  BY <1>5 DEF Start, NewHandler, PendingIsFlushed, RunInv
<1>6. ASSUME NEW from \in MainStates \ {"arm", "stopHandler"}, NEW to,
             MainBegins(from, to) \/ MainCompletes(from, to)
      PROVE  PendingIsFlushed'
  BY <1>1, <1>6 DEF MainBegins, MainCompletes, handlerVars, flushVars
<1>7. CASE BeginScan \/ EndScan \/ BeginAdd \/ EndAdd \/ BeginHourly \/ EndHourly
  BY <1>6, <1>7 DEF BeginScan, EndScan, BeginAdd, EndAdd, BeginHourly, EndHourly,
     MainStates
<1>8. CASE SkipScan
  BY <1>1, <1>8 DEF SkipScan, handlerVars
<1>9. CASE EnableAutoFlush \/ ArmTimer \/ StopHandler
  <2>1. CASE EnableAutoFlush
    BY <2>1 DEF EnableAutoFlush, PendingIsFlushed
  <2>2. CASE ArmTimer
    BY <2>2 DEF ArmTimer, PendingIsFlushed
  <2>3. CASE StopHandler
    BY <2>3 DEF StopHandler, PendingIsFlushed
  <2>4. QED
    BY <1>9, <2>1, <2>2, <2>3
<1>10. CASE Unschedule \/ Schedule \/ Stop \/ BusyStop
  BY <1>10 DEF Unschedule, Schedule, NewHandler, Stop, BusyStop, Exit, PendingIsFlushed
<1>11. QED
  BY <1>2, <1>3, <1>4, <1>5, <1>7, <1>8, <1>9, <1>10 DEF Next, Main

-----------------------------------------------------------------------------
LEMMA InitInv == Init => WatcherInv
<1> SUFFICES ASSUME Init PROVE WatcherInv
  OBVIOUS
<1>1. QueueInv /\ RunInv /\ WayInv /\ PendingIsFlushed
  BY DEF Init, QueueInv, RunInv, WayInv, PendingIsFlushed
<1>2. QED
  BY <1>1, InitType DEF WatcherInv

\* The inductive invariant.
THEOREM WatcherInvariant == Spec => []WatcherInv
<1>1. WatcherInv /\ [Next]_vars => WatcherInv'
  BY TypeStep, QueueStep, RunStep, WayStep, PendingStep DEF WatcherInv
<1>2. QED
  BY InitInv, <1>1, PTL DEF Spec

\* Every variable keeps its type.
THEOREM TypeCorrect == Spec => []TypeOK
<1>1. WatcherInv => TypeOK
  BY DEF WatcherInv
<1>2. QED
  BY WatcherInvariant, <1>1, PTL

\* While the folder is watched, every change without a complete snapshot has its
\* event queued, the flag set, or a snapshot that includes it under way, unless a
\* flush failed or the observer is dead: _run_watch_loop and SafeVaultEventHandler.
THEOREM ChangesAreOnTheirWay == Spec => []NoChangeForgotten
<1>1. WatcherInv => NoChangeForgotten
  BY DEF WatcherInv, WayInv, OnItsWay, NoChangeForgotten
<1>2. QED
  BY WatcherInvariant, <1>1, PTL

\* The handler's flag is never set without somebody to take it: _schedule_timer,
\* enable_auto_flush and the timers agree whatever their order.
THEOREM FlagIsTaken == Spec => []PendingIsFlushed
<1>1. WatcherInv => PendingIsFlushed
  BY DEF WatcherInv
<1>2. QED
  BY WatcherInvariant, <1>1, PTL
=============================================================================
