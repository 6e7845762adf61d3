---------------------------- MODULE DaemonProofs ----------------------------
(***************************************************************************)
(* Proofs about module Daemon, for every number of processes that start    *)
(* the daemon or ask it to stop.                                           *)
(***************************************************************************)
EXTENDS Daemon, TLAPS

\* A lock file was made by a process that has been through its making: it is
\* empty until that process has written its own pid, and with a pid it outlives
\* the process only if that was killed or the system denied it the unlink.
LockInv ==
  lock # None =>
    /\ lock.pid \in {None, lock.by}
    /\ lock.pid # None => \/ daemon[lock.by] \in Running
                          \/ lock.by \in killed \cup denied /\ daemon[lock.by] = "gone"

\* Between its look at the lock and the end of its changes a start is alone.
EntryInv ==
  /\ \A d, e \in Entrants : d = e
  /\ Entrants # {} => Clearers = {} /\ \A d \in Daemons : daemon[d] \notin Running
  /\ Clearers # {} => \A d \in Daemons : daemon[d] \notin Running

\* A daemon that has made the lock owns it, and one in its loop the row.
OwnerInv ==
  \A d \in Daemons :
    /\ daemon[d] = "write" => lock = [by |-> d, pid |-> None]
    /\ daemon[d] \in Running => lock = [by |-> d, pid |-> d]
    /\ daemon[d] \in InLoop \cup {"record stop"} =>
         row.pid = d /\ row.status \in {"running", "stopping"}

AloneInv == EntryInv /\ OwnerInv

\* The inductive invariant: what holds of the lock file always, and what the
\* lock guarantees as long as no start met another or a request that clears up.
DaemonInv == TypeOK /\ LockInv /\ (~tangled => AloneInv)

-----------------------------------------------------------------------------
(* How the steps are made.                                                 *)

LEMMA GoStep ==
  ASSUME TypeOK, NEW d \in Daemons, NEW to, Go(d, to)
  PROVE  /\ daemon' = [daemon EXCEPT ![d] = to]
         /\ daemon'[d] = to
         /\ \A e \in Daemons \ {d} : daemon'[e] = daemon[e]
         /\ requester' = requester
         /\ Clearers' = Clearers
         /\ tangled' \in BOOLEAN
         /\ tangled => tangled'
         /\ Entrants' = IF to \in Entering \ {"check"} THEN Entrants \cup {d}
                        ELSE Entrants \ {d}
         /\ to \in Entering \ {"check"} /\ ~tangled' =>
              Entrants \subseteq {d} /\ Clearers = {}
  BY DEF Go, TypeOK, Entrants, Clearers

LEMMA RequestStep ==
  ASSUME TypeOK, NEW r \in Requesters, NEW to, Request(r, to)
  PROVE  /\ requester' = [requester EXCEPT ![r] = to]
         /\ UNCHANGED <<daemon, killed, denied>>
         /\ Entrants' = Entrants
         /\ tangled' \in BOOLEAN
         /\ tangled => tangled'
         /\ Clearers' = IF to \in ClearingUp THEN Clearers \cup {r}
                        ELSE Clearers \ {r}
         /\ to \in ClearingUp /\ ~tangled' => Entrants = {}
  BY DEF Request, TypeOK, Entrants, Clearers

LEMMA InitInv == Init => DaemonInv
<1> SUFFICES ASSUME Init PROVE DaemonInv
  OBVIOUS
<1>1. TypeOK
  BY DEF Init, TypeOK
<1>2. LockInv
  BY DEF Init, LockInv
<1>3. Entrants = {} /\ Clearers = {}
  BY DEF Init, Entrants, Clearers, Entering, ClearingUp
<1>4. OwnerInv
  BY DEF Init, OwnerInv, Running, Starting, InLoop, Leaving
<1>5. QED
  BY <1>1, <1>2, <1>3, <1>4 DEF DaemonInv, AloneInv, EntryInv

\* The types of the variables that Go and Request leave to the actions.
FilesOK ==
  /\ lock \in {None} \cup Locks
  /\ stop \in BOOLEAN
  /\ row \in [status : {"stopped", "running", "stopping", "error"},
              pid    : Daemons \cup {None}]
  /\ killed \subseteq Daemons
  /\ denied \subseteq Daemons

LEMMA GoType ==
  ASSUME TypeOK, NEW d \in Daemons,
         NEW to \in {"new", "gone"} \cup Entering \cup Running, Go(d, to), FilesOK'
  PROVE  TypeOK'
<1>1. /\ daemon' = [daemon EXCEPT ![d] = to]
      /\ requester' = requester
      /\ tangled' \in BOOLEAN
  BY GoStep
<1>2. daemon' \in [Daemons -> {"new", "gone"} \cup Entering \cup Running]
  BY <1>1 DEF TypeOK
<1>3. QED
  BY <1>1, <1>2 DEF TypeOK, FilesOK

LEMMA RequestType ==
  ASSUME TypeOK, NEW r \in Requesters,
         NEW to \in {"idle", "ask", "say stopping", "wait", "sure"} \cup ClearingUp,
         Request(r, to), FilesOK'
  PROVE  TypeOK'
<1>1. /\ requester' = [requester EXCEPT ![r] = to]
      /\ daemon' = daemon
      /\ tangled' \in BOOLEAN
  BY RequestStep
<1>2. requester' \in [Requesters -> {"idle", "ask", "say stopping", "wait", "sure"}
                                      \cup ClearingUp]
  BY <1>1 DEF TypeOK
<1>3. QED
  BY <1>1, <1>2 DEF TypeOK, FilesOK

LEMMA TypeStep == TypeOK /\ [Next]_vars => TypeOK'
<1> SUFFICES ASSUME TypeOK, [Next]_vars PROVE TypeOK'
  OBVIOUS
<1>0. FilesOK
  BY DEF TypeOK, FilesOK
<1> DEFINE Rows == [status : {"stopped", "running", "stopping", "error"},
                    pid    : Daemons \cup {None}]
<1>5. ASSUME NEW s \in {"stopped", "running", "stopping", "error"}
      PROVE  /\ [status |-> s, pid |-> None] \in Rows
             /\ [row EXCEPT !.status = s] \in Rows
             /\ row \in Rows
  BY <1>0 DEF FilesOK
<1> USE <1>0 DEF FilesOK, Locks, Entering, Running, Starting, InLoop, Leaving, ClearingUp
<1>1. ASSUME NEW d \in Daemons, Launch(d) \/ Run(d) \/ Fail(d)
      PROVE  TypeOK'
  <2> USE GoType
  <2>1. CASE Launch(d)
    BY <2>1 DEF Launch
  <2>2. CASE FindNoLock(d) \/ FindStaleLock(d) \/ RemoveStaleLock(d)
    BY <2>2 DEF FindNoLock, FindStaleLock, RemoveStaleLock, Unlink, UnlinkLock
  <2>3. CASE CreateLock(d)
    BY <2>3 DEF CreateLock
  <2>4. CASE WritePid(d)
    BY <2>4 DEF WritePid
  <2>5. CASE Refuse(d) \/ WritePidFails(d) \/ StartFails(d) \/ Kill(d)
    BY <2>5 DEF Refuse, WritePidFails, StartFails, Kill
  <2>6. CASE ClearStop(d) \/ RemoveStop(d) \/ Unlock(d)
    BY <2>6 DEF ClearStop, RemoveStop, Unlock, Unlink, UnlinkLock, UnlinkStop
  <2>7. CASE Announce(d) \/ Heartbeat(d)
    <3>1. row' = [status |-> "running", pid |-> d]
      BY <2>7 DEF Announce, Heartbeat
    <3>2. FilesOK'
      BY <2>7, <3>1 DEF Announce, Heartbeat
    <3>3. QED
      BY <2>7, <3>2 DEF Announce, Heartbeat
  <2>8. CASE GoOn(d) \/ SeeStop(d) \/ LoopFails(d) \/ RecordStopFails(d)
    BY <2>8 DEF GoOn, SeeStop, LoopFails, RecordStopFails
  <2>9. CASE RecordError(d) \/ RecordStop(d)
    <3>1. row' \in {row, [status |-> "error", pid |-> None],
                    [status |-> "stopped", pid |-> None]}
      BY <2>9 DEF RecordError, RecordStop
    <3>2. row' \in [status : {"stopped", "running", "stopping", "error"},
                     pid    : Daemons \cup {None}]
      BY <1>5, <3>1
    <3>3. UNCHANGED <<lock, stop, killed, denied>>
      BY <2>9 DEF RecordError, RecordStop
    <3>4. FilesOK'
      BY <3>2, <3>3
    <3>5. QED
      BY <2>9, <3>4 DEF RecordError, RecordStop
  <2>10. QED
    BY <1>1, <2>1, <2>2, <2>3, <2>4, <2>5, <2>6, <2>7, <2>8, <2>9 DEF Run, Fail
<1>2. ASSUME NEW r \in Requesters, Ask(r)
      PROVE  TypeOK'
  <2> USE RequestType
  <2>1. CASE FindNobody(r) \/ DropLock(r) \/ DropStop(r)
    BY <2>1 DEF FindNobody, DropLock, DropStop, Request, UnlinkLock, UnlinkStop
  <2>2. CASE FindDaemon(r) \/ WriteStop(r)
    BY <2>2 DEF FindDaemon, WriteStop, Request
  <2>3. CASE SayStopped(r) \/ SayStopping(r)
    <3>1. row' \in {[status |-> "stopped", pid |-> None],
                    [row EXCEPT !.status = "stopping"]}
      BY <2>3 DEF SayStopped, SayStopping
    <3>2. row' \in [status : {"stopped", "running", "stopping", "error"},
                     pid    : Daemons \cup {None}]
      BY <1>5, <3>1
    <3>3. UNCHANGED <<lock, stop, killed, denied>>
      BY <2>3 DEF SayStopped, SayStopping, Request
    <3>4. FilesOK'
      BY <3>2, <3>3
    <3>5. QED
      BY <2>3, <3>4 DEF SayStopped, SayStopping
  <2>4. CASE Confirm(r) \/ Return(r) \/ AskFails(r)
    BY <2>4 DEF Confirm, Return, AskFails, Request
  <2>5. QED
    BY <1>2, <2>1, <2>2, <2>3, <2>4 DEF Ask
<1>3. CASE UNCHANGED vars
  BY <1>3 DEF vars, TypeOK
<1>4. QED
  BY <1>1, <1>2, <1>3 DEF Next

-----------------------------------------------------------------------------
(* The lock file.                                                          *)

\* A request that changes the lock file removes it, and no daemon moves.
LEMMA AskFrame ==
  ASSUME NEW r \in Requesters, Ask(r)
  PROVE  /\ UNCHANGED <<daemon, killed, denied>>
         /\ lock' = lock \/ (requester[r] = "drop lock" /\ lock' = None)
<1>1. UNCHANGED <<daemon, killed, denied>>
  BY DEF Ask, FindNobody, DropLock, DropStop, SayStopped, FindDaemon, WriteStop,
     SayStopping, Confirm, Return, AskFails, Request
<1>2. lock' = lock \/ (requester[r] = "drop lock" /\ lock' = None)
  BY DEF Ask, FindNobody, DropLock, DropStop, SayStopped, FindDaemon, WriteStop,
     SayStopping, Confirm, Return, AskFails, UnlinkLock
<1>3. QED
  BY <1>1, <1>2

\* A daemon removes the lock file, makes it, fills it, or leaves it alone; then it
\* leaves its place behind the lock by a kill or a denied unlink only.
Keeps(d) ==
  /\ lock' = lock
  /\ daemon[d] \in Running =>
       daemon'[d] \in Running \/ (d \in killed' \cup denied' /\ daemon'[d] = "gone")
  /\ daemon[d] = "gone" => daemon'[d] = "gone"
Fills(d) ==
  /\ lock' = IF lock # None /\ lock.by = d THEN [lock EXCEPT !.pid = d] ELSE lock
  /\ daemon[d] = "write" /\ daemon'[d] \in Running

LEMMA RunFrame ==
  ASSUME TypeOK, NEW d \in Daemons, Launch(d) \/ Run(d) \/ Fail(d)
  PROVE  /\ \A e \in Daemons \ {d} : daemon'[e] = daemon[e]
         /\ killed \subseteq killed' /\ denied \subseteq denied'
         /\ \/ lock' = None
            \/ lock' = [by |-> d, pid |-> None]
            \/ Keeps(d)
            \/ Fills(d)
<1> DEFINE Goal == /\ \A e \in Daemons \ {d} : daemon'[e] = daemon[e]
                   /\ killed \subseteq killed' /\ denied \subseteq denied'
                   /\ \/ lock' = None
                      \/ lock' = [by |-> d, pid |-> None]
                      \/ Keeps(d)
                      \/ Fills(d)
<1>1. ASSUME NEW to, Go(d, to), lock' = lock, killed' = killed, denied' = denied,
             daemon[d] # "gone",
             daemon[d] \in Running => to \in Running
      PROVE  Goal
  <2>1. daemon'[d] = to /\ \A e \in Daemons \ {d} : daemon'[e] = daemon[e]
    BY <1>1, GoStep
  <2>2. Keeps(d)
    BY <1>1, <2>1 DEF Keeps
  <2>3. QED
    BY <1>1, <2>1, <2>2
<1> USE DEF Running, Starting, InLoop, Leaving, Entering
<1>2. CASE Launch(d) \/ FindNoLock(d) \/ FindStaleLock(d) \/ Refuse(d) \/ WritePidFails(d)
  BY <1>1, <1>2 DEF Launch, FindNoLock, FindStaleLock, Refuse, WritePidFails
<1>3. CASE StartFails(d) \/ ClearStop(d) \/ Announce(d)
  BY <1>1, <1>3 DEF StartFails, ClearStop, Announce
<1>4. CASE GoOn(d) \/ Heartbeat(d) \/ SeeStop(d) \/ LoopFails(d)
  BY <1>1, <1>4 DEF GoOn, Heartbeat, SeeStop, LoopFails
<1>5. CASE RecordError(d) \/ RecordStop(d) \/ RecordStopFails(d) \/ RemoveStop(d)
  BY <1>1, <1>5 DEF RecordError, RecordStop, RecordStopFails, RemoveStop
<1>6. CASE RemoveStaleLock(d) \/ CreateLock(d) \/ Unlock(d)
  BY <1>6, GoStep DEF RemoveStaleLock, CreateLock, Unlock, Unlink, UnlinkLock, Keeps
<1>7. CASE WritePid(d)
  BY <1>7, GoStep DEF WritePid, Fills
<1>8. CASE Kill(d)
  BY <1>8, GoStep DEF Kill, Keeps
<1>9. QED
  BY <1>2, <1>3, <1>4, <1>5, <1>6, <1>7, <1>8 DEF Run, Fail

LEMMA LockStep == TypeOK /\ LockInv /\ [Next]_vars => LockInv'
<1> SUFFICES ASSUME TypeOK, LockInv, [Next]_vars PROVE LockInv'
  OBVIOUS
<1>0. /\ lock # None => lock \in Locks
      /\ killed \subseteq Daemons
  BY DEF TypeOK
<1> USE DEF Locks
<1>1. ASSUME NEW d \in Daemons, Launch(d) \/ Run(d) \/ Fail(d)
      PROVE  LockInv'
  <2>0. /\ \A e \in Daemons \ {d} : daemon'[e] = daemon[e]
        /\ killed \subseteq killed' /\ denied \subseteq denied'
    BY <1>1, RunFrame
  <2>1. CASE lock' = None \/ lock' = [by |-> d, pid |-> None]
    BY <2>1 DEF LockInv
  <2>2. CASE Keeps(d)
    BY <1>0, <2>0, <2>2 DEF LockInv, Keeps
  <2>3. CASE Fills(d) /\ lock # None /\ lock.by = d
    <3>1. lock' = [by |-> d, pid |-> d] /\ daemon'[d] \in Running
      BY <1>0, <2>3 DEF Fills
    <3>2. QED
      BY <3>1 DEF LockInv
  <2>4. CASE Fills(d) /\ ~(lock # None /\ lock.by = d)
    BY <1>0, <2>0, <2>4 DEF LockInv, Fills
  <2>5. QED
    BY <1>1, <2>1, <2>2, <2>3, <2>4, RunFrame
<1>2. ASSUME NEW r \in Requesters, Ask(r)
      PROVE  LockInv'
  <2>1. UNCHANGED <<daemon, killed, denied>> /\ lock' \in {lock, None}
    BY <1>2, AskFrame
  <2>2. QED
    BY <2>1 DEF LockInv
<1>3. CASE UNCHANGED vars
  BY <1>3 DEF vars, LockInv
<1>4. QED
  BY <1>1, <1>2, <1>3 DEF Next
-----------------------------------------------------------------------------
(* One daemon at a time.                                                   *)

\* Nobody past its lock is nobody to own anything, but for who has just made it.
LEMMA NobodyRuns ==
  ASSUME \A d \in Daemons : daemon[d] \notin Running,
         \A d \in Daemons : daemon[d] = "write" => lock = [by |-> d, pid |-> None]
  PROVE  OwnerInv
  BY DEF OwnerInv, Running, Starting, InLoop, Leaving

\* A lock that names nobody alive lets no daemon be past its lock.
LEMMA StaleLock ==
  ASSUME TypeOK, AloneInv, ~Alive(LockPid)
  PROVE  \A d \in Daemons : daemon[d] \notin Running
<1> SUFFICES ASSUME NEW d \in Daemons, daemon[d] \in Running PROVE FALSE
  OBVIOUS
<1>1. lock = [by |-> d, pid |-> d]
  BY DEF AloneInv, OwnerInv
<1>2. lock # None /\ LockPid = d
  BY <1>1, NoneIsNobody DEF LockPid, Locks
<1>3. QED
  BY <1>2, NoneIsNobody DEF Alive, Running, Starting, InLoop, Leaving

\* A daemon past its lock is the only one, and nobody is about to change the lock.
LEMMA OnlyRunner ==
  ASSUME TypeOK, AloneInv, NEW d \in Daemons, daemon[d] \in Running
  PROVE  /\ lock = [by |-> d, pid |-> d]
         /\ Entrants = {} /\ Clearers = {}
         /\ \A e \in Daemons \ {d} : daemon[e] \notin Running \cup {"write"}
<1>1. lock = [by |-> d, pid |-> d] /\ Entrants = {} /\ Clearers = {}
  BY DEF AloneInv, EntryInv, OwnerInv
<1>2. ASSUME NEW e \in Daemons \ {d} PROVE daemon[e] \notin Running
  BY <1>1 DEF AloneInv, OwnerInv
<1>3. ASSUME NEW e \in Daemons PROVE daemon[e] # "write"
  BY <1>1 DEF Entrants, Entering
<1>4. QED
  BY <1>1, <1>2, <1>3

\* Who is between look and change is the only one there, and nobody is past the lock.
LEMMA OnlyEntrant ==
  ASSUME TypeOK, AloneInv, NEW d \in Entrants
  PROVE  /\ Entrants = {d} /\ Clearers = {}
         /\ \A e \in Daemons : daemon[e] \notin Running
         /\ \A e \in Daemons \ {d} : daemon[e] # "write"
<1>1. Entrants = {d} /\ Clearers = {} /\ \A e \in Daemons : daemon[e] \notin Running
  BY DEF AloneInv, EntryInv
<1>2. QED
  BY <1>1 DEF Entrants, Entering

LEMMA DaemonStep ==
  ASSUME TypeOK, ~tangled => AloneInv, ~tangled',
         NEW d \in Daemons, Launch(d) \/ Run(d) \/ Fail(d)
  PROVE  AloneInv'
<1>1. ASSUME NEW to, Go(d, to)
      PROVE  /\ AloneInv
             /\ daemon'[d] = to
             /\ \A e \in Daemons \ {d} : daemon'[e] = daemon[e]
             /\ Clearers' = Clearers
             /\ Entrants' = IF to \in Entering \ {"check"} THEN Entrants \cup {d}
                            ELSE Entrants \ {d}
             /\ to \in Entering \ {"check"} => Entrants \subseteq {d} /\ Clearers = {}
  BY <1>1, GoStep
\* The moves of a daemon that is past its lock and stays there.
<1>2. ASSUME NEW to \in Running, Go(d, to), daemon[d] \in Running, lock' = lock,
             to \in InLoop \cup {"record stop"} =>
               row'.pid = d /\ row'.status \in {"running", "stopping"}
      PROVE  AloneInv'
  <2>1. /\ daemon'[d] = to
        /\ \A e \in Daemons \ {d} : daemon'[e] = daemon[e]
        /\ Clearers' = Clearers /\ AloneInv
        /\ Entrants' = Entrants \ {d}
    BY <1>1, <1>2 DEF Running, Starting, InLoop, Leaving, Entering
  <2>2. /\ lock = [by |-> d, pid |-> d]
        /\ Entrants = {} /\ Clearers = {}
        /\ \A e \in Daemons \ {d} : daemon[e] \notin Running \cup {"write"}
    BY <1>2, <2>1, OnlyRunner
  <2>3. EntryInv'
    BY <2>1, <2>2 DEF EntryInv
  <2>4. OwnerInv'
    BY <1>2, <2>1, <2>2 DEF OwnerInv, Running, Starting, InLoop, Leaving
  <2>5. QED
    BY <2>3, <2>4 DEF AloneInv
\* A daemon goes away without touching the lock file.
<1>3. ASSUME NEW to \in {"gone", "check"}, Go(d, to), lock' = lock, row' = row
      PROVE  AloneInv'
  <2>1. /\ daemon'[d] = to
        /\ \A e \in Daemons \ {d} : daemon'[e] = daemon[e]
        /\ Clearers' = Clearers /\ AloneInv
        /\ Entrants' = Entrants \ {d}
    BY <1>1, <1>3 DEF Entering
  <2>2. daemon'[d] \notin Running \cup {"write"}
    BY <2>1 DEF Running, Starting, InLoop, Leaving
  <2>3. EntryInv'
    BY <2>1, <2>2 DEF AloneInv, EntryInv
  <2>4. OwnerInv'
    BY <1>3, <2>1, <2>2 DEF AloneInv, OwnerInv, Running, Starting, InLoop, Leaving
  <2>5. QED
    BY <2>3, <2>4 DEF AloneInv
\* A daemon comes to, or goes on with, its changes to the lock file.
<1>4. ASSUME NEW to \in Entering \ {"check"}, Go(d, to),
             \A e \in Daemons : daemon[e] \notin Running,
             to = "write" => lock' = [by |-> d, pid |-> None]
      PROVE  AloneInv'
  <2>1. /\ daemon'[d] = to
        /\ \A e \in Daemons \ {d} : daemon'[e] = daemon[e]
        /\ Clearers' = {} /\ Entrants' = {d}
    BY <1>1, <1>4
  <2>2. \A e \in Daemons : daemon'[e] \notin Running
    BY <1>4, <2>1 DEF Entering, Running, Starting, InLoop, Leaving
  <2>3. \A e \in Daemons \ {d} : daemon'[e] # "write"
    BY <2>1 DEF Entrants, Entering
  <2>4. OwnerInv'
    BY <1>4, <2>1, <2>2, <2>3, NobodyRuns DEF OwnerInv, Running, Starting, InLoop, Leaving
  <2>5. EntryInv'
    BY <2>1, <2>2 DEF EntryInv
  <2>6. QED
    BY <2>4, <2>5 DEF AloneInv
<1> USE DEF Entering, Running, Starting, InLoop, Leaving
<1>5. CASE Launch(d) \/ Refuse(d) \/ WritePidFails(d) \/ Kill(d)
  BY <1>3, <1>5 DEF Launch, Refuse, WritePidFails, Kill
<1>6. CASE FindNoLock(d) \/ FindStaleLock(d)
  <2>1. ~Alive(LockPid)
    BY <1>6 DEF FindNoLock, FindStaleLock, Alive, LockPid
  <2>2. AloneInv
    BY <1>1, <1>6 DEF FindNoLock, FindStaleLock
  <2>3. \A e \in Daemons : daemon[e] \notin Running
    BY <2>1, <2>2, StaleLock
  <2>4. QED
    BY <1>4, <1>6, <2>3 DEF FindNoLock, FindStaleLock
<1>7. CASE RemoveStaleLock(d) \/ CreateLock(d)
  <2>1. d \in Entrants
    BY <1>7 DEF RemoveStaleLock, CreateLock, Entrants
  <2>2. AloneInv
    BY <1>1, <1>7 DEF RemoveStaleLock, CreateLock
  <2>3. \A e \in Daemons : daemon[e] \notin Running
    BY <2>1, <2>2, OnlyEntrant
  <2>4. QED
    BY <1>4, <1>7, <2>3 DEF RemoveStaleLock, CreateLock
<1>8. CASE WritePid(d)
  <2>1. /\ daemon[d] = "write" /\ daemon'[d] = "clear"
        /\ \A e \in Daemons \ {d} : daemon'[e] = daemon[e]
        /\ Clearers' = Clearers /\ AloneInv
        /\ Entrants' = Entrants \ {d}
    BY <1>1, <1>8 DEF WritePid
  <2>2. lock = [by |-> d, pid |-> None]
    BY <2>1 DEF AloneInv, OwnerInv
  <2>3. lock' = [by |-> d, pid |-> d]
    BY <1>8, <2>2, NoneIsNobody DEF WritePid, Locks
  <2>4. d \in Entrants
    BY <2>1 DEF Entrants
  <2>5. /\ Entrants' = {} /\ Clearers' = {}
        /\ \A e \in Daemons \ {d} : daemon'[e] \notin Running \cup {"write"}
    BY <2>1, <2>4, OnlyEntrant
  <2>6. OwnerInv'
    BY <2>1, <2>3, <2>5 DEF OwnerInv
  <2>7. QED
    BY <2>5, <2>6 DEF AloneInv, EntryInv
<1>9. CASE ClearStop(d) \/ StartFails(d) \/ RecordError(d) \/ RecordStop(d)
           \/ RecordStopFails(d) \/ RemoveStop(d)
  BY <1>2, <1>9 DEF ClearStop, StartFails, RecordError, RecordStop, RecordStopFails,
     RemoveStop
<1>10. CASE Announce(d) \/ Heartbeat(d)
  <2>1. \E to \in InLoop : Go(d, to)
    BY <1>10 DEF Announce, Heartbeat
  <2>2. row' = [status |-> "running", pid |-> d] /\ lock' = lock /\ daemon[d] \in Running
    BY <1>10 DEF Announce, Heartbeat
  <2>3. row'.pid = d /\ row'.status = "running"
    BY <2>2
  <2>4. QED
    BY <1>2, <2>1, <2>2, <2>3
<1>11. CASE GoOn(d) \/ SeeStop(d) \/ LoopFails(d)
  <2>1. AloneInv
    BY <1>1, <1>11 DEF GoOn, SeeStop, LoopFails
  <2>2. row.pid = d /\ row.status \in {"running", "stopping"}
    BY <1>11, <2>1 DEF GoOn, SeeStop, LoopFails, AloneInv, OwnerInv
  <2>3. QED
    BY <1>2, <1>11, <2>2 DEF GoOn, SeeStop, LoopFails
<1>12. CASE Unlock(d)
  <2>1. /\ daemon[d] = "unlock" /\ daemon'[d] = "gone"
        /\ \A e \in Daemons \ {d} : daemon'[e] = daemon[e]
        /\ Clearers' = Clearers /\ AloneInv
        /\ Entrants' = Entrants \ {d}
    BY <1>1, <1>12 DEF Unlock
  <2>2. /\ Entrants = {} /\ Clearers = {}
        /\ \A e \in Daemons \ {d} : daemon[e] \notin Running \cup {"write"}
    BY <2>1, OnlyRunner
  <2>3. OwnerInv'
    BY <2>1, <2>2 DEF OwnerInv
  <2>4. QED
    BY <2>1, <2>2, <2>3 DEF AloneInv, EntryInv
<1>13. QED
  BY <1>5, <1>6, <1>7, <1>8, <1>9, <1>10, <1>11, <1>12 DEF Run, Fail

\* A request clears up only where no daemon is, and otherwise leaves the lock alone.
LEMMA AskStep ==
  ASSUME TypeOK, ~tangled => AloneInv, ~tangled', NEW r \in Requesters, Ask(r)
  PROVE  AloneInv'
<1>1. ASSUME NEW to, Request(r, to)
      PROVE  /\ AloneInv
             /\ daemon' = daemon /\ Entrants' = Entrants
             /\ Clearers' = IF to \in ClearingUp THEN Clearers \cup {r}
                            ELSE Clearers \ {r}
             /\ to \in ClearingUp => Entrants = {}
  BY <1>1, RequestStep
<1>2. ASSUME NEW to \in ClearingUp \cup {"wait"}, Request(r, to),
             \A d \in Daemons : daemon[d] \notin Running, Entrants = {}
      PROVE  AloneInv'
  <2>1. daemon' = daemon /\ Entrants' = {}
    BY <1>1, <1>2
  <2>2. OwnerInv'
    BY <1>2, <2>1 DEF OwnerInv, Entrants, Entering, Running, Starting, InLoop, Leaving
  <2>3. QED
    BY <1>2, <2>1, <2>2 DEF AloneInv, EntryInv
<1>3. ASSUME NEW to, to \notin ClearingUp, Request(r, to), lock' = lock,
             row'.pid = row.pid,
             row'.status \in {row.status, "stopping"}
      PROVE  AloneInv'
  <2>1. daemon' = daemon /\ Entrants' = Entrants /\ Clearers' = Clearers \ {r} /\ AloneInv
    BY <1>1, <1>3
  <2>2. EntryInv'
    BY <2>1 DEF AloneInv, EntryInv
  <2>3. OwnerInv'
    BY <1>3, <2>1 DEF AloneInv, OwnerInv
  <2>4. QED
    BY <2>2, <2>3 DEF AloneInv
<1> USE DEF ClearingUp
<1>4. CASE FindNobody(r)
  <2>1. \A d \in Daemons : daemon[d] \notin Running
    BY <1>1, <1>4, StaleLock DEF FindNobody
  <2>2. QED
    BY <1>1, <1>2, <1>4, <2>1 DEF FindNobody
<1>5. CASE DropLock(r) \/ DropStop(r) \/ SayStopped(r)
  <2>1. r \in Clearers /\ AloneInv
    BY <1>1, <1>5 DEF DropLock, DropStop, SayStopped, Clearers
  <2>2. Entrants = {} /\ \A d \in Daemons : daemon[d] \notin Running
    BY <2>1 DEF AloneInv, EntryInv
  <2>3. QED
    BY <1>2, <1>5, <2>2 DEF DropLock, DropStop, SayStopped
<1>6. CASE FindDaemon(r) \/ WriteStop(r) \/ Confirm(r) \/ Return(r) \/ AskFails(r)
  BY <1>3, <1>6 DEF FindDaemon, WriteStop, Confirm, Return, AskFails
<1>7. CASE SayStopping(r)
  BY <1>3, <1>7 DEF SayStopping, TypeOK
<1>8. QED
  BY <1>4, <1>5, <1>6, <1>7 DEF Ask

\* The invariant is inductive.
THEOREM DaemonInvariant == Spec => []DaemonInv
<1>1. DaemonInv /\ [Next]_vars => DaemonInv'
  <2> SUFFICES ASSUME DaemonInv, [Next]_vars PROVE DaemonInv'
    OBVIOUS
  <2>1. TypeOK /\ LockInv /\ (~tangled => AloneInv)
    BY DEF DaemonInv
  <2>2. TypeOK' /\ LockInv'
    BY <2>1, TypeStep, LockStep
  <2>3. ASSUME ~tangled' PROVE AloneInv'
    <3>1. CASE \E d \in Daemons : Launch(d) \/ Run(d) \/ Fail(d)
      BY <2>1, <2>3, <3>1, DaemonStep
    <3>2. CASE \E r \in Requesters : Ask(r)
      BY <2>1, <2>3, <3>2, AskStep
    <3>3. CASE UNCHANGED vars
      BY <2>1, <2>3, <3>3 DEF vars, AloneInv, EntryInv, OwnerInv, Entrants, Clearers
    <3>4. QED
      BY <3>1, <3>2, <3>3 DEF Next
  <2>4. QED
    BY <2>2, <2>3 DEF DaemonInv
<1>2. QED
  BY InitInv, <1>1, PTL DEF Spec

-----------------------------------------------------------------------------
(* What follows from it.                                                   *)

\* Every variable has its type: the lock file holds pids of daemons, the row one of
\* the statuses the code writes.
THEOREM TypeCorrect == Spec => []TypeOK
  BY DaemonInvariant, PTL DEF DaemonInv

\* DaemonLock: without overlapping starts there is one daemon past its lock, and
\* the lock file is its own.
THEOREM OneDaemonAtATime == Spec => []OneAtATime
<1>1. DaemonInv => OneAtATime
  <2> SUFFICES ASSUME DaemonInv, ~tangled
               PROVE  /\ OneDaemon
                      /\ \A d \in Daemons : daemon[d] \in Running =>
                           lock # None /\ lock.by = d /\ lock.pid = d
    BY DEF OneAtATime
  <2>1. \A d \in Daemons : daemon[d] \in Running => lock = [by |-> d, pid |-> d]
    BY DEF DaemonInv, AloneInv, OwnerInv
  <2>2. QED
    BY <2>1, NoneIsNobody DEF OneDaemon, Locks
<1>2. QED
  BY <1>1, DaemonInvariant, PTL

\* DaemonLock.__exit__: a daemon that has written its pid and ends, by a stop, a
\* failing start, an error or an error of its last writes, leaves a lock file behind
\* only when it was killed or its own unlink failed, even when starts overlap.
THEOREM LocksAreLetGo == Spec => []LockLetGo
<1>1. DaemonInv => LockLetGo
  <2> SUFFICES ASSUME DaemonInv, lock # None, lock.pid # None, ~Alive(lock.by)
               PROVE  lock.by \in killed \cup denied
    BY DEF LockLetGo
  <2>1. lock.by \in Daemons
    BY DEF DaemonInv, TypeOK, Locks
  <2>2. daemon[lock.by] \notin Running
    BY <2>1, NoneIsNobody DEF Alive, Running, Starting, InLoop, Leaving
  <2>3. QED
    BY <2>2 DEF DaemonInv, LockInv
<1>2. QED
  BY <1>1, DaemonInvariant, PTL

\* get_daemon_status: a daemon in its loop is reported as running or stopping, so
\* that nobody starts a second one.
THEOREM WorkIsReported == Spec => []WorkingIsReported
<1>1. DaemonInv => WorkingIsReported
  <2> SUFFICES ASSUME DaemonInv, ~tangled, NEW d \in Daemons, daemon[d] = "beat"
               PROVE  Status \in {"running", "stopping"}
    BY DEF WorkingIsReported
  <2>1. /\ row.pid = d /\ row.status \in {"running", "stopping"}
        /\ lock = [by |-> d, pid |-> d]
    BY DEF DaemonInv, AloneInv, OwnerInv, Running, InLoop
  <2>2. lock # None /\ LockPid = d
    BY <2>1, NoneIsNobody DEF LockPid, Locks
  <2>3. Alive(LockPid)
    BY <2>2, NoneIsNobody DEF Alive
  <2>4. QED
    BY <2>1, <2>2, <2>3 DEF Status
<1>2. QED
  BY <1>1, DaemonInvariant, PTL

\* storage._ensure_daemon_stopped: when a migration is told to go ahead, no daemon is
\* past its lock.
THEOREM ConfirmedIsStopped == Spec => StoppedIsStopped
<1>1. ASSUME DaemonInv, [Next]_vars
      PROVE  [\A r \in Requesters :
                ~tangled /\ requester[r] # "sure" /\ requester'[r] = "sure"
                  => \A d \in Daemons : daemon[d] \notin Running]_vars
  <2> SUFFICES ASSUME Next, NEW r \in Requesters, ~tangled, requester[r] # "sure",
                      requester'[r] = "sure", NEW d \in Daemons, daemon[d] \in Running
               PROVE  FALSE
    BY <1>1
  <2>1. lock = None
    <3>1. ASSUME NEW e \in Daemons, Launch(e) \/ Run(e) \/ Fail(e)
          PROVE  requester' = requester
      BY <3>1 DEF Run, Fail, Launch, FindNoLock, FindStaleLock, RemoveStaleLock,
         CreateLock, Refuse, WritePid, WritePidFails, ClearStop, Announce, StartFails,
         GoOn, Heartbeat, SeeStop, LoopFails, RecordError, RecordStop, RecordStopFails,
         RemoveStop, Unlock, Kill, Go
    <3>2. ASSUME NEW q \in Requesters, Ask(q) PROVE lock = None
      <4>1. CASE Confirm(q)
        BY <4>1 DEF Confirm
      <4>2. CASE ~Confirm(q)
        <5>1. PICK to : to # "sure" /\ requester' = [requester EXCEPT ![q] = to]
          BY <3>2, <4>2 DEF Ask, FindNobody, DropLock, DropStop, SayStopped, FindDaemon,
             WriteStop, SayStopping, Return, AskFails, Request
        <5>2. QED
          BY <5>1 DEF DaemonInv, TypeOK
      <4>3. QED
        BY <4>1, <4>2
    <3>3. QED
      BY <3>1, <3>2 DEF Next
  <2>2. QED
    BY <1>1, <2>1, OnlyRunner, NoneIsNobody DEF DaemonInv, Locks
<1>2. QED
  BY <1>1, DaemonInvariant, PTL DEF Spec, StoppedIsStopped

\* run_daemon: the finally clause does not overwrite the error an except clause has
\* recorded; only a stop request or the next start does.
THEOREM ErrorsStay == Spec => ErrorStays
<1>1. ASSUME DaemonInv, [Next]_vars
      PROVE  [~tangled /\ row.status = "error" /\ row'.status = "stopped" =>
                \E r \in Requesters : requester[r] = "say stopped"]_vars
  <2> SUFFICES ASSUME Next, ~tangled, row.status = "error", row'.status = "stopped"
               PROVE  \E r \in Requesters : requester[r] = "say stopped"
    BY <1>1
  <2>1. ASSUME NEW d \in Daemons, Launch(d) \/ Run(d) \/ Fail(d)
        PROVE  FALSE
    <3>1. CASE RecordStop(d)
      BY <1>1, <3>1 DEF DaemonInv, AloneInv, OwnerInv, RecordStop
    <3>2. CASE ~RecordStop(d)
      <4>1. \/ row' = row
            \/ row' = [status |-> "running", pid |-> d]
            \/ row' = [status |-> "error", pid |-> None]
        BY <2>1, <3>2 DEF Run, Fail, Launch, FindNoLock, FindStaleLock, RemoveStaleLock,
           CreateLock, Refuse, WritePid, WritePidFails, ClearStop, Announce, StartFails,
           GoOn, Heartbeat, SeeStop, LoopFails, RecordError, RecordStopFails,
           RemoveStop, Unlock, Kill
      <4>2. QED
        BY <4>1
    <3>3. QED
      BY <3>1, <3>2
  <2>2. ASSUME NEW r \in Requesters, Ask(r), requester[r] # "say stopped"
        PROVE  FALSE
    <3>1. row' = row \/ row' = [row EXCEPT !.status = "stopping"]
      BY <2>2 DEF Ask, FindNobody, DropLock, DropStop, SayStopped, FindDaemon,
         WriteStop, SayStopping, Confirm, Return, AskFails
    <3>2. QED
      BY <1>1, <3>1 DEF DaemonInv, TypeOK
  <2>3. QED
    BY <2>1, <2>2 DEF Next
<1>2. QED
  BY <1>1, DaemonInvariant, PTL DEF Spec, ErrorStays
=============================================================================
