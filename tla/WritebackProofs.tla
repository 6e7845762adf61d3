--------------------------- MODULE WritebackProofs --------------------------
(***************************************************************************)
(* Proofs about module Writeback, for every folder, every number of        *)
(* processes and every number of edits.                                    *)
(***************************************************************************)
EXTENDS Writeback, TLAPS

\* The diff is there once the command has ended, and nothing is reported of the
\* sandbox, nor of its session, before.
RunnerOK ==
  /\ op[Runner].phase \in {"idle", "pre", "copy", "insert", "run", "diffed", "session", "over"}
  /\ op[Runner].phase \in {"idle", "pre", "copy", "insert", "run"} => diff = None
  /\ op[Runner].phase \in {"diffed", "session"} => diff # None
  /\ diff = None => status \in {"none", "running"} /\ session = "none"

\* A version of a file comes with a row of the file.
RowsOK == \A f \in Files : history[f] # {} => fileKind[f] # None

\* Where an apply may be: it has a diff, brings back each entry once, and a dry
\* run gets no further than its checks.
ApplierOK(a) ==
  /\ op[a].phase \in {"idle", "pre", "entries", "link", "post", "report"}
  /\ op[a].phase # "idle" =>
       /\ diff # None
       /\ op[a].place \in Files \cup {None}
       /\ op[a].place # None => op[a].phase \in {"entries", "link"} /\ ~op[a].dry
       /\ op[a].phase = "link" => op[a].place # None /\ op[a].content \in Links
       /\ op[a].phase # "entries" => ~op[a].dry
       /\ op[a].phase = "pre" => op[a].wrote = {} /\ ~op[a].skips
       /\ op[a].phase \in {"post", "report"} => op[a].todo = {}
       /\ op[a].wrote \cap op[a].todo = {}
       /\ op[a].place \notin op[a].wrote \cup op[a].todo

\* An apply that has skipped nothing has brought back what it is not still to
\* bring back.
Whole(a) ==
  op[a].phase \notin {"idle", "pre"} /\ ~op[a].dry =>
    /\ op[a].wrote \subseteq landed
    /\ op[a].skips \/ Entries \subseteq op[a].todo \cup op[a].wrote \cup {op[a].place}

\* What an apply has neither written itself nor seen change can be restored.
Saved(a) ==
  op[a].phase \in {"entries", "link"} /\ ~op[a].dry =>
    \A f \in Files \ (op[a].exposed \cup op[a].wrote) : proj[f] \in history[f] \cup {Absent}

\* ResultRecorded, of one apply.
Recorded(a) ==
  op[a].phase = "report" =>
    \A f \in op[a].wrote \ op[a].exposed : proj[f] \in history[f] \cup {Absent}

\* What an apply has checked still holds if nobody has changed it since.
Reviewed(a) ==
  LET f == op[a].place
  IN  f # None /\ ~op[a].raced =>
        /\ op[a].phase = "entries" =>
             proj[f] = diff[f].old /\ (diff[f].new = Absent \/ work[f] = diff[f].new)
        /\ op[a].phase = "link" => op[a].content = diff[f].new

ApplierInv(a) == ApplierOK(a) /\ Whole(a) /\ Saved(a) /\ Recorded(a) /\ Reviewed(a)

\* Where a restore may be, and that what it is about to overwrite can be restored.
RestorerInv(r) ==
  /\ op[r].phase \in {"idle", "pre", "backup", "write", "link", "event", "post"}
  /\ op[r].phase # "idle" =>
       /\ op[r].place \in Places
       /\ op[r].phase = "pre" => op[r].place \in Files \cup Ignored
       /\ op[r].phase = "backup" => op[r].place \in Outside
       /\ op[r].phase = "link" => op[r].content \in Links
       /\ op[r].phase \in {"write", "link"} =>
            \/ op[r].place \in Ignored \cup op[r].exposed
            \/ proj[op[r].place] \in history[op[r].place] \cup {Absent}

WritebackInv ==
  /\ WbTypeOK /\ RunnerOK /\ RowsOK
  /\ \A a \in Appliers : ApplierInv(a)
  /\ \A r \in Restorers : RestorerInv(r)
  /\ AppliedIsWhole

-----------------------------------------------------------------------------
(* What a step of one process leaves of the call of another.               *)

\* p's call goes on unchanged, but for what it is told of changes of its paths.
SameCall(p) ==
  /\ op'[p].phase = op[p].phase /\ op'[p].todo = op[p].todo /\ op'[p].place = op[p].place
  /\ op'[p].content = op[p].content /\ op'[p].wrote = op[p].wrote
  /\ op'[p].skips = op[p].skips /\ op'[p].dry = op[p].dry
  /\ op[p].exposed \subseteq op'[p].exposed /\ (op[p].raced => op'[p].raced)
  /\ \A x \in Places :
       proj'[x] = proj[x] \/ (x \in op'[p].exposed /\ (op[p].place = x => op'[p].raced))

Undisturbed(p) ==
  /\ op[p].phase = "idle" => op'[p].phase = "idle"
  /\ op[p].phase # "idle" => SameCall(p)

\* What can be restored, and what has been brought back, only grows.
Grows ==
  /\ \A x \in Places : history[x] \subseteq history'[x]
  /\ landed \subseteq landed'

\* A file of the copy has changed only where p is told.
CopyKept(p) == \A f \in Files : work'[f] = work[f] \/ (op[p].place = f => op'[p].raced)

LEMMA OpIs ==
  ASSUME WbTypeOK, NEW p \in Procs
  PROVE  /\ op[p] \in OpType
         /\ op[p].todo \in SUBSET Files /\ op[p].place \in Places \cup {None}
         /\ op[p].content \in Stored \cup {None} /\ op[p].wrote \in SUBSET Files
         /\ op[p].exposed \in SUBSET Places
         /\ op[p].skips \in BOOLEAN /\ op[p].allow \in BOOLEAN /\ op[p].dry \in BOOLEAN
         /\ op[p].ai \in BOOLEAN /\ op[p].raced \in BOOLEAN
<1>1. op[p] \in OpType
  BY DEF WbTypeOK
<1>2. QED
  BY <1>1 DEF OpType

LEMMA ProcsAre ==
  /\ Runner \in Procs /\ Appliers \subseteq Procs /\ Restorers \subseteq Procs
  /\ Runner \notin Appliers /\ Runner \notin Restorers /\ Appliers \cap Restorers = {}
  /\ None \notin Procs /\ None \notin Places /\ None \notin Files
  /\ Files \subseteq Places
  /\ Procs = {Runner} \cup Appliers \cup Restorers
  BY WritebackAssumption DEF Procs, Places

LEMMA NoneIsNoKind == None \notin {"file", "symlink"}
  BY WritebackAssumption

LEMMA IdleIs == Idle \in OpType /\ Idle.phase = "idle" /\ Idle.place = None
  BY DEF Idle, OpType

LEMMA ApplierKept ==
  ASSUME WbTypeOK, NEW a \in Appliers, ApplierInv(a), Undisturbed(a), Grows,
         op[a].phase # "idle" => CopyKept(a) /\ UNCHANGED <<diff, mapped>>
  PROVE  ApplierInv(a)'
<1>0. a \in Procs /\ Files \subseteq Places /\ None \notin Files
  BY ProcsAre
<1>1. CASE op[a].phase = "idle"
  <2>1. op'[a].phase = "idle"
    BY <1>1 DEF Undisturbed
  <2>2. QED
    BY <2>1 DEF ApplierInv, ApplierOK, Whole, Saved, Recorded, Reviewed
<1>2. CASE op[a].phase # "idle"
  <2>1. SameCall(a) /\ CopyKept(a) /\ UNCHANGED <<diff, mapped>>
    BY <1>2 DEF Undisturbed
  <2>2. op[a].place \in Files \cup {None}
    BY <1>2 DEF ApplierInv, ApplierOK
  <2>3. ApplierOK(a)'
    BY <1>2, <2>1 DEF ApplierInv, ApplierOK, SameCall
  <2>4. Whole(a)'
    <3>1. Entries' = Entries
      BY <2>1 DEF Entries, Differs
    <3>2. QED
      BY <1>2, <2>1, <3>1 DEF ApplierInv, Whole, SameCall, Grows
  <2>5. Saved(a)'
    BY <1>0, <2>1 DEF ApplierInv, Saved, SameCall, Grows
  <2>6. Recorded(a)'
    <3>1. op[a].wrote \subseteq Files
      BY <1>0, OpIs
    <3>2. QED
      BY <1>0, <2>1, <3>1 DEF ApplierInv, Recorded, SameCall, Grows
  <2>7. Reviewed(a)'
    BY <1>0, <2>1, <2>2 DEF ApplierInv, Reviewed, SameCall, CopyKept
  <2>8. QED
    BY <2>3, <2>4, <2>5, <2>6, <2>7 DEF ApplierInv
<1>3. QED
  BY <1>1, <1>2

LEMMA RestorerKept ==
  ASSUME NEW r \in Restorers, RestorerInv(r), Undisturbed(r), Grows
  PROVE  RestorerInv(r)'
<1>1. CASE op[r].phase = "idle"
  BY <1>1 DEF Undisturbed, RestorerInv
<1>2. CASE op[r].phase # "idle"
  BY <1>2 DEF Undisturbed, RestorerInv, SameCall, Grows
<1>3. QED
  BY <1>1, <1>2

LEMMA GoesIs ==
  ASSUME WbTypeOK, NEW p \in Procs, NEW r \in OpType, Goes(p, r), proj' = proj
  PROVE  /\ op' \in [Procs -> OpType] /\ op'[p] = r
         /\ \A q \in Procs \ {p} : op'[q] = op[q] /\ Undisturbed(q)
<1>1. op' \in [Procs -> OpType] /\ op'[p] = r /\ \A q \in Procs \ {p} : op'[q] = op[q]
  BY DEF WbTypeOK, Goes
<1>2. QED
  BY <1>1 DEF Undisturbed, SameCall

LEMMA ToldIsCall ==
  ASSUME NEW r \in OpType, NEW e \in SUBSET Places, NEW told \in BOOLEAN
  PROVE  [r EXCEPT !.exposed = e, !.raced = told] \in OpType
  BY DEF OpType

LEMMA ChangesIs ==
  ASSUME WbTypeOK, NEW p \in Procs \cup {None}, NEW x \in Places, NEW r \in OpType,
         Changes(p, x, r), \A y \in Places \ {x} : proj'[y] = proj[y]
  PROVE  /\ op' \in [Procs -> OpType] /\ (p \in Procs => op'[p] = r)
         /\ Runner # p => op'[Runner] = op[Runner]
         /\ \A q \in Procs \ {p, Runner} : Undisturbed(q)
<1>1. op' = [q \in Procs |-> op'[q]]
  BY DEF Changes
<1>2. ASSUME NEW q \in Procs
      PROVE  /\ op'[q] \in OpType
             /\ q = p => op'[q] = r
             /\ q # p /\ (q = Runner \/ op[q].phase = "idle") => op'[q] = op[q]
             /\ q \notin {p, Runner} /\ op[q].phase # "idle" => SameCall(q)
  <2>0. op[q] \in OpType
    BY OpIs
  <2>1. CASE q = p
    BY <2>1 DEF Changes
  <2>2. CASE q # p /\ (q = Runner \/ op[q].phase = "idle")
    BY <2>0, <2>2 DEF Changes
  <2>3. CASE q # p /\ q # Runner /\ op[q].phase # "idle"
    <3>1. op'[q] = [op[q] EXCEPT !.exposed = @ \cup {x}, !.raced = @ \/ op[q].place = x]
      BY <2>3 DEF Changes
    <3>2. /\ op'[q].phase = op[q].phase /\ op'[q].todo = op[q].todo
          /\ op'[q].place = op[q].place /\ op'[q].content = op[q].content
          /\ op'[q].wrote = op[q].wrote /\ op'[q].skips = op[q].skips
          /\ op'[q].dry = op[q].dry /\ op'[q].exposed = op[q].exposed \cup {x}
          /\ op[q].raced => op'[q].raced
          /\ op[q].place = x => op'[q].raced
      BY <2>0, <3>1 DEF OpType
    <3>3. op'[q] \in OpType
      <4> DEFINE e == op[q].exposed \cup {x}
                 told == op[q].raced \/ op[q].place = x
      <4>1. e \in SUBSET Places /\ told \in BOOLEAN
        BY OpIs
      <4>2. op'[q] = [op[q] EXCEPT !.exposed = e, !.raced = told]
        BY <3>1
      <4> HIDE DEF e, told
      <4>3. [op[q] EXCEPT !.exposed = e, !.raced = told] \in OpType
        BY <2>0, <4>1, ToldIsCall, Zenon
      <4>4. QED
        BY <4>2, <4>3, Zenon
    <3>4. \A y \in Places : proj'[y] = proj[y] \/ y = x
      OBVIOUS
    <3>5. SameCall(q)
      BY <3>2, <3>4 DEF SameCall
    <3>6. QED
      BY <2>3, <3>3, <3>5
  <2>4. QED
    BY <2>1, <2>2, <2>3
<1>3. op' \in [Procs -> OpType]
  BY <1>1, <1>2
<1>4. QED
  BY <1>2, <1>3, ProcsAre DEF Undisturbed

LEMMA EventIs ==
  ASSUME NEW happens \in BOOLEAN, Event(happens), events \in 0..MaxEvents
  PROVE  events' \in 0..MaxEvents
  BY WritebackAssumption DEF Event

\* What is made of a link can be in a folder.
LEMMA SymlinkedIs ==
  ASSUME NEW x, NEW c \in Links, NEW made \in Symlinked(x, c)
  PROVE  made \in InTree
<1>1. c \in Stored /\ Payload(c) \in Stored
  BY WritebackAssumption DEF Stored, Payloads
<1>2. QED
  BY <1>1 DEF Symlinked, InTree

\* Entries and reports unchanged.
LEMMA WholeKept ==
  ASSUME AppliedIsWhole, Grows, UNCHANGED <<diff, mapped, status, session>>
  PROVE  AppliedIsWhole'
<1>1. Entries' = Entries
  BY DEF Entries, Differs
<1>2. QED
  BY <1>1 DEF AppliedIsWhole, Grows

\* A step of an apply that keeps its own part of the invariant keeps all of it.
LEMMA ApplierStep ==
  ASSUME WritebackInv, NEW a \in Appliers, WbTypeOK', ApplierInv(a)',
         \A q \in Procs \ {a, Runner} : Undisturbed(q), op'[Runner] = op[Runner],
         UNCHANGED <<diff, mapped, work>>, Grows, RowsOK', AppliedIsWhole',
         op[a].phase # "idle" \/ UNCHANGED <<status, session>>
  PROVE  WritebackInv'
<1>1. RunnerOK'
  <2>1. op[a].phase # "idle" => diff # None
    BY DEF WritebackInv, ApplierInv, ApplierOK
  <2>2. QED
    BY <2>1 DEF WritebackInv, RunnerOK
<1>2. ASSUME NEW b \in Appliers PROVE ApplierInv(b)'
  <2>1. CASE b = a
    BY <2>1
  <2>2. CASE b # a
    <3>1. Undisturbed(b)
      BY <2>2, ProcsAre
    <3>2. CopyKept(b)
      BY DEF CopyKept
    <3>3. QED
      BY <3>1, <3>2, ApplierKept DEF WritebackInv
  <2>3. QED
    BY <2>1, <2>2
<1>3. ASSUME NEW r \in Restorers PROVE RestorerInv(r)'
  BY <1>3, ProcsAre, RestorerKept DEF WritebackInv
<1>4. QED
  BY <1>1, <1>2, <1>3 DEF WritebackInv

LEMMA RestorerStep ==
  ASSUME WritebackInv, NEW r \in Restorers, WbTypeOK', RestorerInv(r)',
         \A q \in Procs \ {r, Runner} : Undisturbed(q), op'[Runner] = op[Runner],
         UNCHANGED <<sandboxVars, landed>>, Grows, RowsOK'
  PROVE  WritebackInv'
<1>0. UNCHANGED <<diff, mapped, work, status, session>>
  BY DEF sandboxVars
<1>1. RunnerOK'
  BY <1>0 DEF WritebackInv, RunnerOK
<1>2. ASSUME NEW a \in Appliers PROVE ApplierInv(a)'
  <2>1. Undisturbed(a)
    BY ProcsAre
  <2>2. CopyKept(a)
    BY <1>0 DEF CopyKept
  <2>3. QED
    BY <1>0, <2>1, <2>2, ApplierKept DEF WritebackInv
<1>3. ASSUME NEW q \in Restorers PROVE RestorerInv(q)'
  <2>1. CASE q = r
    BY <2>1
  <2>2. CASE q # r
    BY <2>2, ProcsAre, RestorerKept DEF WritebackInv
  <2>3. QED
    BY <2>1, <2>2
<1>4. AppliedIsWhole'
  BY <1>0, WholeKept DEF WritebackInv
<1>5. QED
  BY <1>1, <1>2, <1>3, <1>4 DEF WritebackInv

LEMMA TypesKept ==
  ASSUME WbTypeOK, op' \in [Procs -> OpType], events' \in 0..MaxEvents,
         UNCHANGED <<proj, history, fileKind, sandboxVars, landed, stale>>
  PROVE  WbTypeOK'
  BY DEF WbTypeOK, sandboxVars

\* A step of an apply that changes nothing but its own call.
LEMMA OnlyItsCall ==
  ASSUME WritebackInv, NEW a \in Appliers, NEW r \in OpType, Goes(a, r),
         events' \in 0..MaxEvents,
         UNCHANGED <<proj, history, fileKind, sandboxVars, landed, stale>>,
         op'[a] = r => ApplierInv(a)'
  PROVE  WritebackInv'
<1>0. a \in Procs /\ a # Runner /\ Runner \in Procs
  BY ProcsAre
<1>1. /\ op' \in [Procs -> OpType] /\ op'[a] = r
      /\ \A q \in Procs \ {a} : op'[q] = op[q] /\ Undisturbed(q)
  BY <1>0, GoesIs DEF WritebackInv
<1>2. WbTypeOK'
  BY <1>1, TypesKept DEF WritebackInv
<1>3. Grows
  BY DEF Grows
<1>4. UNCHANGED <<diff, mapped, work, status, session>>
  BY DEF sandboxVars
<1>5. AppliedIsWhole'
  BY <1>3, <1>4, WholeKept DEF WritebackInv
<1>6. RowsOK'
  BY DEF WritebackInv, RowsOK
<1>7. QED
  BY <1>0, <1>1, <1>2, <1>3, <1>4, <1>5, <1>6, ApplierStep

-----------------------------------------------------------------------------
(* The steps of an apply.                                                  *)

LEMMA EntriesAre == Entries \subseteq Files
  BY DEF Entries

LEMMA StartApplyKeeps ==
  ASSUME WritebackInv, NEW a \in Appliers, NEW allow \in BOOLEAN, NEW dry \in BOOLEAN,
         StartApply(a, allow, dry)
  PROVE  WritebackInv'
<1> DEFINE ai == IsAiChange
           b == [Idle EXCEPT !.allow = allow, !.dry = dry, !.ai = ai]
           r == IF dry THEN [b EXCEPT !.phase = "entries", !.todo = Entries]
                ELSE [b EXCEPT !.phase = "pre"]
<1>1. Goes(a, r)
  BY DEF StartApply
<1>2. ai \in BOOLEAN
  BY DEF IsAiChange
<1> HIDE DEF ai
<1>3. /\ r \in OpType /\ r.place = None /\ r.wrote = {} /\ ~r.skips /\ r.dry = dry
      /\ (dry /\ r.phase = "entries") \/ (~dry /\ r.phase = "pre" /\ r.todo = {})
  BY <1>2, EntriesAre DEF Idle, OpType
<1> HIDE DEF r
<1>4. events' \in 0..MaxEvents
  BY EventIs DEF StartApply, WritebackInv, WbTypeOK
<1>5. UNCHANGED <<proj, history, fileKind, sandboxVars, landed, stale>>
  BY DEF StartApply
<1>6. diff' # None
  BY <1>5 DEF StartApply, Loadable, sandboxVars
<1>7. op'[a] = r => ApplierInv(a)'
  <2> SUFFICES ASSUME op'[a] = r PROVE ApplierInv(a)'
    OBVIOUS
  <2>1. ApplierOK(a)'
    <3>1. r.todo \subseteq Files /\ None \notin Files
      BY <1>3, ProcsAre DEF OpType
    <3>2. QED
      BY <1>3, <1>6, <3>1 DEF ApplierOK
  <2>2. Whole(a)'
    BY <1>3 DEF Whole
  <2>3. Saved(a)' /\ Recorded(a)' /\ Reviewed(a)'
    BY <1>3 DEF Saved, Recorded, Reviewed
  <2>4. QED
    BY <2>1, <2>2, <2>3 DEF ApplierInv
<1>8. QED
  BY <1>1, <1>3, <1>4, <1>5, <1>7, OnlyItsCall

LEMMA CheckEntryKeeps ==
  ASSUME WritebackInv, NEW a \in Appliers, NEW f \in Files, CheckEntry(a, f)
  PROVE  WritebackInv'
<1> DEFINE b == [op[a] EXCEPT !.todo = @ \ {f}]
           r == IF ~Accepted(f, op[a].allow) THEN [b EXCEPT !.skips = TRUE]
                ELSE IF op[a].dry THEN b
                ELSE [b EXCEPT !.place = f, !.raced = FALSE]
<1>0. /\ a \in Procs /\ f \in Places /\ op[a] \in OpType /\ op[a].todo \in SUBSET Files
      /\ f # None
  BY ProcsAre, OpIs DEF WritebackInv
<1>1. /\ op[a].phase = "entries" /\ op[a].place = None /\ f \in op[a].todo
      /\ Goes(a, r) /\ UNCHANGED <<proj, history, fileKind, sandboxVars, landed, stale, events>>
  BY DEF CheckEntry
<1>2. /\ r \in OpType /\ r.phase = op[a].phase /\ r.todo = op[a].todo \ {f}
      /\ r.wrote = op[a].wrote /\ r.exposed = op[a].exposed /\ r.dry = op[a].dry
  BY <1>0 DEF OpType
<1>3. \/ r.place = None /\ r.skips
      \/ r.place = None /\ op[a].dry /\ r.skips = op[a].skips
      \/ r.place = f /\ ~op[a].dry /\ r.skips = op[a].skips /\ Accepted(f, op[a].allow)
  BY <1>0, <1>1 DEF OpType
<1> HIDE DEF r
<1>4. UNCHANGED <<diff, mapped, work, proj, history, landed>>
  BY <1>1 DEF sandboxVars
<1>5. Entries' = Entries
  BY <1>4 DEF Entries, Differs
<1>6. ApplierInv(a)
  BY DEF WritebackInv
<1>7. ASSUME op'[a] = r PROVE ApplierInv(a)'
  <2>1. ApplierOK(a)'
    BY <1>0, <1>1, <1>2, <1>3, <1>4, <1>6, <1>7 DEF ApplierInv, ApplierOK
  <2>2. Whole(a)'
    <3>1. CASE r.skips
      BY <1>1, <1>2, <1>4, <1>6, <1>7, <3>1 DEF ApplierInv, Whole
    <3>2. CASE op[a].dry
      BY <1>2, <1>7, <3>2 DEF Whole
    <3>3. CASE r.place = f /\ ~op[a].dry /\ r.skips = op[a].skips
      <4>1. /\ op[a].wrote \subseteq landed
            /\ op[a].skips \/ Entries \subseteq op[a].todo \cup op[a].wrote \cup {None}
        BY <1>1, <1>6, <3>3 DEF ApplierInv, Whole
      <4>2. op[a].skips \/ Entries \subseteq r.todo \cup r.wrote \cup {r.place}
        BY <1>0, <1>2, <3>3, <4>1, EntriesAre, ProcsAre
      <4>3. QED
        BY <1>2, <1>4, <1>5, <1>7, <3>3, <4>1, <4>2 DEF Whole
    <3>4. QED
      BY <1>3, <3>1, <3>2, <3>3
  <2>3. Saved(a)'
    BY <1>1, <1>2, <1>4, <1>6, <1>7 DEF ApplierInv, Saved
  <2>4. Recorded(a)' /\ Reviewed(a)'
    <3>1. Accepted(f, op[a].allow) =>
            proj[f] = diff[f].old /\ (diff[f].new = Absent \/ work[f] = diff[f].new)
      BY DEF Accepted, Unsafe
    <3>2. QED
      BY <1>1, <1>2, <1>3, <1>4, <1>7, <3>1 DEF Recorded, Reviewed
  <2>5. QED
    BY <2>1, <2>2, <2>3, <2>4 DEF ApplierInv
<1>8. events' \in 0..MaxEvents
  BY <1>1 DEF WritebackInv, WbTypeOK
<1>9. QED
  BY <1>1, <1>2, <1>7, <1>8, OnlyItsCall

LEMMA EndDryRunKeeps ==
  ASSUME WritebackInv, NEW a \in Appliers, EndDryRun(a)
  PROVE  WritebackInv'
<1>1. /\ Goes(a, Idle) /\ UNCHANGED <<proj, history, fileKind, sandboxVars, landed, stale>>
      /\ events' \in 0..MaxEvents
  BY DEF EndDryRun, WritebackInv, WbTypeOK
<1>2. op'[a] = Idle => ApplierInv(a)'
  BY IdleIs DEF ApplierInv, ApplierOK, Whole, Saved, Recorded, Reviewed
<1>3. QED
  BY <1>1, <1>2, IdleIs, OnlyItsCall

LEMMA SnapshotAfterApplyKeeps ==
  ASSUME WritebackInv, NEW a \in Appliers, SnapshotAfterApply(a)
  PROVE  WritebackInv'
<1> DEFINE r == IF op[a].wrote = {} THEN [op[a] EXCEPT !.phase = "report"]
                ELSE [op[a] EXCEPT !.phase = "post"]
<1>0. a \in Procs /\ op[a] \in OpType
  BY ProcsAre, OpIs DEF WritebackInv
<1>1. /\ op[a].phase = "entries" /\ op[a].place = None /\ op[a].todo = {} /\ ~op[a].dry
      /\ Goes(a, r) /\ UNCHANGED <<proj, history, fileKind, sandboxVars, landed, stale, events>>
  BY DEF SnapshotAfterApply, Done
<1>2. /\ r \in OpType /\ r.place = None /\ r.todo = {} /\ r.wrote = op[a].wrote
      /\ r.skips = op[a].skips /\ ~r.dry /\ r.content = op[a].content
      /\ r.phase = "post" \/ (r.phase = "report" /\ r.wrote = {})
  BY <1>0, <1>1 DEF OpType
<1> HIDE DEF r
<1>3. UNCHANGED <<diff, mapped, work, proj, history, landed>>
  BY <1>1 DEF sandboxVars
<1>4. Entries' = Entries
  BY <1>3 DEF Entries, Differs
<1>5. ApplierInv(a)
  BY DEF WritebackInv
<1>6. ASSUME op'[a] = r PROVE ApplierInv(a)'
  <2>1. ApplierOK(a)'
    BY <1>1, <1>2, <1>3, <1>5, <1>6 DEF ApplierInv, ApplierOK
  <2>2. Whole(a)'
    BY <1>1, <1>2, <1>3, <1>4, <1>5, <1>6 DEF ApplierInv, Whole
  <2>3. Saved(a)' /\ Recorded(a)' /\ Reviewed(a)'
    BY <1>2, <1>6 DEF Saved, Recorded, Reviewed
  <2>4. QED
    BY <2>1, <2>2, <2>3 DEF ApplierInv
<1>7. events' \in 0..MaxEvents
  BY <1>1 DEF WritebackInv, WbTypeOK
<1>8. QED
  BY <1>1, <1>2, <1>6, <1>7, OnlyItsCall

\* What a snapshot makes restorable, whoever takes it.
LEMMA SnapshotIs ==
  ASSUME WritebackInv, NEW p \in Procs, Snapshot(p)
  PROVE  \E missed \in SUBSET Flaky :
           /\ Goes(p, AfterSnapshot(p, missed))
           /\ events' \in 0..MaxEvents /\ RowsOK' /\ Grows
           /\ history' \in [Places -> SUBSET Stored]
           /\ fileKind' \in [Files -> {"file", "symlink", None}]
           /\ \A f \in Files \ missed : proj[f] \in history'[f] \cup {Absent}
           /\ op[p].phase \in {"pre", "post"}
           /\ UNCHANGED <<proj, sandboxVars, landed, stale>>
<1>1. PICK missed \in SUBSET Flaky :
        /\ Event(missed # {})
        /\ history' = [x \in Places |->
                         IF x \in Files \ missed
                         THEN history[x] \cup ({proj[x]} \cap Stored)
                         ELSE history[x]]
        /\ fileKind' = [f \in Files |-> IF f \in missed \/ proj[f] = Absent
                                       THEN fileKind[f] ELSE Kind(proj[f])]
        /\ Goes(p, AfterSnapshot(p, missed))
  BY DEF Snapshot
<1>2. UNCHANGED <<proj, sandboxVars, landed, stale>> /\ op[p].phase \in {"pre", "post"}
  BY DEF Snapshot
<1>3. /\ proj \in [Places -> InTree] /\ history \in [Places -> SUBSET Stored]
      /\ fileKind \in [Files -> {"file", "symlink", None}] /\ Files \subseteq Places
      /\ events \in 0..MaxEvents
  BY ProcsAre DEF WritebackInv, WbTypeOK
<1>4. events' \in 0..MaxEvents
  BY <1>1, <1>3, EventIs
<1>5. history' \in [Places -> SUBSET Stored]
  BY <1>1, <1>3
<1>6. fileKind' \in [Files -> {"file", "symlink", None}]
  BY <1>1, <1>3 DEF Kind
<1>7. Grows
  BY <1>1, <1>2, <1>3 DEF Grows
<1>8. \A f \in Files \ missed : proj[f] \in history'[f] \cup {Absent}
  BY <1>1, <1>3 DEF InTree
<1>9. ASSUME NEW f \in Files, history'[f] # {} PROVE fileKind'[f] # None
  <2>1. None \notin {"file", "symlink"} /\ Absent \notin Stored
    BY NoneIsNoKind, WritebackAssumption
  <2>2. CASE f \in missed \/ proj[f] = Absent
    <3>1. history'[f] = history[f] /\ fileKind'[f] = fileKind[f]
      BY <1>1, <1>3, <2>1, <2>2
    <3>2. QED
      BY <1>9, <3>1 DEF WritebackInv, RowsOK
  <2>3. CASE ~(f \in missed \/ proj[f] = Absent)
    <3>1. fileKind'[f] = Kind(proj[f])
      BY <1>1, <2>3
    <3>2. QED
      BY <2>1, <3>1 DEF Kind
  <2>4. QED
    BY <2>2, <2>3
<1>10. QED
  BY <1>1, <1>2, <1>4, <1>5, <1>6, <1>7, <1>8, <1>9 DEF RowsOK

LEMMA SnapshotOfApplyKeeps ==
  ASSUME WritebackInv, NEW a \in Appliers, Snapshot(a)
  PROVE  WritebackInv'
<1>0. /\ a \in Procs /\ a # Runner /\ a \notin Restorers /\ op[a] \in OpType
      /\ Runner \in Procs /\ Flaky \subseteq Files /\ Files \subseteq Places
      /\ None \notin Files
  BY ProcsAre, OpIs, WritebackAssumption DEF WritebackInv
<1>1. PICK missed \in SUBSET Flaky :
        /\ Goes(a, AfterSnapshot(a, missed))
        /\ events' \in 0..MaxEvents /\ RowsOK' /\ Grows
        /\ history' \in [Places -> SUBSET Stored]
        /\ fileKind' \in [Files -> {"file", "symlink", None}]
        /\ \A f \in Files \ missed : proj[f] \in history'[f] \cup {Absent}
        /\ op[a].phase \in {"pre", "post"}
        /\ UNCHANGED <<proj, sandboxVars, landed, stale>>
  BY <1>0, SnapshotIs
<1> DEFINE r == AfterSnapshot(a, missed)
<1>2. /\ r \in OpType /\ r.place = op[a].place /\ r.wrote = op[a].wrote
      /\ r.skips = op[a].skips /\ r.dry = op[a].dry /\ r.exposed = missed
      /\ \/ op[a].phase = "pre" /\ r.phase = "entries" /\ r.todo = Entries
         \/ op[a].phase = "post" /\ r.phase = "report" /\ r.todo = op[a].todo
  <2>1. CASE op[a].phase = "pre"
    <3>1. r = [[op[a] EXCEPT !.exposed = missed] EXCEPT !.phase = "entries", !.todo = Entries]
      BY <1>0, <2>1 DEF AfterSnapshot, OpType
    <3>2. QED
      BY <1>0, <2>1, <3>1, EntriesAre DEF OpType
  <2>2. CASE op[a].phase = "post"
    <3>1. r = [[op[a] EXCEPT !.exposed = missed] EXCEPT !.phase = "report"]
      BY <1>0, <2>2 DEF AfterSnapshot, OpType
    <3>2. QED
      BY <1>0, <2>2, <3>1 DEF OpType
  <2>3. QED
    BY <1>1, <2>1, <2>2
<1> HIDE DEF r
<1>3. /\ op' \in [Procs -> OpType] /\ op'[a] = r
      /\ \A q \in Procs \ {a} : op'[q] = op[q] /\ Undisturbed(q)
  BY <1>0, <1>1, <1>2, GoesIs DEF r, WritebackInv
<1>4. UNCHANGED <<diff, mapped, work, status, session>>
  BY <1>1 DEF sandboxVars
<1>5. WbTypeOK'
  BY <1>1, <1>3 DEF WritebackInv, WbTypeOK, sandboxVars
<1>6. Entries' = Entries
  BY <1>4 DEF Entries, Differs
<1>7. ApplierInv(a)
  BY DEF WritebackInv
<1>8. ApplierInv(a)'
  <2>1. ApplierOK(a)'
    BY <1>0, <1>2, <1>3, <1>4, <1>7, EntriesAre DEF ApplierInv, ApplierOK
  <2>2. Whole(a)'
    BY <1>1, <1>2, <1>3, <1>6, <1>7 DEF ApplierInv, ApplierOK, Whole
  <2>3. Saved(a)'
    BY <1>1, <1>2, <1>3 DEF Saved
  <2>4. Recorded(a)'
    <3>1. op[a].wrote \subseteq Files
      BY <1>0 DEF OpType
    <3>2. QED
      BY <1>1, <1>2, <1>3, <3>1 DEF Recorded
  <2>5. Reviewed(a)'
    BY <1>2, <1>3, <1>7 DEF ApplierInv, ApplierOK, Reviewed
  <2>6. QED
    BY <2>1, <2>2, <2>3, <2>4, <2>5 DEF ApplierInv
<1>9. AppliedIsWhole'
  BY <1>1, <1>4, WholeKept DEF WritebackInv
<1>10. QED
  BY <1>0, <1>1, <1>3, <1>4, <1>5, <1>8, <1>9, ApplierStep

\* A file of the diff is at its destination: written, unlinked or linked.
LEMMA LandKeeps ==
  ASSUME WritebackInv, NEW a \in Appliers, op[a].phase \in {"entries", "link"},
         op[a].place # None, NEW c \in InTree, proj' = [proj EXCEPT ![op[a].place] = c],
         landed' = landed \cup {op[a].place}, Changes(a, op[a].place, Landed(a)),
         UNCHANGED <<history, fileKind, sandboxVars, stale>>, events' \in 0..MaxEvents
  PROVE  WritebackInv'
<1> DEFINE f == op[a].place
           r == Landed(a)
<1>0. /\ a \in Procs /\ a # Runner /\ op[a] \in OpType /\ Files \subseteq Places
      /\ None \notin Files /\ WbTypeOK /\ ApplierInv(a)
      /\ op[a].todo \subseteq Files /\ op[a].wrote \subseteq Files
  BY ProcsAre, OpIs DEF WritebackInv
<1>1. f \in Files /\ f # None /\ ~op[a].dry /\ f \notin op[a].todo
  BY <1>0 DEF ApplierInv, ApplierOK
<1>2. /\ r \in OpType /\ r.phase = "entries" /\ r.place = None
      /\ r.todo = op[a].todo /\ r.wrote = op[a].wrote \cup {f} /\ r.exposed = op[a].exposed
      /\ r.skips = op[a].skips /\ ~r.dry
  BY <1>0, <1>1 DEF Landed, OpType
<1> HIDE DEF r
<1>3. /\ op' \in [Procs -> OpType] /\ op'[a] = r /\ op'[Runner] = op[Runner]
      /\ \A q \in Procs \ {a, Runner} : Undisturbed(q)
  <2>1. Changes(a, f, r) /\ f \in Places
    BY <1>0, <1>1 DEF r
  <2>2. \A y \in Places \ {f} : proj'[y] = proj[y]
    BY <1>0 DEF WbTypeOK
  <2> HIDE DEF f
  <2>3. QED
    BY <1>0, <1>2, <2>1, <2>2, ChangesIs DEF f
<1>4. UNCHANGED <<diff, mapped, work, status, session>>
  BY DEF sandboxVars
<1>5. proj' \in [Places -> InTree] /\ \A x \in Files \ {f} : proj'[x] = proj[x]
  BY <1>0, <1>1 DEF WbTypeOK
<1>6. WbTypeOK'
  BY <1>0, <1>1, <1>3, <1>5 DEF WbTypeOK, sandboxVars
<1>7. Entries' = Entries
  BY <1>4 DEF Entries, Differs
<1>8. Grows
  BY DEF Grows
<1>9. ApplierInv(a)'
  <2>1. ApplierOK(a)'
    BY <1>0, <1>1, <1>2, <1>3, <1>4 DEF ApplierInv, ApplierOK
  <2>2. Whole(a)'
    BY <1>0, <1>1, <1>2, <1>3, <1>7 DEF ApplierInv, Whole
  <2>3. Saved(a)'
    BY <1>0, <1>1, <1>2, <1>3, <1>5 DEF ApplierInv, Saved
  <2>4. Recorded(a)' /\ Reviewed(a)'
    BY <1>2, <1>3 DEF Recorded, Reviewed
  <2>5. QED
    BY <2>1, <2>2, <2>3, <2>4 DEF ApplierInv
<1>10. AppliedIsWhole'
  BY <1>4, <1>8, WholeKept DEF WritebackInv
<1>11. RowsOK'
  BY DEF WritebackInv, RowsOK
<1>12. QED
  BY <1>3, <1>4, <1>6, <1>8, <1>9, <1>10, <1>11, ApplierStep

\* What is in the copy, in the diff and in the call can be in the folder.
LEMMA WriteFileKeeps ==
  ASSUME WritebackInv, NEW a \in Appliers, WriteFile(a)
  PROVE  WritebackInv'
<1>1. op[a].place \in Files /\ op[a].phase = "entries" /\ op[a].place # None
  BY DEF WriteFile, WritebackInv, ApplierInv, ApplierOK
<1>2. PICK c \in InTree : proj' = [proj EXCEPT ![op[a].place] = c]
  BY <1>1 DEF WriteFile, WritebackInv, WbTypeOK, InTree
<1>3. /\ landed' = landed \cup {op[a].place} /\ Changes(a, op[a].place, Landed(a))
      /\ UNCHANGED <<history, fileKind, sandboxVars, stale>> /\ events' \in 0..MaxEvents
  BY DEF WriteFile, WritebackInv, WbTypeOK
<1>4. QED
  BY <1>1, <1>2, <1>3, LandKeeps

LEMMA LinkDestKeeps ==
  ASSUME WritebackInv, NEW a \in Appliers, LinkDest(a)
  PROVE  WritebackInv'
<1>1. op[a].phase = "link" /\ op[a].place # None /\ op[a].content \in Links
  BY DEF LinkDest, WritebackInv, ApplierInv, ApplierOK
<1>2. PICK made \in Symlinked(op[a].place, op[a].content) :
        /\ Event(Denied(op[a].place, made))
        /\ proj' = [proj EXCEPT ![op[a].place] = made]
  BY DEF LinkDest
<1>3. /\ landed' = landed \cup {op[a].place} /\ Changes(a, op[a].place, Landed(a))
      /\ UNCHANGED <<history, fileKind, sandboxVars, stale>>
  BY DEF LinkDest
<1>4. made \in InTree
  BY <1>1, <1>2, SymlinkedIs
<1>5. events' \in 0..MaxEvents
  BY <1>2, EventIs DEF Denied, WritebackInv, WbTypeOK
<1>6. QED
  BY <1>1, <1>2, <1>3, <1>4, <1>5, LandKeeps

LEMMA UnlinkDestKeeps ==
  ASSUME WritebackInv, NEW a \in Appliers, UnlinkDest(a)
  PROVE  WritebackInv'
<1> DEFINE f == op[a].place
           r == [op[a] EXCEPT !.phase = "link", !.content = work[f]]
<1>0. /\ a \in Procs /\ a # Runner /\ op[a] \in OpType /\ Files \subseteq Places
      /\ None \notin Files /\ WbTypeOK /\ ApplierInv(a) /\ Links \subseteq Stored
  BY ProcsAre, OpIs, WritebackAssumption DEF WritebackInv, Stored
<1>1. /\ op[a].phase = "entries" /\ f # None /\ diff[f].new # Absent /\ work[f] \in Links
      /\ proj' = [proj EXCEPT ![f] = Absent] /\ Changes(a, f, r)
      /\ UNCHANGED <<history, fileKind, sandboxVars, landed, stale, events>>
  BY DEF UnlinkDest
<1>2. f \in Files /\ ~op[a].dry
  BY <1>0, <1>1 DEF ApplierInv, ApplierOK
<1>3. /\ r \in OpType /\ r.phase = "link" /\ r.place = f /\ r.content = work[f]
      /\ r.todo = op[a].todo /\ r.wrote = op[a].wrote /\ r.exposed = op[a].exposed
      /\ r.skips = op[a].skips /\ ~r.dry /\ r.raced = op[a].raced
  BY <1>0, <1>1, <1>2 DEF OpType
<1> HIDE DEF r
<1>4. /\ op' \in [Procs -> OpType] /\ op'[a] = r /\ op'[Runner] = op[Runner]
      /\ \A q \in Procs \ {a, Runner} : Undisturbed(q)
  <2>1. f \in Places /\ \A y \in Places \ {f} : proj'[y] = proj[y]
    BY <1>0, <1>1, <1>2 DEF WbTypeOK
  <2> HIDE DEF f
  <2>2. QED
    BY <1>0, <1>1, <1>3, <2>1, ChangesIs
<1>5. UNCHANGED <<diff, mapped, work, status, session>>
  BY <1>1 DEF sandboxVars
<1>6. /\ proj' \in [Places -> InTree] /\ proj'[f] = Absent
      /\ \A x \in Files \ {f} : proj'[x] = proj[x]
  BY <1>0, <1>1, <1>2 DEF WbTypeOK, InTree
<1>7. WbTypeOK'
  BY <1>0, <1>1, <1>4, <1>6 DEF WbTypeOK, sandboxVars
<1>8. Entries' = Entries
  BY <1>5 DEF Entries, Differs
<1>9. Grows
  BY <1>1 DEF Grows
<1>10. ApplierInv(a)'
  <2>1. ApplierOK(a)'
    BY <1>0, <1>1, <1>2, <1>3, <1>4, <1>5 DEF ApplierInv, ApplierOK
  <2>2. Whole(a)'
    BY <1>0, <1>1, <1>2, <1>3, <1>4, <1>5, <1>8 DEF ApplierInv, Whole
  <2>3. Saved(a)'
    BY <1>0, <1>1, <1>2, <1>3, <1>4, <1>6 DEF ApplierInv, Saved
  <2>4. Recorded(a)'
    BY <1>3, <1>4 DEF Recorded
  <2>5. Reviewed(a)'
    BY <1>0, <1>1, <1>3, <1>4, <1>5 DEF ApplierInv, Reviewed
  <2>6. QED
    BY <2>1, <2>2, <2>3, <2>4, <2>5 DEF ApplierInv
<1>11. AppliedIsWhole'
  BY <1>5, <1>9, WholeKept DEF WritebackInv
<1>12. RowsOK'
  BY <1>1 DEF WritebackInv, RowsOK
<1>13. QED
  BY <1>1, <1>4, <1>5, <1>7, <1>9, <1>10, <1>11, <1>12, ApplierStep

\* An apply that ends may report of the whole diff, or of nothing.
LEMMA ReportKeeps ==
  ASSUME WritebackInv, NEW a \in Appliers, op[a].phase # "idle",
         NEW r \in OpType, Goes(a, r), op'[a] = r => ApplierInv(a)',
         UNCHANGED <<proj, history, fileKind, work, mapped, diff, cleaner, landed, stale>>,
         events' \in 0..MaxEvents,
         status' \in {"none", "running", "complete", "command_failed", "applied",
                      "partially_applied", "failed"},
         session' \in {"none", "sandbox_complete", "command_failed", "applied",
                       "partially_applied"},
         "applied" \in {status', session'} =>
           "applied" \in {status, session} \/ Entries \subseteq landed
  PROVE  WritebackInv'
<1>0. a \in Procs /\ a # Runner /\ Runner \in Procs
  BY ProcsAre
<1>1. /\ op' \in [Procs -> OpType] /\ op'[a] = r
      /\ \A q \in Procs \ {a} : op'[q] = op[q] /\ Undisturbed(q)
  BY <1>0, GoesIs DEF WritebackInv
<1>2. WbTypeOK'
  BY <1>1 DEF WritebackInv, WbTypeOK
<1>3. Grows
  BY DEF Grows
<1>4. Entries' = Entries
  BY DEF Entries, Differs
<1>5. AppliedIsWhole'
  BY <1>4 DEF AppliedIsWhole, WritebackInv
<1>6. RowsOK'
  BY DEF WritebackInv, RowsOK
<1>7. QED
  BY <1>0, <1>1, <1>2, <1>3, <1>5, <1>6, ApplierStep

\* In its report an apply that has skipped nothing has brought back everything.
LEMMA OutcomeIsWhole ==
  ASSUME WritebackInv, NEW a \in Appliers, op[a].phase = "report", Outcome(a) = "applied"
  PROVE  Entries \subseteq landed
<1>1. ApplierInv(a) /\ ~op[a].skips /\ None \notin Files
  BY ProcsAre DEF WritebackInv, Outcome
<1>2. op[a].place = None /\ op[a].todo = {} /\ ~op[a].dry
  BY <1>1 DEF ApplierInv, ApplierOK
<1>3. op[a].wrote \subseteq landed /\ Entries \subseteq op[a].wrote \cup {None}
  BY <1>1, <1>2 DEF ApplierInv, Whole
<1>4. QED
  BY <1>1, <1>3, EntriesAre

LEMMA IdleApplier ==
  ASSUME NEW a \in Appliers, op'[a] = Idle
  PROVE  ApplierInv(a)'
  BY IdleIs DEF ApplierInv, ApplierOK, Whole, Saved, Recorded, Reviewed

LEMMA CompleteSessionKeeps ==
  ASSUME WritebackInv, NEW a \in Appliers, CompleteSession(a)
  PROVE  WritebackInv'
<1> DEFINE r == [op[a] EXCEPT !.ai = FALSE]
<1>1. /\ op[a].phase = "report" /\ session' = Outcome(a) /\ Goes(a, r)
      /\ UNCHANGED <<proj, history, fileKind, work, mapped, diff, status, cleaner, landed,
                     stale, events>>
  BY DEF CompleteSession
<1>2. op[a] \in OpType
  BY ProcsAre, OpIs DEF WritebackInv
<1>3. /\ r \in OpType /\ r.phase = op[a].phase /\ r.todo = op[a].todo
      /\ r.place = op[a].place /\ r.content = op[a].content /\ r.wrote = op[a].wrote
      /\ r.skips = op[a].skips /\ r.dry = op[a].dry /\ r.exposed = op[a].exposed
      /\ r.raced = op[a].raced
  BY <1>2 DEF OpType
<1> HIDE DEF r
<1>4. Entries' = Entries
  BY <1>1 DEF Entries, Differs
<1>5. op'[a] = r => ApplierInv(a)'
  BY <1>1, <1>3, <1>4
     DEF WritebackInv, ApplierInv, ApplierOK, Whole, Saved, Recorded, Reviewed
<1>6. events' \in 0..MaxEvents
  BY <1>1 DEF WritebackInv, WbTypeOK
<1>7. /\ session' \in {"applied", "partially_applied"}
      /\ session' = "applied" => Entries \subseteq landed
  BY <1>1, OutcomeIsWhole DEF Outcome
<1>8. QED
  BY <1>1, <1>3, <1>5, <1>6, <1>7, ReportKeeps DEF WritebackInv, WbTypeOK

LEMMA ReportApplyKeeps ==
  ASSUME WritebackInv, NEW a \in Appliers, ReportApply(a)
  PROVE  WritebackInv'
<1>1. /\ op[a].phase = "report" /\ NewStatus(Outcome(a)) /\ Goes(a, Idle)
      /\ UNCHANGED <<proj, history, fileKind, work, mapped, diff, session, cleaner, landed,
                     stale, events>>
  BY DEF ReportApply
<1>2. /\ status' \in {"none", "applied", "partially_applied"}
      /\ status' = "applied" => Entries \subseteq landed
  BY <1>1, OutcomeIsWhole DEF Outcome, NewStatus
<1>3. events' \in 0..MaxEvents
  BY <1>1 DEF WritebackInv, WbTypeOK
<1>4. QED
  BY <1>1, <1>2, <1>3, IdleIs, IdleApplier, ReportKeeps DEF WritebackInv, WbTypeOK

LEMMA FailApplyKeeps ==
  ASSUME WritebackInv, NEW a \in Appliers, FailApply(a)
  PROVE  WritebackInv'
<1>1. /\ op[a].phase # "idle" /\ NewStatus("failed") /\ Goes(a, Idle) /\ Event(Able(a))
      /\ UNCHANGED <<proj, history, fileKind, work, mapped, diff, session, cleaner, landed,
                     stale>>
  BY DEF FailApply
<1>2. status' \in {"none", "failed"}
  BY <1>1 DEF NewStatus
<1>3. events' \in 0..MaxEvents
  BY <1>1, WritebackAssumption DEF Event, WritebackInv, WbTypeOK
<1>4. QED
  BY <1>1, <1>2, <1>3, IdleIs, IdleApplier, ReportKeeps DEF WritebackInv, WbTypeOK

LEMMA ApplierDies ==
  ASSUME WritebackInv, NEW a \in Appliers, Dies(a)
  PROVE  WritebackInv'
<1>1. /\ Goes(a, Idle)
      /\ UNCHANGED <<proj, history, fileKind, sandboxVars, landed, stale>>
  BY ProcsAre DEF Dies
<1>2. events' \in 0..MaxEvents
  BY EventIs DEF Dies, WritebackInv, WbTypeOK
<1>3. QED
  BY <1>1, <1>2, IdleIs, IdleApplier, OnlyItsCall

-----------------------------------------------------------------------------
(* The steps of a restore.                                                 *)

LEMMA OnlyItsRestore ==
  ASSUME WritebackInv, NEW r \in Restorers, NEW o \in OpType, Goes(r, o),
         events' \in 0..MaxEvents,
         UNCHANGED <<proj, history, fileKind, sandboxVars, landed, stale>>,
         op'[r] = o => RestorerInv(r)'
  PROVE  WritebackInv'
<1>0. r \in Procs /\ r # Runner /\ Runner \in Procs
  BY ProcsAre
<1>1. /\ op' \in [Procs -> OpType] /\ op'[r] = o
      /\ \A q \in Procs \ {r} : op'[q] = op[q] /\ Undisturbed(q)
  BY <1>0, GoesIs DEF WritebackInv
<1>2. WbTypeOK'
  BY <1>1, TypesKept DEF WritebackInv
<1>3. Grows
  BY DEF Grows
<1>4. RowsOK'
  BY DEF WritebackInv, RowsOK
<1>5. QED
  BY <1>0, <1>1, <1>2, <1>3, <1>4, RestorerStep

\* A version that has a row is written as a file or as a link, or refused.
LEMMA AsKindIs ==
  ASSUME NEW kind \in {"file", "symlink"}, NEW c \in Stored
  PROVE  AsKind(kind, c) \in Stored \cup {None}
<1>1. Links \subseteq Stored
  BY WritebackAssumption DEF Stored
<1>2. CASE kind = "file"
  <2>1. AsKind(kind, c) = IF c \in Links THEN Payload(c) ELSE c
    BY <1>2 DEF AsKind
  <2>2. QED
    BY <2>1 DEF Stored, Payloads
<1>3. CASE kind = "symlink"
  <2>1. AsKind(kind, c) = IF c \in Links THEN c ELSE IF c \in Payloads THEN c[2] ELSE None
    BY <1>3 DEF AsKind
  <2>2. c \in Payloads => c[2] \in Links
    BY DEF Payloads, Payload
  <2>3. QED
    BY <1>1, <2>1, <2>2
<1>4. QED
  BY <1>2, <1>3

LEMMA StartRestoreKeeps ==
  ASSUME WritebackInv, NEW r \in Restorers, NEW f \in Files, NEW c \in Stored,
         NEW t \in Places, StartRestore(r, f, c, t)
  PROVE  WritebackInv'
<1> DEFINE k == AsKind(fileKind[f], c)
           b == [Idle EXCEPT !.place = t, !.content = k]
           o == IF proj[t] = Absent THEN [b EXCEPT !.phase = "write"]
                ELSE IF t \in Outside THEN [b EXCEPT !.phase = "backup"]
                ELSE [b EXCEPT !.phase = "pre"]
<1>1. /\ c \in history[f] /\ Goes(r, o) /\ Event(TRUE)
      /\ UNCHANGED <<proj, history, fileKind, sandboxVars, landed, stale>>
  BY DEF StartRestore
<1>2. fileKind[f] \in {"file", "symlink"}
  BY <1>1 DEF WritebackInv, RowsOK, WbTypeOK
<1>3. k \in Stored \cup {None}
  BY <1>2, AsKindIs
<1> HIDE DEF k
<1>4. /\ o \in OpType /\ o.place = t
      /\ \/ o.phase = "write" /\ proj[t] = Absent
         \/ o.phase = "backup" /\ t \in Outside
         \/ o.phase = "pre" /\ t \notin Outside
  BY <1>3 DEF Idle, OpType
<1> HIDE DEF o
<1>5. op'[r] = o => RestorerInv(r)'
  BY <1>1, <1>4 DEF RestorerInv, Places
<1>6. events' \in 0..MaxEvents
  BY <1>1, EventIs DEF WritebackInv, WbTypeOK
<1>7. QED
  BY <1>1, <1>4, <1>5, <1>6, OnlyItsRestore

LEMMA BackupExistingKeeps ==
  ASSUME WritebackInv, NEW r \in Restorers, BackupExisting(r)
  PROVE  WritebackInv'
<1> DEFINE t == op[r].place
           o == [op[r] EXCEPT !.phase = "write", !.exposed = {}]
<1>0. /\ r \in Procs /\ r # Runner /\ Runner \in Procs /\ op[r] \in OpType /\ WbTypeOK
      /\ RestorerInv(r)
  BY ProcsAre, OpIs DEF WritebackInv
<1>1. /\ op[r].phase = "backup"
      /\ history' = [history EXCEPT ![t] = @ \cup ({proj[t]} \cap Stored)]
      /\ Goes(r, o) /\ UNCHANGED <<proj, fileKind, sandboxVars, landed, stale, events>>
  BY DEF BackupExisting
<1>2. t \in Outside /\ t \in Places /\ t \notin Files
  BY <1>0, <1>1, WritebackAssumption DEF RestorerInv, Places
<1>3. o \in OpType /\ o.phase = "write" /\ o.place = t
  BY <1>0 DEF OpType
<1> HIDE DEF o
<1>4. /\ op' \in [Procs -> OpType] /\ op'[r] = o
      /\ \A q \in Procs \ {r} : op'[q] = op[q] /\ Undisturbed(q)
  BY <1>0, <1>1, <1>3, GoesIs
<1>5. /\ history' \in [Places -> SUBSET Stored]
      /\ \A x \in Places : history[x] \subseteq history'[x]
      /\ \A x \in Files : history'[x] = history[x]
      /\ proj[t] \in history'[t] \cup {Absent}
  BY <1>0, <1>1, <1>2, ProcsAre DEF WbTypeOK, InTree
<1>6. WbTypeOK'
  BY <1>0, <1>1, <1>4, <1>5 DEF WbTypeOK, sandboxVars
<1>7. RestorerInv(r)'
  BY <1>1, <1>2, <1>3, <1>4, <1>5 DEF RestorerInv
<1>8. Grows
  BY <1>1, <1>5 DEF Grows
<1>9. RowsOK'
  BY <1>1, <1>5 DEF WritebackInv, RowsOK
<1>10. QED
  BY <1>0, <1>1, <1>4, <1>6, <1>7, <1>8, <1>9, RestorerStep

LEMMA SnapshotOfRestoreKeeps ==
  ASSUME WritebackInv, NEW r \in Restorers, Snapshot(r)
  PROVE  WritebackInv'
<1>0. /\ r \in Procs /\ r # Runner /\ r \notin Appliers /\ op[r] \in OpType
      /\ Runner \in Procs /\ Flaky \subseteq Files /\ Files \subseteq Places
  BY ProcsAre, OpIs, WritebackAssumption DEF WritebackInv
<1>1. PICK missed \in SUBSET Flaky :
        /\ Goes(r, AfterSnapshot(r, missed))
        /\ events' \in 0..MaxEvents /\ RowsOK' /\ Grows
        /\ history' \in [Places -> SUBSET Stored]
        /\ fileKind' \in [Files -> {"file", "symlink", None}]
        /\ \A f \in Files \ missed : proj[f] \in history'[f] \cup {Absent}
        /\ op[r].phase \in {"pre", "post"}
        /\ UNCHANGED <<proj, sandboxVars, landed, stale>>
  BY <1>0, SnapshotIs
<1> DEFINE o == AfterSnapshot(r, missed)
<1>2. /\ o \in OpType
      /\ \/ op[r].phase = "pre" /\ o.phase = "write" /\ o.place = op[r].place /\ o.exposed = missed
         \/ o.phase = "idle"
  <2>1. CASE op[r].phase = "pre"
    <3>1. o = [[op[r] EXCEPT !.exposed = missed] EXCEPT !.phase = "write"]
      BY <1>0, <2>1 DEF AfterSnapshot, OpType
    <3>2. QED
      BY <1>0, <2>1, <3>1 DEF OpType
  <2>2. CASE op[r].phase = "post"
    <3>1. o = Idle
      BY <1>0, <2>2 DEF AfterSnapshot, OpType
    <3>2. QED
      BY <3>1, IdleIs
  <2>3. QED
    BY <1>1, <2>1, <2>2
<1> HIDE DEF o
<1>3. /\ op' \in [Procs -> OpType] /\ op'[r] = o
      /\ \A q \in Procs \ {r} : op'[q] = op[q] /\ Undisturbed(q)
  BY <1>0, <1>1, <1>2, GoesIs DEF o, WritebackInv
<1>4. WbTypeOK'
  BY <1>1, <1>3 DEF WritebackInv, WbTypeOK, sandboxVars
<1>5. RestorerInv(r)'
  <2>1. RestorerInv(r)
    BY DEF WritebackInv
  <2>2. QED
    BY <1>1, <1>2, <1>3, <2>1 DEF RestorerInv
<1>6. QED
  BY <1>0, <1>1, <1>3, <1>4, <1>5, RestorerStep

\* The target is written, unlinked or linked.
LEMMA PutKeeps ==
  ASSUME WritebackInv, NEW r \in Restorers, NEW o \in OpType, NEW c \in InTree,
         op[r].place \in Places, proj' = [proj EXCEPT ![op[r].place] = c],
         Changes(r, op[r].place, o),
         o.phase = "event" \/ (o.phase = "link" /\ c = Absent /\ o.content \in Links),
         o.place = op[r].place,
         UNCHANGED <<history, fileKind, sandboxVars, landed, stale>>,
         events' \in 0..MaxEvents
  PROVE  WritebackInv'
<1> DEFINE t == op[r].place
<1>0. r \in Procs /\ r # Runner /\ WbTypeOK
  BY ProcsAre DEF WritebackInv
<1>1. /\ op' \in [Procs -> OpType] /\ op'[r] = o /\ op'[Runner] = op[Runner]
      /\ \A q \in Procs \ {r, Runner} : Undisturbed(q)
  <2>1. /\ t \in Places /\ Changes(r, t, o)
        /\ \A y \in Places \ {t} : proj'[y] = proj[y]
    BY <1>0 DEF WbTypeOK
  <2> HIDE DEF t
  <2>2. QED
    BY <1>0, <2>1, ChangesIs
<1>2. proj' \in [Places -> InTree] /\ proj'[t] = c
  BY <1>0 DEF WbTypeOK
<1>3. WbTypeOK'
  BY <1>0, <1>1, <1>2 DEF WbTypeOK, sandboxVars
<1>4. RestorerInv(r)'
  BY <1>1, <1>2 DEF RestorerInv
<1>5. Grows /\ RowsOK'
  BY DEF Grows, WritebackInv, RowsOK
<1>6. QED
  BY <1>1, <1>3, <1>4, <1>5, RestorerStep

LEMMA WriteTargetKeeps ==
  ASSUME WritebackInv, NEW r \in Restorers, WriteTarget(r)
  PROVE  WritebackInv'
<1>0. /\ op[r] \in OpType /\ RestorerInv(r) /\ op[r].phase = "write" /\ op[r].content # None
      /\ UNCHANGED <<history, fileKind, sandboxVars, landed, stale>>
      /\ events' \in 0..MaxEvents
  BY ProcsAre, OpIs DEF WritebackInv, WriteTarget, WbTypeOK
<1>1. op[r].place \in Places /\ op[r].content \in InTree /\ Absent \in InTree
  BY <1>0 DEF RestorerInv, OpType, InTree
<1>2. CASE op[r].content \in Links
  <2> DEFINE o == [op[r] EXCEPT !.phase = "link"]
  <2>1. o \in OpType /\ o.phase = "link" /\ o.place = op[r].place /\ o.content = op[r].content
    BY <1>0 DEF OpType
  <2>2. proj' = [proj EXCEPT ![op[r].place] = Absent] /\ Changes(r, op[r].place, o)
    BY <1>2 DEF WriteTarget
  <2> HIDE DEF o
  <2>3. QED
    BY <1>0, <1>1, <1>2, <2>1, <2>2, PutKeeps
<1>3. CASE op[r].content \notin Links
  <2> DEFINE o == [op[r] EXCEPT !.phase = "event"]
  <2>1. o \in OpType /\ o.phase = "event" /\ o.place = op[r].place
    BY <1>0 DEF OpType
  <2>2. proj' = [proj EXCEPT ![op[r].place] = op[r].content] /\ Changes(r, op[r].place, o)
    BY <1>3 DEF WriteTarget
  <2> HIDE DEF o
  <2>3. QED
    BY <1>0, <1>1, <2>1, <2>2, PutKeeps
<1>4. QED
  BY <1>2, <1>3

LEMMA LinkTargetKeeps ==
  ASSUME WritebackInv, NEW r \in Restorers, LinkTarget(r)
  PROVE  WritebackInv'
<1> DEFINE o == [op[r] EXCEPT !.phase = "event"]
<1>0. op[r] \in OpType /\ RestorerInv(r)
  BY ProcsAre, OpIs DEF WritebackInv
<1> DEFINE x == op[r].place
<1>1. /\ op[r].phase = "link" /\ Changes(r, x, o)
      /\ UNCHANGED <<history, fileKind, sandboxVars, landed, stale>>
  BY DEF LinkTarget
<1>2. PICK made \in Symlinked(x, op[r].content) :
        /\ Event(Denied(x, made))
        /\ proj' = IF proj[x] \in Links THEN proj ELSE [proj EXCEPT ![x] = made]
  BY DEF LinkTarget
<1>3. x \in Places /\ op[r].content \in Links
  BY <1>0, <1>1 DEF RestorerInv
<1>4. made \in InTree /\ proj[x] \in InTree /\ proj = [proj EXCEPT ![x] = proj[x]]
  BY <1>2, <1>3, SymlinkedIs DEF WritebackInv, WbTypeOK
<1>5. events' \in 0..MaxEvents
  BY <1>2, EventIs DEF Denied, WritebackInv, WbTypeOK
<1>6. o \in OpType /\ o.phase = "event" /\ o.place = x
  BY <1>0 DEF OpType
<1>7. PICK c \in InTree : proj' = [proj EXCEPT ![x] = c]
  BY <1>2, <1>4
<1> HIDE DEF o
<1>8. QED
  BY <1>1, <1>3, <1>5, <1>6, <1>7, PutKeeps

LEMMA IdleRestorer ==
  ASSUME NEW r \in Restorers, op'[r] = Idle
  PROVE  RestorerInv(r)'
  BY IdleIs DEF RestorerInv

LEMMA RefusePayloadKeeps ==
  ASSUME WritebackInv, NEW r \in Restorers, RefusePayload(r)
  PROVE  WritebackInv'
<1>1. /\ Goes(r, Idle) /\ UNCHANGED <<proj, history, fileKind, sandboxVars, landed, stale>>
      /\ events' \in 0..MaxEvents
  BY DEF RefusePayload, WritebackInv, WbTypeOK
<1>2. QED
  BY <1>1, IdleIs, IdleRestorer, OnlyItsRestore

LEMMA AfterRestoreKeeps ==
  ASSUME WritebackInv, NEW r \in Restorers, AfterRestore(r)
  PROVE  WritebackInv'
<1> DEFINE o == IF op[r].place \in Outside THEN Idle ELSE [op[r] EXCEPT !.phase = "post"]
<1>0. op[r] \in OpType /\ RestorerInv(r)
  BY ProcsAre, OpIs DEF WritebackInv
<1>1. /\ op[r].phase = "event" /\ Goes(r, o)
      /\ UNCHANGED <<proj, history, fileKind, sandboxVars, landed, stale>>
      /\ events' \in 0..MaxEvents
  BY DEF AfterRestore, WritebackInv, WbTypeOK
<1>2. o \in OpType /\ (o.phase = "idle" \/ (o.phase = "post" /\ o.place = op[r].place))
  BY <1>0, IdleIs DEF OpType
<1> HIDE DEF o
<1>3. op'[r] = o => RestorerInv(r)'
  BY <1>0, <1>1, <1>2 DEF RestorerInv
<1>4. QED
  BY <1>1, <1>2, <1>3, OnlyItsRestore

LEMMA RestorerDies ==
  ASSUME WritebackInv, NEW r \in Restorers, Dies(r)
  PROVE  WritebackInv'
<1>1. /\ Goes(r, Idle)
      /\ UNCHANGED <<proj, history, fileKind, sandboxVars, landed, stale>>
  BY ProcsAre DEF Dies
<1>2. events' \in 0..MaxEvents
  BY EventIs DEF Dies, WritebackInv, WbTypeOK
<1>3. QED
  BY <1>1, <1>2, IdleIs, IdleRestorer, OnlyItsRestore

-----------------------------------------------------------------------------
(* The steps of the user, of the command and of sandbox-clean.             *)

\* A step that leaves every apply and every restore where it is.
LEMMA OutsideStep ==
  ASSUME WritebackInv, WbTypeOK', RunnerOK', RowsOK', AppliedIsWhole', Grows,
         \A q \in Procs \ {Runner} : Undisturbed(q),
         \A a \in Appliers : op[a].phase # "idle" => CopyKept(a) /\ UNCHANGED <<diff, mapped>>
  PROVE  WritebackInv'
<1>1. ASSUME NEW a \in Appliers PROVE ApplierInv(a)'
  <2>1. Undisturbed(a)
    BY ProcsAre
  <2>2. QED
    BY <2>1, ApplierKept DEF WritebackInv
<1>2. ASSUME NEW r \in Restorers PROVE RestorerInv(r)'
  <2>1. Undisturbed(r)
    BY ProcsAre
  <2>2. QED
    BY <2>1, RestorerKept DEF WritebackInv
<1>3. QED
  BY <1>1, <1>2 DEF WritebackInv

LEMMA UserEditKeeps ==
  ASSUME WritebackInv, NEW x \in Places, NEW c \in Contents \cup {Absent}, UserEdit(x, c)
  PROVE  WritebackInv'
<1>0. WbTypeOK /\ c \in InTree /\ Files \subseteq Places /\ Runner \in Procs
      /\ Runner # None
  BY ProcsAre DEF WritebackInv, InTree, Stored
<1>1. /\ proj' = [proj EXCEPT ![x] = c] /\ Changes(None, x, Idle)
      /\ UNCHANGED <<history, fileKind, sandboxVars, landed>>
      /\ stale' \in SUBSET Files
  BY <1>0 DEF UserEdit, WbTypeOK
<1>2. events' \in 0..MaxEvents
  BY <1>0, EventIs DEF UserEdit, WbTypeOK
<1>3. \A y \in Places \ {x} : proj'[y] = proj[y]
  BY <1>0, <1>1 DEF WbTypeOK
<1>4. /\ op' \in [Procs -> OpType] /\ op'[Runner] = op[Runner]
      /\ \A q \in Procs \ {Runner} : Undisturbed(q)
  BY <1>0, <1>1, <1>3, ChangesIs, IdleIs, ProcsAre
<1>5. UNCHANGED <<diff, mapped, work, status, session>> /\ Grows
  BY <1>1 DEF sandboxVars, Grows
<1>6. WbTypeOK'
  BY <1>0, <1>1, <1>2, <1>4 DEF WbTypeOK, sandboxVars
<1>7. RunnerOK'
  BY <1>4, <1>5 DEF WritebackInv, RunnerOK
<1>8. RowsOK'
  BY <1>1 DEF WritebackInv, RowsOK
<1>9. AppliedIsWhole'
  BY <1>5, WholeKept DEF WritebackInv
<1>10. \A a \in Appliers : CopyKept(a)
  BY <1>5 DEF CopyKept
<1>11. QED
  BY <1>4, <1>5, <1>6, <1>7, <1>8, <1>9, <1>10, OutsideStep

\* A process that is told of a change of the copy goes on with its call.
LEMMA ToldIs ==
  ASSUME WbTypeOK, NEW p \in Procs, NEW told \in BOOLEAN,
         op'[p] = [op[p] EXCEPT !.raced = told], op[p].raced => told, proj' = proj
  PROVE  /\ op'[p] \in OpType /\ op'[p].phase = op[p].phase
         /\ Undisturbed(p) /\ (told => op'[p].raced)
<1>1. op[p] \in OpType
  BY OpIs
<1>2. op'[p] \in OpType
  BY <1>1 DEF OpType
<1>3. /\ op'[p].phase = op[p].phase /\ op'[p].todo = op[p].todo
      /\ op'[p].place = op[p].place /\ op'[p].content = op[p].content
      /\ op'[p].wrote = op[p].wrote /\ op'[p].skips = op[p].skips
      /\ op'[p].dry = op[p].dry /\ op'[p].exposed = op[p].exposed
      /\ told => op'[p].raced
  BY <1>1 DEF OpType
<1>4. Undisturbed(p)
  BY <1>3 DEF Undisturbed, SameCall
<1>5. QED
  BY <1>2, <1>3, <1>4

LEMMA WorkEditKeeps ==
  ASSUME WritebackInv, NEW f \in Files, NEW c \in InTree, WorkEdit(f, c)
  PROVE  WritebackInv'
<1>0. WbTypeOK /\ Runner \in Procs /\ Appliers \subseteq Procs
  BY ProcsAre DEF WritebackInv
<1>1. /\ work' = [work EXCEPT ![f] = c]
      /\ op' = [p \in Procs |-> [op[p] EXCEPT !.raced = @ \/ op[p].place = f]]
      /\ UNCHANGED <<proj, history, fileKind, mapped, diff, status, session, cleaner,
                     landed, stale>>
  BY DEF WorkEdit
<1>2. events' \in 0..MaxEvents
  BY <1>0, EventIs DEF WorkEdit, WbTypeOK
<1>3. ASSUME NEW p \in Procs
      PROVE  /\ op'[p] \in OpType /\ op'[p].phase = op[p].phase
             /\ Undisturbed(p) /\ (op[p].place = f => op'[p].raced)
  <2> DEFINE told == op[p].raced \/ op[p].place = f
  <2>1. /\ told \in BOOLEAN /\ (op[p].raced => told) /\ (op[p].place = f => told)
        /\ op'[p] = [op[p] EXCEPT !.raced = told]
    BY <1>1, OpIs
  <2> HIDE DEF told
  <2>2. QED
    BY <1>0, <1>1, <2>1, ToldIs
<1>4. op' \in [Procs -> OpType]
  <2>1. op' = [p \in Procs |-> op'[p]]
    BY <1>1
  <2>2. QED
    BY <1>3, <2>1
<1>5. WbTypeOK'
  BY <1>0, <1>1, <1>2, <1>4 DEF WbTypeOK
<1>6. RunnerOK'
  BY <1>0, <1>1, <1>3 DEF WritebackInv, RunnerOK
<1>7. RowsOK' /\ Grows
  BY <1>1 DEF WritebackInv, RowsOK, Grows
<1>8. AppliedIsWhole'
  BY <1>1, <1>7, WholeKept DEF WritebackInv
<1>9. \A a \in Appliers : CopyKept(a)
  BY <1>0, <1>1, <1>3 DEF CopyKept, WbTypeOK
<1>10. QED
  BY <1>1, <1>3, <1>5, <1>6, <1>7, <1>8, <1>9, OutsideStep

LEMMA CleanDirectoryKeeps ==
  ASSUME WritebackInv, CleanDirectory
  PROVE  WritebackInv'
<1>0. WbTypeOK /\ Runner \in Procs /\ Appliers \subseteq Procs
  BY ProcsAre DEF WritebackInv
<1>1. /\ work' = [f \in Files |-> Absent] /\ cleaner' = "row"
      /\ op' = [p \in Procs |-> [op[p] EXCEPT !.raced = TRUE]]
      /\ UNCHANGED <<proj, history, fileKind, mapped, diff, status, session, landed, stale,
                     events>>
  BY DEF CleanDirectory
<1>2. ASSUME NEW p \in Procs
      PROVE  /\ op'[p] \in OpType /\ op'[p].phase = op[p].phase
             /\ Undisturbed(p) /\ op'[p].raced
  BY <1>0, <1>1, ToldIs
<1>3. op' \in [Procs -> OpType]
  <2>1. op' = [p \in Procs |-> op'[p]]
    BY <1>1
  <2>2. QED
    BY <1>2, <2>1
<1>4. WbTypeOK'
  BY <1>0, <1>1, <1>3 DEF WbTypeOK, InTree
<1>5. RunnerOK'
  BY <1>0, <1>1, <1>2 DEF WritebackInv, RunnerOK
<1>6. RowsOK' /\ Grows
  BY <1>1 DEF WritebackInv, RowsOK, Grows
<1>7. AppliedIsWhole'
  BY <1>1, <1>6, WholeKept DEF WritebackInv
<1>8. \A a \in Appliers : CopyKept(a)
  BY <1>0, <1>2 DEF CopyKept
<1>9. QED
  BY <1>1, <1>2, <1>4, <1>5, <1>6, <1>7, <1>8, OutsideStep

LEMMA CleanRowKeeps ==
  ASSUME WritebackInv, CleanRow
  PROVE  WritebackInv'
<1>1. /\ UNCHANGED <<proj, history, fileKind, work, mapped, diff, session, op, landed,
                     stale, events>>
      /\ cleaner' \in {"gone", "stuck"} /\ status' \in {"none", status}
  BY DEF CleanRow
<1>2. WbTypeOK'
  BY <1>1 DEF WritebackInv, WbTypeOK
<1>3. RunnerOK' /\ RowsOK' /\ Grows
  BY <1>1 DEF WritebackInv, RunnerOK, RowsOK, Grows
<1>4. AppliedIsWhole'
  <2>1. Entries' = Entries
    BY <1>1 DEF Entries, Differs
  <2>2. QED
    BY <1>1, <2>1 DEF WritebackInv, AppliedIsWhole
<1>5. \A p \in Procs : Undisturbed(p)
  BY <1>1 DEF Undisturbed, SameCall
<1>6. \A a \in Appliers : CopyKept(a)
  BY <1>1 DEF CopyKept
<1>7. QED
  BY <1>1, <1>2, <1>3, <1>4, <1>5, <1>6, OutsideStep

\* A step of the command's process, with its new record.
LEMMA RunnerStep ==
  ASSUME WritebackInv, NEW r \in OpType, Goes(Runner, r), proj' = proj,
         op' \in [Procs -> OpType] /\ op'[Runner] = r => WbTypeOK' /\ RunnerOK',
         RowsOK', AppliedIsWhole', Grows,
         \A a \in Appliers : op[a].phase # "idle" => UNCHANGED <<work, diff, mapped>>
  PROVE  WritebackInv'
<1>1. /\ op' \in [Procs -> OpType] /\ op'[Runner] = r
      /\ \A q \in Procs \ {Runner} : op'[q] = op[q] /\ Undisturbed(q)
  BY ProcsAre, GoesIs DEF WritebackInv
<1>2. \A a \in Appliers : op[a].phase # "idle" => CopyKept(a) /\ UNCHANGED <<diff, mapped>>
  BY DEF CopyKept
<1>3. QED
  BY <1>1, <1>2, OutsideStep

\* Before there is a diff no apply is under way.
LEMMA NoApplyYet ==
  ASSUME WritebackInv, diff = None
  PROVE  \A a \in Appliers : op[a].phase = "idle"
  BY DEF WritebackInv, ApplierInv, ApplierOK

LEMMA RunnerSnapshotKeeps ==
  ASSUME WritebackInv, Snapshot(Runner)
  PROVE  WritebackInv'
<1>0. Runner \in Procs /\ op[Runner] \in OpType
  BY ProcsAre, OpIs DEF WritebackInv
<1>1. PICK missed \in SUBSET Flaky :
        /\ Goes(Runner, AfterSnapshot(Runner, missed))
        /\ events' \in 0..MaxEvents /\ RowsOK' /\ Grows
        /\ history' \in [Places -> SUBSET Stored]
        /\ fileKind' \in [Files -> {"file", "symlink", None}]
        /\ \A f \in Files \ missed : proj[f] \in history'[f] \cup {Absent}
        /\ op[Runner].phase \in {"pre", "post"}
        /\ UNCHANGED <<proj, sandboxVars, landed, stale>>
  BY <1>0, SnapshotIs
<1> DEFINE r == [[op[Runner] EXCEPT !.exposed = {}] EXCEPT !.phase = "copy"]
<1>2. AfterSnapshot(Runner, missed) = r
  BY ProcsAre DEF AfterSnapshot
<1>3. r \in OpType /\ r.phase = "copy"
  BY <1>0 DEF OpType
<1> HIDE DEF r
<1>4. UNCHANGED <<work, mapped, diff, status, session>>
  BY <1>1 DEF sandboxVars
<1>5. op[Runner].phase = "pre"
  BY <1>1 DEF WritebackInv, RunnerOK
<1>6. op' \in [Procs -> OpType] /\ op'[Runner] = r => WbTypeOK' /\ RunnerOK'
  BY <1>1, <1>3, <1>4, <1>5 DEF WritebackInv, WbTypeOK, RunnerOK, sandboxVars
<1>7. AppliedIsWhole'
  BY <1>1, <1>4, WholeKept DEF WritebackInv
<1>8. QED
  BY <1>1, <1>2, <1>3, <1>4, <1>6, <1>7, RunnerStep

LEMMA StartSandboxKeeps ==
  ASSUME WritebackInv, StartSandbox
  PROVE  WritebackInv'
<1> DEFINE r == [Idle EXCEPT !.phase = "pre"]
<1>1. /\ op[Runner].phase = "idle" /\ Goes(Runner, r)
      /\ UNCHANGED <<proj, history, fileKind, work, mapped, diff, status, session, cleaner,
                     landed, stale, events>>
  BY DEF StartSandbox
<1>2. r \in OpType /\ r.phase = "pre"
  BY DEF Idle, OpType
<1> HIDE DEF r
<1>3. op' \in [Procs -> OpType] /\ op'[Runner] = r => WbTypeOK' /\ RunnerOK'
  BY <1>1, <1>2 DEF WritebackInv, WbTypeOK, RunnerOK
<1>4. RowsOK' /\ Grows
  BY <1>1 DEF WritebackInv, RowsOK, Grows
<1>5. AppliedIsWhole'
  BY <1>1, <1>4, WholeKept DEF WritebackInv
<1>6. QED
  BY <1>1, <1>2, <1>3, <1>4, <1>5, RunnerStep

\* What a file reads as in a copy can be in a folder.
LEMMA SandboxFormIs ==
  ASSUME NEW c \in InTree, NEW denied \in BOOLEAN
  PROVE  SandboxForm(c, denied) \in InTree
<1>1. Links \subseteq InTree /\ CopyOfLink \in [Links \ External -> Links \ External]
  BY WritebackAssumption DEF InTree, Stored
<1>2. c \in External => Placeholder(c) \in InTree
  BY DEF InTree, Stored, Placeholders
<1>3. \A link \in Links : Payload(link) \in InTree
  BY DEF InTree, Stored, Payloads
<1>4. QED
  BY <1>1, <1>2, <1>3 DEF SandboxForm, StaysWithin

LEMMA CopyProjectKeeps ==
  ASSUME WritebackInv, CopyProject
  PROVE  WritebackInv'
<1> DEFINE r == [op[Runner] EXCEPT !.phase = "insert"]
<1>0. op[Runner] \in OpType /\ WbTypeOK /\ Files \subseteq Places
  BY ProcsAre, OpIs DEF WritebackInv
<1>1. /\ op[Runner].phase = "copy" /\ Goes(Runner, r)
      /\ UNCHANGED <<proj, history, fileKind, diff, status, session, cleaner, landed, stale>>
  BY DEF CopyProject
<1>2. PICK missed \in SUBSET Flaky,
           denied \in SUBSET {f \in Files : proj[f] \in Links \ External} :
        /\ Event(missed \cup denied # {})
        /\ work' = [f \in Files |-> IF f \in missed THEN Absent
                                    ELSE SandboxForm(proj[f], f \in denied)]
        /\ mapped' = {f \in Files \ missed : proj[f] \in External}
  BY DEF CopyProject
<1>3. ASSUME NEW f \in Files PROVE SandboxForm(proj[f], f \in denied) \in InTree
  <2>1. proj[f] \in InTree /\ (f \in denied) \in BOOLEAN
    BY <1>0 DEF WbTypeOK
  <2>2. QED
    BY <2>1, SandboxFormIs
<1>4. work' \in [Files -> InTree] /\ mapped' \in SUBSET Files
  BY <1>2, <1>3 DEF InTree
<1>5. events' \in 0..MaxEvents
  BY <1>0, <1>2, EventIs DEF WbTypeOK
<1>6. r \in OpType /\ r.phase = "insert"
  BY <1>0 DEF OpType
<1> HIDE DEF r
<1>7. diff = None
  BY <1>1 DEF WritebackInv, RunnerOK
<1>8. op' \in [Procs -> OpType] /\ op'[Runner] = r => WbTypeOK' /\ RunnerOK'
  BY <1>1, <1>4, <1>5, <1>6, <1>7 DEF WritebackInv, WbTypeOK, RunnerOK
<1>9. RowsOK' /\ Grows
  BY <1>1 DEF WritebackInv, RowsOK, Grows
<1>10. AppliedIsWhole'
  BY <1>1, <1>7 DEF AppliedIsWhole, Entries
<1>11. QED
  BY <1>1, <1>6, <1>7, <1>8, <1>9, <1>10, NoApplyYet, RunnerStep

LEMMA InsertSandboxKeeps ==
  ASSUME WritebackInv, InsertSandbox
  PROVE  WritebackInv'
<1> DEFINE r == [op[Runner] EXCEPT !.phase = "run"]
<1>0. op[Runner] \in OpType
  BY ProcsAre, OpIs DEF WritebackInv
<1>1. /\ op[Runner].phase = "insert" /\ Goes(Runner, r) /\ status' = "running"
      /\ UNCHANGED <<proj, history, fileKind, work, mapped, diff, session, cleaner, landed,
                     stale, events>>
  BY DEF InsertSandbox
<1>2. r \in OpType /\ r.phase = "run"
  BY <1>0 DEF OpType
<1> HIDE DEF r
<1>3. diff = None
  BY <1>1 DEF WritebackInv, RunnerOK
<1>4. op' \in [Procs -> OpType] /\ op'[Runner] = r => WbTypeOK' /\ RunnerOK'
  BY <1>1, <1>2, <1>3 DEF WritebackInv, WbTypeOK, RunnerOK
<1>5. RowsOK' /\ Grows
  BY <1>1 DEF WritebackInv, RowsOK, Grows
<1>6. AppliedIsWhole'
  BY <1>1, <1>3 DEF AppliedIsWhole, Entries
<1>7. QED
  BY <1>1, <1>2, <1>3, <1>4, <1>5, <1>6, NoApplyYet, RunnerStep

LEMMA CompareDirsKeeps ==
  ASSUME WritebackInv, CompareDirs
  PROVE  WritebackInv'
<1> DEFINE r == [op[Runner] EXCEPT !.phase = "diffed"]
<1>0. op[Runner] \in OpType /\ WbTypeOK /\ Files \subseteq Places
  BY ProcsAre, OpIs DEF WritebackInv
<1>1. /\ op[Runner].phase = "run" /\ Goes(Runner, r)
      /\ UNCHANGED <<proj, history, fileKind, work, mapped, status, session, cleaner, landed,
                     stale>>
  BY DEF CompareDirs
<1>2. PICK unread \in SUBSET Flaky, missed \in SUBSET Flaky :
        /\ Event(unread \cup missed # {})
        /\ diff' = [f \in Files |-> [old |-> IF f \in unread THEN Absent ELSE proj[f],
                                     new |-> IF f \in missed THEN Absent ELSE work[f]]]
  BY DEF CompareDirs
<1>3. diff' \in Diffs /\ diff' # None
  <2>1. diff' \in Diffs
    BY <1>0, <1>2 DEF WbTypeOK, Diffs, InTree
  <2>2. QED
    BY <2>1, WritebackAssumption
<1>4. events' \in 0..MaxEvents
  BY <1>0, <1>2, EventIs DEF WbTypeOK
<1>5. r \in OpType /\ r.phase = "diffed"
  BY <1>0 DEF OpType
<1> HIDE DEF r
<1>6. diff = None /\ status \in {"none", "running"} /\ session = "none"
  BY <1>1 DEF WritebackInv, RunnerOK
<1>7. op' \in [Procs -> OpType] /\ op'[Runner] = r => WbTypeOK' /\ RunnerOK'
  BY <1>1, <1>3, <1>4, <1>5, <1>6 DEF WritebackInv, WbTypeOK, RunnerOK
<1>8. RowsOK' /\ Grows
  BY <1>1 DEF WritebackInv, RowsOK, Grows
<1>9. AppliedIsWhole'
  BY <1>1, <1>6 DEF AppliedIsWhole
<1>10. QED
  BY <1>1, <1>5, <1>6, <1>7, <1>8, <1>9, NoApplyYet, RunnerStep

LEMMA SandboxCompleteKeeps ==
  ASSUME WritebackInv, SandboxComplete
  PROVE  WritebackInv'
<1>1. /\ op[Runner].phase = "diffed" /\ status' \in {"complete", "command_failed"}
      /\ UNCHANGED <<proj, history, fileKind, work, mapped, diff, session, cleaner, landed,
                     stale, events>>
  BY DEF SandboxComplete
<1> DEFINE skips == status' = "command_failed"
<1>2. PICK next \in {"session", "over"} :
        Goes(Runner, [Idle EXCEPT !.phase = next, !.skips = skips])
  BY DEF SandboxComplete
<1>3. skips \in BOOLEAN
  OBVIOUS
<1> HIDE DEF skips
<1> DEFINE r == [Idle EXCEPT !.phase = next, !.skips = skips]
<1>4. r \in OpType /\ r.phase = next
  BY <1>2, <1>3 DEF Idle, OpType
<1> HIDE DEF r
<1>5. diff # None
  BY <1>1 DEF WritebackInv, RunnerOK
<1>6. op' \in [Procs -> OpType] /\ op'[Runner] = r => WbTypeOK' /\ RunnerOK'
  BY <1>1, <1>4, <1>5 DEF WritebackInv, WbTypeOK, RunnerOK
<1>7. RowsOK' /\ Grows
  BY <1>1 DEF WritebackInv, RowsOK, Grows
<1>8. AppliedIsWhole'
  <2>1. Entries' = Entries
    BY <1>1 DEF Entries, Differs
  <2>2. QED
    BY <1>1, <2>1 DEF WritebackInv, AppliedIsWhole
<1>9. Goes(Runner, r)
  BY <1>2 DEF r
<1>10. QED
  BY <1>1, <1>4, <1>6, <1>7, <1>8, <1>9, RunnerStep

LEMMA InsertSessionKeeps ==
  ASSUME WritebackInv, InsertSession
  PROVE  WritebackInv'
<1> DEFINE r == [op[Runner] EXCEPT !.phase = "over"]
<1>0. op[Runner] \in OpType
  BY ProcsAre, OpIs DEF WritebackInv
<1>1. /\ op[Runner].phase = "session" /\ Goes(Runner, r)
      /\ session' \in {"none", "command_failed", "sandbox_complete"}
      /\ UNCHANGED <<proj, history, fileKind, work, mapped, diff, status, cleaner, landed,
                     stale, events>>
  BY DEF InsertSession
<1>2. r \in OpType /\ r.phase = "over"
  BY <1>0 DEF OpType
<1> HIDE DEF r
<1>3. diff # None
  BY <1>1 DEF WritebackInv, RunnerOK
<1>4. op' \in [Procs -> OpType] /\ op'[Runner] = r => WbTypeOK' /\ RunnerOK'
  BY <1>1, <1>2, <1>3 DEF WritebackInv, WbTypeOK, RunnerOK
<1>5. RowsOK' /\ Grows
  BY <1>1 DEF WritebackInv, RowsOK, Grows
<1>6. AppliedIsWhole'
  <2>1. Entries' = Entries
    BY <1>1 DEF Entries, Differs
  <2>2. QED
    BY <1>1, <2>1 DEF WritebackInv, AppliedIsWhole
<1>7. QED
  BY <1>1, <1>2, <1>4, <1>5, <1>6, RunnerStep

LEMMA RunnerDies ==
  ASSUME WritebackInv, Dies(Runner)
  PROVE  WritebackInv'
<1> DEFINE r == [Idle EXCEPT !.phase = "over"]
<1>1. /\ Goes(Runner, r) /\ UNCHANGED <<proj, history, fileKind, sandboxVars, landed, stale>>
  BY DEF Dies
<1>2. events' \in 0..MaxEvents
  BY EventIs DEF Dies, WritebackInv, WbTypeOK
<1>3. r \in OpType /\ r.phase = "over"
  BY DEF Idle, OpType
<1> HIDE DEF r
<1>4. UNCHANGED <<work, mapped, diff, status, session, cleaner>>
  BY <1>1 DEF sandboxVars
<1>5. op' \in [Procs -> OpType] /\ op'[Runner] = r => WbTypeOK' /\ RunnerOK'
  BY <1>1, <1>2, <1>3, <1>4 DEF WritebackInv, WbTypeOK, RunnerOK
<1>6. RowsOK' /\ Grows
  BY <1>1 DEF WritebackInv, RowsOK, Grows
<1>7. AppliedIsWhole'
  BY <1>4, <1>6, WholeKept DEF WritebackInv
<1>8. QED
  BY <1>1, <1>3, <1>4, <1>5, <1>6, <1>7, RunnerStep

-----------------------------------------------------------------------------
(* Results.                                                                *)

LEMMA InitHolds ==
  ASSUME Init
  PROVE  WritebackInv
<1>1. \A p \in Procs : op[p] = Idle
  BY DEF Init
<1>2. WbTypeOK
  <2>1. proj \in [Places -> InTree]
    BY WritebackAssumption DEF Init, InTree, Stored
  <2>2. op \in [Procs -> OpType]
    BY IdleIs DEF Init
  <2>3. events \in 0..MaxEvents
    BY WritebackAssumption DEF Init
  <2>4. QED
    BY <2>1, <2>2, <2>3 DEF Init, WbTypeOK, InTree
<1>3. RunnerOK /\ RowsOK
  BY <1>1, IdleIs, ProcsAre DEF Init, RunnerOK, RowsOK
<1>4. \A a \in Appliers : ApplierInv(a)
  BY <1>1, IdleIs, ProcsAre DEF ApplierInv, ApplierOK, Whole, Saved, Recorded, Reviewed
<1>5. \A r \in Restorers : RestorerInv(r)
  BY <1>1, IdleIs, ProcsAre DEF RestorerInv
<1>6. AppliedIsWhole
  BY DEF Init, AppliedIsWhole
<1>7. QED
  BY <1>2, <1>3, <1>4, <1>5, <1>6 DEF WritebackInv

LEMMA StutterKeeps ==
  ASSUME WritebackInv, UNCHANGED vars
  PROVE  WritebackInv'
<1>1. UNCHANGED <<proj, history, fileKind, work, mapped, diff, status, session, cleaner,
                  op, landed, stale, events>>
  BY DEF vars, sandboxVars
<1>2. WbTypeOK'
  BY <1>1 DEF WritebackInv, WbTypeOK
<1>3. RunnerOK' /\ RowsOK' /\ Grows
  BY <1>1 DEF WritebackInv, RunnerOK, RowsOK, Grows
<1>4. AppliedIsWhole'
  BY <1>1, <1>3, WholeKept DEF WritebackInv
<1>5. \A p \in Procs : Undisturbed(p)
  BY <1>1 DEF Undisturbed, SameCall
<1>6. \A a \in Appliers : CopyKept(a)
  BY <1>1 DEF CopyKept
<1>7. QED
  BY <1>1, <1>2, <1>3, <1>4, <1>5, <1>6, OutsideStep

LEMMA NextKeeps ==
  ASSUME WritebackInv, [Next]_vars
  PROVE  WritebackInv'
<1>1. ASSUME NEW x \in Places, NEW c \in Contents \cup {Absent}, UserEdit(x, c)
      PROVE  WritebackInv'
  BY <1>1, UserEditKeeps
<1>2. ASSUME NEW p \in Procs, Snapshot(p) \/ Dies(p)
      PROVE  WritebackInv'
  BY <1>2, ProcsAre, RunnerSnapshotKeeps, RunnerDies, SnapshotOfApplyKeeps, ApplierDies,
     SnapshotOfRestoreKeeps, RestorerDies
<1>3. CASE \/ StartSandbox \/ CopyProject \/ InsertSandbox \/ CompareDirs
           \/ SandboxComplete \/ InsertSession
  BY <1>3, StartSandboxKeeps, CopyProjectKeeps, InsertSandboxKeeps, CompareDirsKeeps,
     SandboxCompleteKeeps, InsertSessionKeeps
<1>4. ASSUME NEW f \in Files, NEW c \in InTree, WorkEdit(f, c)
      PROVE  WritebackInv'
  BY <1>4, WorkEditKeeps
<1>5. ASSUME NEW a \in Appliers, NEW allow \in BOOLEAN, NEW dry \in BOOLEAN,
             StartApply(a, allow, dry)
      PROVE  WritebackInv'
  BY <1>5, StartApplyKeeps
<1>6. ASSUME NEW a \in Appliers,
             \/ \E f \in Files : CheckEntry(a, f)
             \/ WriteFile(a) \/ UnlinkDest(a) \/ LinkDest(a)
             \/ EndDryRun(a) \/ SnapshotAfterApply(a)
             \/ CompleteSession(a) \/ ReportApply(a) \/ FailApply(a)
      PROVE  WritebackInv'
  BY <1>6, CheckEntryKeeps, WriteFileKeeps, UnlinkDestKeeps, LinkDestKeeps, EndDryRunKeeps,
     SnapshotAfterApplyKeeps, CompleteSessionKeeps, ReportApplyKeeps, FailApplyKeeps
<1>7. ASSUME NEW r \in Restorers, NEW f \in Files, NEW c \in Stored, NEW t \in Places,
             StartRestore(r, f, c, t)
      PROVE  WritebackInv'
  BY <1>7, StartRestoreKeeps
<1>8. ASSUME NEW r \in Restorers,
             \/ BackupExisting(r) \/ WriteTarget(r) \/ LinkTarget(r) \/ RefusePayload(r)
             \/ AfterRestore(r)
      PROVE  WritebackInv'
  BY <1>8, BackupExistingKeeps, WriteTargetKeeps, LinkTargetKeeps, RefusePayloadKeeps,
     AfterRestoreKeeps
<1>9. CASE CleanDirectory \/ CleanRow
  BY <1>9, CleanDirectoryKeeps, CleanRowKeeps
<1>10. CASE UNCHANGED vars
  BY <1>10, StutterKeeps
<1>11. QED
  BY <1>1, <1>2, <1>3, <1>4, <1>5, <1>6, <1>7, <1>8, <1>9, <1>10 DEF Next

\* The inductive invariant: what holds of every apply, of every restore, of the
\* command's process and of the rows between any two steps.
THEOREM WritebackInvariant == Spec => []WritebackInv
<1>1. Init => WritebackInv
  BY InitHolds
<1>2. WritebackInv /\ [Next]_vars => WritebackInv'
  BY NextKeeps
<1>3. QED
  BY <1>1, <1>2, PTL DEF Spec

\* Every variable keeps its type: what is written into the folder is a content it
\* can hold, from whatever kind of row or copy it comes.
THEOREM TypeCorrect == Spec => []WbTypeOK
<1>1. WritebackInv => WbTypeOK
  BY DEF WritebackInv
<1>2. QED
  BY <1>1, WritebackInvariant, PTL

\* What reports that it was applied has been applied as a whole (sandbox.py:451).
THEOREM ReportsAreWhole == Spec => []AppliedIsWhole
<1>1. WritebackInv => AppliedIsWhole
  BY DEF WritebackInv
<1>2. QED
  BY <1>1, WritebackInvariant, PTL

\* After the last snapshot of an apply, what it wrote can be restored
\* (sandbox.py:445).
THEOREM ResultsAreRecorded == Spec => []ResultRecorded
<1>1. WritebackInv => ResultRecorded
  BY DEF WritebackInv, ApplierInv, Recorded, ResultRecorded
<1>2. QED
  BY <1>1, WritebackInvariant, PTL

\* Only an apply or a restore that is at a write writes.
LEMMA WhoWrites ==
  ASSUME WritebackInv, NEW p \in Procs, Writes(p)
  PROVE  \/ p \in Appliers /\ op[p].phase \in {"entries", "link"} /\ op[p].place # None
         \/ p \in Restorers /\ op[p].phase \in {"write", "link"}
<1>1. p = Runner => op[p].phase \notin {"entries", "link", "write"}
  BY DEF WritebackInv, RunnerOK
<1>2. p \in Appliers => ApplierOK(p)
  BY DEF WritebackInv, ApplierInv
<1>3. p \in Restorers => RestorerInv(p)
  BY DEF WritebackInv
<1>4. \/ op[p].phase = "entries" /\ op[p].place # None
      \/ op[p].phase = "link" /\ p \in Appliers \cup Restorers
      \/ op[p].phase = "write"
  BY DEF Writes, WriteFile, UnlinkDest, LinkDest, WriteTarget, LinkTarget
<1>5. QED
  BY <1>1, <1>2, <1>3, <1>4, ProcsAre DEF ApplierOK, RestorerInv

\* What is overwritten can be restored (sandbox.py:322, restore.py:119).
THEOREM OverwrittenIsKept == Spec => CopyBeforeOverwrite
<1>1. ASSUME WritebackInv, NEW p \in Procs, Writes(p)
      PROVE  \/ proj[op[p].place] \in {Absent} \cup history[op[p].place]
             \/ op[p].place \in Ignored \cup op[p].exposed
  <2>1. CASE p \in Appliers /\ op[p].phase \in {"entries", "link"} /\ op[p].place # None
    <3>1. ApplierOK(p) /\ Saved(p)
      BY <1>1, <2>1 DEF WritebackInv, ApplierInv
    <3>2. op[p].place \in Files /\ ~op[p].dry /\ op[p].place \notin op[p].wrote
      BY <2>1, <3>1 DEF ApplierOK
    <3>3. QED
      BY <2>1, <3>1, <3>2 DEF Saved
  <2>2. CASE p \in Restorers /\ op[p].phase \in {"write", "link"}
    BY <1>1, <2>2 DEF WritebackInv, RestorerInv
  <2>3. QED
    BY <1>1, <2>1, <2>2, WhoWrites
<1>2. WritebackInv /\ [Next]_vars =>
        [\A p \in Procs : Writes(p) =>
           LET x == op[p].place
           IN  \/ proj[x] \in {Absent} \cup history[x]
               \/ x \in Ignored \cup op[p].exposed]_vars
  BY <1>1
<1>3. QED
  BY <1>2, WritebackInvariant, PTL DEF Spec, CopyBeforeOverwrite

\* An apply brings back what was reviewed, a link perhaps as its text, to where it
\* was reviewed for
\* (sandbox.py:371-404).
THEOREM ReviewedIsBroughtBack == Spec => ReviewedOnly
<1>1. ASSUME WritebackInv, NEW a \in Appliers, Writes(a), ~op[a].raced
      PROVE  /\ op[a].phase = "entries" => proj[op[a].place] = diff[op[a].place].old
             /\ op'[a].phase = "entries" =>
                  proj'[op[a].place] \in BroughtBack(diff[op[a].place].new)
  <2> DEFINE f == op[a].place
  <2>0. a \in Procs /\ op[a] \in OpType /\ Files \subseteq Places
    BY <1>1, ProcsAre, OpIs DEF WritebackInv
  <2>1. op[a].phase \in {"entries", "link"} /\ f # None /\ ApplierOK(a) /\ Reviewed(a)
    BY <1>1, <2>0, WhoWrites, ProcsAre DEF WritebackInv, ApplierInv, ApplierOK
  <2>2. f \in Files
    BY <2>1 DEF ApplierOK
  <2>3. proj \in [Places -> InTree] /\ DOMAIN op = Procs
    BY <1>1 DEF WritebackInv, WbTypeOK
  <2>4. /\ op[a].phase = "entries" => proj[f] = diff[f].old
        /\ op[a].phase = "entries" => diff[f].new = Absent \/ work[f] = diff[f].new
        /\ op[a].phase = "link" => op[a].content = diff[f].new
    BY <1>1, <2>1 DEF Reviewed
  <2>5. CASE WriteFile(a)
    BY <2>0, <2>2, <2>3, <2>4, <2>5 DEF WriteFile, BroughtBack
  <2>6. CASE UnlinkDest(a)
    <3>1. op'[a] = [op[a] EXCEPT !.phase = "link", !.content = work[f]]
      BY <2>0, <2>6 DEF UnlinkDest, Changes
    <3>2. op'[a].phase = "link"
      BY <2>0, <3>1 DEF OpType
    <3>3. QED
      BY <2>4, <3>2
  <2>7. CASE LinkDest(a)
    <3>1. op[a].phase = "link" /\ op[a].content \in Links
      BY <2>1, <2>7 DEF LinkDest, ApplierOK
    <3>2. PICK made \in Symlinked(f, op[a].content) : proj' = [proj EXCEPT ![f] = made]
      BY <2>7 DEF LinkDest
    <3>3. made \in BroughtBack(diff[f].new)
      BY <2>4, <3>1, <3>2 DEF Symlinked, BroughtBack
    <3>4. QED
      BY <2>0, <2>2, <2>3, <2>4, <3>1, <3>2, <3>3
  <2>8. CASE WriteTarget(a) \/ LinkTarget(a)
    BY <2>1, <2>8, ProcsAre DEF WriteTarget, LinkTarget
  <2>9. QED
    BY <1>1, <2>5, <2>6, <2>7, <2>8 DEF Writes
<1>2. WritebackInv /\ [Next]_vars =>
        [\A a \in Appliers : Writes(a) /\ ~op[a].raced =>
           LET f == op[a].place
           IN  /\ op[a].phase = "entries" => proj[f] = diff[f].old
               /\ op'[a].phase = "entries" =>
                     proj'[f] \in BroughtBack(diff[f].new)]_vars
  BY <1>1
<1>3. QED
  BY <1>2, WritebackInvariant, PTL DEF Spec, ReviewedOnly

=============================================================================
