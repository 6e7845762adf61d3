----------------------------- MODULE Writeback ------------------------------
(***************************************************************************)
(* Everything in SafeVault that writes into the user's folder: a command   *)
(* that works on a copy of it (sandbox.create_sandbox), the changes of     *)
(* that copy brought back (apply_sandbox), a version restored over a file  *)
(* (restore_file), and the removal of an old copy (sandbox-clean).         *)
(*                                                                         *)
(* They take no lock: the user edits, and they run beside each other.      *)
(* Reading a file, hashing it and replacing it are steps of their own.     *)
(*                                                                         *)
(* What a snapshot can bring back is the set history[x]; how a snapshot    *)
(* gets there, and that it stays there, is module Vault.  A content and    *)
(* the hash it has are one value; its kind (file or link) is part of it.   *)
(***************************************************************************)
EXTENDS Naturals, FiniteSets

CONSTANTS
  Files,        \* paths in the folder that snapshots and copies see
  Ignored,      \* paths in it that they leave out (ignore.default_patterns)
  Outside,      \* paths outside every protected folder
  Flaky,        \* files that a scan, a capture or a copy may fail to read
  Contents,     \* what a path can hold
  Links,        \* the contents that are symlinks
  External,     \* the links that lead out of the folder
  CopyOfLink,   \* what any other link reads as in a copy of the folder
  Initial,      \* bound: the trees to start from
  Holds,        \* bound: the contents each path may be given by an edit
  Absent,       \* the path does not exist
  None,         \* not known, not chosen
  Runner,       \* the process in create_sandbox
  Appliers,     \* the processes that may call apply_sandbox
  Restorers,    \* the processes that may call restore_file
  MaxEvents     \* bound: edits of the folder or of the copy, calls of
                \* apply_sandbox and restore_file, scans that miss files,
                \* links denied, exceptions and deaths, all together

Places == Files \cup Ignored \cup Outside
Procs == {Runner} \cup Appliers \cup Restorers

\* The text file that stands for a link that leads out of the folder, and the
\* text a link is stored as, and written as where a link cannot be made:
\* symlink_payload.
Placeholder(c) == <<"placeholder", c>>
Payload(c) == <<"payload", c>>
Placeholders == {Placeholder(c) : c \in External}
Payloads == {Payload(c) : c \in Links}
Stored == Contents \cup Placeholders \cup Payloads
InTree == Stored \cup {Absent}
Diffs == [Files -> [old : InTree, new : InTree]]

ASSUME WritebackAssumption ==
  /\ Links \subseteq Contents /\ External \subseteq Links
  /\ CopyOfLink \in [Links \ External -> Links \ External]
  /\ Flaky \subseteq Files
  /\ Files \cap (Ignored \cup Outside) = {} /\ Ignored \cap Outside = {}
  /\ {Absent, None} \cap Stored = {} /\ Absent # None
  /\ None \notin Places \cup Procs \cup Diffs \cup {"file", "symlink"}
  /\ Appliers \cap Restorers = {} /\ Runner \notin Appliers \cup Restorers
  /\ Initial \subseteq [Places -> Contents \cup {Absent}]
  /\ Holds \in [Places -> SUBSET (Contents \cup {Absent})]
  /\ MaxEvents \in Nat

VARIABLES
  proj,      \* what each path holds
  history,   \* the versions of each path
  fileKind,  \* the kind a file's row gives it: of its last capture
  work,      \* the sandbox's copy of the folder
  mapped,    \* the files that placeholder-map.json names
  diff,      \* diff.json: what each file was and is; None if not written
  status,    \* the sandbox's row; "none" if there is no such row
  session,   \* the AI change session of the sandbox; "none" if there is none
  op,        \* per process: where it is in its call
  cleaner,   \* where sandbox-clean is
  landed,    \* history: the entries of the diff some apply has brought back
  stale,     \* history: the files the user changed between copy and diff
  events     \* how many of the events that MaxEvents bounds there were

sandboxVars == <<work, mapped, diff, status, session, cleaner>>
vars == <<proj, history, fileKind, sandboxVars, op, landed, stale, events>>

-----------------------------------------------------------------------------
\* A diff entry and its verdict.

Differs(f) ==
  /\ diff[f].old # diff[f].new
  /\ ~(f \in mapped /\ diff[f].old \in External /\ diff[f].new = Placeholder(diff[f].old))
Entries == IF diff = None THEN {} ELSE {f \in Files : Differs(f)}

Kind(c) == IF c \in Links THEN "symlink" ELSE "file"

\* symlink_target_stays_within: a link that leads out of the folder does not.
StaysWithin(c) == c \notin External

\* _validate_diff_entry refuses it for what it is, wherever it would go.
Invalid(f) == diff[f].new \in Placeholders

\* It, or what the copy holds of it by now, must not be brought back.
Unsafe(f) ==
  \/ Invalid(f)
  \/ work[f] \in Placeholders \/ ~StaysWithin(work[f])
  \/ work[f] # diff[f].new
  \/ diff[f].old # Absent /\ Kind(diff[f].old) # Kind(diff[f].new)

\* Mutant: a deletion does not look at what it deletes.
AcceptedUnseen(f, allow) ==
  IF diff[f].new = Absent
  THEN allow /\ proj[f] # Absent
  ELSE work[f] # Absent /\ ~Unsafe(f) /\ proj[f] = diff[f].old

\* What the loop in apply_sandbox decides of the entry of f: bring it back, or
\* count it among the conflicts, unsafe entries, missing sources or skips.
Accepted(f, allow) ==
  IF diff[f].new = Absent
  THEN allow /\ proj[f] # Absent /\ proj[f] = diff[f].old
  ELSE work[f] # Absent /\ ~Unsafe(f) /\ proj[f] = diff[f].old

-----------------------------------------------------------------------------
Idle ==
  [phase |-> "idle", todo |-> {}, place |-> None, content |-> None, wrote |-> {}, skips |-> FALSE,
   allow |-> FALSE, dry |-> FALSE, ai |-> FALSE,
   exposed |-> {}, raced |-> FALSE]

Init ==
  /\ proj \in Initial
  /\ history = [x \in Places |-> {}]
  /\ fileKind = [f \in Files |-> None]
  /\ work = [f \in Files |-> Absent]
  /\ mapped = {}
  /\ diff = None
  /\ status = "none" /\ session = "none"
  /\ op = [p \in Procs |-> Idle]
  /\ cleaner = "idle"
  /\ landed = {} /\ stale = {}
  /\ events = 0

\* p goes on with record r after it, or the user if p is None, changed x: for
\* everyone else what they captured or checked of x no longer holds.
Changes(p, x, r) ==
  op' = [q \in Procs |->
           IF q = p THEN r
           ELSE IF q = Runner \/ op[q].phase = "idle" THEN op[q]
           ELSE [op[q] EXCEPT !.exposed = @ \cup {x},
                              !.raced = @ \/ op[q].place = x]]

Goes(p, r) == op' = [op EXCEPT ![p] = r]

\* An event, if there is one, that the bound still has room for.
Event(happens) ==
  /\ happens => events < MaxEvents
  /\ events' = IF happens THEN events + 1 ELSE events

-----------------------------------------------------------------------------
\* The user, at any time.

UserEdit(x, c) ==
  /\ Event(TRUE)
  /\ c \in Holds[x] /\ c # proj[x]
  /\ proj' = [proj EXCEPT ![x] = c]
  /\ stale' = IF x \in Files /\ op[Runner].phase \in {"insert", "run"}
              THEN stale \cup {x} ELSE stale
  /\ Changes(None, x, Idle)
  /\ UNCHANGED <<history, fileKind, sandboxVars, landed>>

-----------------------------------------------------------------------------
\* create_snapshot, for whoever calls it: each file but those it cannot read.
\* In one step: what is edited between the reading of a file and the commit is
\* edited after the snapshot as far as that file is concerned.  An ignored path
\* is not looked at.

AfterSnapshot(p, missed) ==
  LET r == [op[p] EXCEPT !.exposed = IF p = Runner THEN {} ELSE missed] IN
  CASE p = Runner -> [r EXCEPT !.phase = "copy"]
    [] p \in Appliers /\ r.phase = "pre" ->
         [r EXCEPT !.phase = "entries", !.todo = Entries]
    [] p \in Appliers /\ r.phase = "post" -> [r EXCEPT !.phase = "report"]
    [] p \in Restorers /\ r.phase = "pre" -> [r EXCEPT !.phase = "write"]
    [] OTHER -> Idle

Snapshot(p) ==
  /\ op[p].phase \in {"pre", "post"}
  /\ \E missed \in SUBSET Flaky :
       /\ Event(missed # {})
       /\ history' = [x \in Places |->
                        IF x \in Files \ missed
                        THEN history[x] \cup ({proj[x]} \cap Stored)
                        ELSE history[x]]
       /\ fileKind' = [f \in Files |-> IF f \in missed \/ proj[f] = Absent
                                      THEN fileKind[f] ELSE Kind(proj[f])]
       /\ Goes(p, AfterSnapshot(p, missed))
  /\ UNCHANGED <<proj, sandboxVars, landed, stale>>

-----------------------------------------------------------------------------
\* create_sandbox: snapshot, copy, run the command, compare, write the result.

StartSandbox ==
  /\ status = "none" /\ op[Runner].phase = "idle"
  /\ Goes(Runner, [Idle EXCEPT !.phase = "pre"])
  /\ UNCHANGED <<proj, history, fileKind, work, mapped, diff, status, session, cleaner,
                 landed, stale, events>>

\* What the copy has of a file; of a link, if none can be made, its text.
SandboxForm(c, denied) ==
  IF ~StaysWithin(c) THEN Placeholder(c)
  ELSE IF c \in Links THEN IF denied THEN Payload(CopyOfLink[c]) ELSE CopyOfLink[c]
  ELSE c

\* copy_project_to_sandbox: an OSError leaves files out without a word.
CopyProject ==
  /\ op[Runner].phase = "copy"
  /\ \E missed \in SUBSET Flaky, denied \in SUBSET {f \in Files : proj[f] \in Links \ External} :
       /\ Event(missed \cup denied # {})
       /\ work' = [f \in Files |-> IF f \in missed THEN Absent
                                   ELSE SandboxForm(proj[f], f \in denied)]
       /\ mapped' = {f \in Files \ missed : proj[f] \in External}
  /\ Goes(Runner, [op[Runner] EXCEPT !.phase = "insert"])
  /\ UNCHANGED <<proj, history, fileKind, diff, status, session, cleaner, landed,
                 stale>>

InsertSandbox ==
  /\ op[Runner].phase = "insert"
  /\ Goes(Runner, [op[Runner] EXCEPT !.phase = "run"])
  /\ status' = "running"
  /\ UNCHANGED <<proj, history, fileKind, work, mapped, diff, session, cleaner,
                 landed, stale, events>>

\* The command works on the copy; what it left running, or the user, may go on
\* to change the copy after it.
WorkEdit(f, c) ==
  /\ Event(TRUE) /\ cleaner = "idle"
  /\ status # "none"
  /\ c \in Holds[f] \cup Placeholders /\ c # work[f]
  /\ work' = [work EXCEPT ![f] = c]
  /\ op' = [p \in Procs |-> [op[p] EXCEPT !.raced = @ \/ op[p].place = f]]
  /\ UNCHANGED <<proj, history, fileKind, mapped, diff, status, session, cleaner,
                 landed, stale>>

\* diff_dirs once the command has ended: the project as it is by now against
\* the copy.  A manifest leaves out what it cannot read.  diff.json is complete
\* before the status says so.
CompareDirs ==
  /\ op[Runner].phase = "run"
  /\ \E unread, missed \in SUBSET Flaky :
       /\ Event(unread \cup missed # {})
       /\ diff' = [f \in Files |-> [old |-> IF f \in unread THEN Absent ELSE proj[f],
                                    new |-> IF f \in missed THEN Absent ELSE work[f]]]
  /\ Goes(Runner, [op[Runner] EXCEPT !.phase = "diffed"])
  /\ UNCHANGED <<proj, history, fileKind, work, mapped, status, session, cleaner,
                 landed, stale>>

\* The status; then, if the command was an AI tool, the row of its session.
SandboxComplete ==
  /\ op[Runner].phase = "diffed"
  /\ status' \in {"complete", "command_failed"}
  /\ \E next \in {"session", "over"} :
       Goes(Runner, [Idle EXCEPT !.phase = next, !.skips = status' = "command_failed"])
  /\ UNCHANGED <<proj, history, fileKind, work, mapped, diff, session, cleaner,
                 landed, stale, events>>

\* Mutant: the sandbox's own status in the session's row.
InsertSessionAsSandbox ==
  /\ op[Runner].phase = "session"
  /\ session' = status
  /\ Goes(Runner, [op[Runner] EXCEPT !.phase = "over"])
  /\ UNCHANGED <<proj, history, fileKind, work, mapped, diff, status, cleaner, landed, stale,
                 events>>

InsertSession ==
  /\ op[Runner].phase = "session"
  /\ session' = IF status = "none" THEN "none"
                ELSE IF op[Runner].skips THEN "command_failed" ELSE "sandbox_complete"
  /\ Goes(Runner, [op[Runner] EXCEPT !.phase = "over"])
  /\ UNCHANGED <<proj, history, fileKind, work, mapped, diff, status, cleaner,
                 landed, stale, events>>

-----------------------------------------------------------------------------
\* apply_sandbox.  Nothing keeps two of them apart, nor one from a sandbox that
\* was applied before.

\* get_sandbox finds the row, the copy is there, _load_diff finds diff.json.
Loadable == status # "none" /\ cleaner = "idle" /\ diff # None

\* get_ai_change_session, before the first snapshot.
IsAiChange == session # "none"

\* Mutant: no snapshot before the first write.
StartApplyUnsaved(a, allow, dry) ==
  /\ op[a].phase = "idle" /\ Event(TRUE) /\ Loadable
  /\ Goes(a, [Idle EXCEPT !.allow = allow, !.dry = dry, !.ai = IsAiChange,
                          !.phase = "entries", !.todo = Entries])
  /\ UNCHANGED <<proj, history, fileKind, sandboxVars, landed, stale>>

StartApply(a, allow, dry) ==
  /\ op[a].phase = "idle" /\ Event(TRUE) /\ Loadable
  /\ LET r == [Idle EXCEPT !.allow = allow, !.dry = dry, !.ai = IsAiChange]
     IN  Goes(a, IF dry THEN [r EXCEPT !.phase = "entries", !.todo = Entries]
                 ELSE [r EXCEPT !.phase = "pre"])
  /\ UNCHANGED <<proj, history, fileKind, sandboxVars, landed, stale>>

\* Mutant: conflicts are not counted among the skips.
CheckEntryQuietly(a, f) ==
  /\ op[a].phase = "entries" /\ op[a].place = None /\ f \in op[a].todo
  /\ Goes(a, LET r == [op[a] EXCEPT !.todo = @ \ {f}]
             IN  IF ~Accepted(f, op[a].allow)
                 THEN [r EXCEPT !.skips = @ \/ work[f] = Absent]
                 ELSE IF op[a].dry THEN r
                 ELSE [r EXCEPT !.place = f, !.raced = FALSE])
  /\ UNCHANGED <<proj, history, fileKind, sandboxVars, landed, stale, events>>

CheckEntry(a, f) ==
  /\ op[a].phase = "entries" /\ op[a].place = None /\ f \in op[a].todo
  /\ Goes(a, LET r == [op[a] EXCEPT !.todo = @ \ {f}]
             IN  IF ~Accepted(f, op[a].allow) THEN [r EXCEPT !.skips = TRUE]
                 ELSE IF op[a].dry THEN r
                 ELSE [r EXCEPT !.place = f, !.raced = FALSE])
  /\ UNCHANGED <<proj, history, fileKind, sandboxVars, landed, stale, events>>

Landed(a) == [op[a] EXCEPT !.place = None, !.phase = "entries",
                           !.wrote = @ \cup {op[a].place}]

\* atomic_copy_file of what the copy holds by now, or dest.unlink().
WriteFile(a) ==
  LET f == op[a].place IN
  /\ op[a].phase = "entries" /\ f # None
  /\ \/ diff[f].new = Absent /\ proj[f] # Absent /\ proj' = [proj EXCEPT ![f] = Absent]
     \/ /\ diff[f].new # Absent /\ work[f] \notin Links \cup {Absent}
        /\ proj' = [proj EXCEPT ![f] = work[f]]
  /\ landed' = landed \cup {f}
  /\ Changes(a, f, Landed(a))
  /\ UNCHANGED <<history, fileKind, sandboxVars, stale, events>>

\* A link is not replaced at once: the old one is unlinked first.
UnlinkDest(a) ==
  LET f == op[a].place IN
  /\ op[a].phase = "entries" /\ f # None
  /\ diff[f].new # Absent /\ work[f] \in Links \ External
  /\ proj' = [proj EXCEPT ![f] = Absent]
  /\ Changes(a, f, [op[a] EXCEPT !.phase = "link", !.content = work[f]])
  /\ UNCHANGED <<history, fileKind, sandboxVars, landed, stale, events>>

\* os.symlink of c at x, or its text instead: where the system denies links, and
\* where somebody has put something in the way by now.
Symlinked(x, c) == IF proj[x] = Absent THEN {c, Payload(c)} ELSE {Payload(c)}

\* What was made of c at x comes out as text although nothing was in the way.
Denied(x, made) == proj[x] = Absent /\ made \in Payloads

\* It counts as brought back either way.
LinkDest(a) ==
  LET x == op[a].place IN
  /\ op[a].phase = "link" /\ a \in Appliers
  /\ \E made \in Symlinked(x, op[a].content) :
       /\ Event(Denied(x, made))
       /\ proj' = [proj EXCEPT ![x] = made]
  /\ landed' = landed \cup {x}
  /\ Changes(a, x, Landed(a))
  /\ UNCHANGED <<history, fileKind, sandboxVars, stale>>

Done(a) == op[a].phase = "entries" /\ op[a].place = None /\ op[a].todo = {}

EndDryRun(a) ==
  /\ Done(a) /\ op[a].dry
  /\ Goes(a, Idle)
  /\ UNCHANGED <<proj, history, fileKind, sandboxVars, landed, stale, events>>

\* Mutant: the snapshot follows only if something was skipped.
SnapshotAfterSkips(a) ==
  /\ Done(a) /\ ~op[a].dry
  /\ Goes(a, [op[a] EXCEPT !.phase = IF op[a].skips THEN "post" ELSE "report"])
  /\ UNCHANGED <<proj, history, fileKind, sandboxVars, landed, stale, events>>

\* The post-apply snapshot, if anything was brought back.
SnapshotAfterApply(a) ==
  /\ Done(a) /\ ~op[a].dry
  /\ Goes(a, IF op[a].wrote = {} THEN [op[a] EXCEPT !.phase = "report"]
             ELSE [op[a] EXCEPT !.phase = "post"])
  /\ UNCHANGED <<proj, history, fileKind, sandboxVars, landed, stale, events>>

Outcome(a) == IF op[a].skips THEN "partially_applied" ELSE "applied"

CompleteSession(a) ==
  /\ op[a].phase = "report" /\ op[a].ai
  /\ session' = Outcome(a)
  /\ Goes(a, [op[a] EXCEPT !.ai = FALSE])
  /\ UNCHANGED <<proj, history, fileKind, work, mapped, diff, status, cleaner,
                 landed, stale, events>>

\* An UPDATE of a row that sandbox-clean has deleted changes nothing.
NewStatus(s) == status' = IF status = "none" THEN "none" ELSE s

ReportApply(a) ==
  /\ op[a].phase = "report" /\ ~op[a].ai
  /\ NewStatus(Outcome(a))
  /\ Goes(a, Idle)
  /\ UNCHANGED <<proj, history, fileKind, work, mapped, diff, session, cleaner,
                 landed, stale, events>>

\* The write that a checked entry asks for can be done.
Able(a) ==
  LET f == op[a].place
  IN  op[a].phase # "entries" \/ f = None
      \/ (IF diff[f].new = Absent THEN proj[f] # Absent
          ELSE work[f] \notin External \cup {Absent})

\* An exception of a snapshot or of a write ends the whole call: the entries
\* brought back before it stay where they are.
FailApply(a) ==
  /\ op[a].phase # "idle" /\ ~op[a].dry
  /\ Event(Able(a))
  /\ NewStatus("failed")
  /\ Goes(a, Idle)
  /\ UNCHANGED <<proj, history, fileKind, work, mapped, diff, session, cleaner,
                 landed, stale>>

-----------------------------------------------------------------------------
\* restore_file: version c of f is put at t.  The kind comes with the row of f, not
\* with the version: a link that was followed by a file is written as a text.
\* None: a text that was followed by a link is no link's payload.

AsKind(kind, c) ==
  CASE kind = "file"    -> IF c \in Links THEN Payload(c) ELSE c
    [] kind = "symlink" -> IF c \in Links THEN c
                           ELSE IF c \in Payloads THEN c[2] ELSE None

StartRestore(r, f, c, t) ==
  /\ op[r].phase = "idle" /\ Event(TRUE)
  /\ c \in history[f]
  /\ LET o == [Idle EXCEPT !.place = t, !.content = AsKind(fileKind[f], c)]
     IN  Goes(r, IF proj[t] = Absent THEN [o EXCEPT !.phase = "write"]
                 ELSE IF t \in Outside THEN [o EXCEPT !.phase = "backup"]
                 ELSE [o EXCEPT !.phase = "pre"])
  /\ UNCHANGED <<proj, history, fileKind, sandboxVars, landed, stale>>

\* _backup_existing: a copy beside the target, which nobody else knows of.
BackupExisting(r) ==
  /\ op[r].phase = "backup"
  /\ history' = [history EXCEPT ![op[r].place] = @ \cup ({proj[op[r].place]} \cap Stored)]
  /\ Goes(r, [op[r] EXCEPT !.phase = "write", !.exposed = {}])
  /\ UNCHANGED <<proj, fileKind, sandboxVars, landed, stale, events>>

\* atomic_copy_from_object, or the unlink of _restore_symlink.
WriteTarget(r) ==
  LET t == op[r].place IN
  /\ op[r].phase = "write" /\ op[r].content # None
  /\ IF op[r].content \in Links
     THEN /\ proj' = [proj EXCEPT ![t] = Absent]
          /\ Changes(r, t, [op[r] EXCEPT !.phase = "link"])
     ELSE /\ proj' = [proj EXCEPT ![t] = op[r].content]
          /\ Changes(r, t, [op[r] EXCEPT !.phase = "event"])
  /\ UNCHANGED <<history, fileKind, sandboxVars, landed, stale, events>>

\* A text written over a link that is in the way goes where that leads, which is
\* none of the paths here.
LinkTarget(r) ==
  LET x == op[r].place IN
  /\ op[r].phase = "link" /\ r \in Restorers
  /\ \E made \in Symlinked(x, op[r].content) :
       /\ Event(Denied(x, made))
       /\ proj' = IF proj[x] \in Links THEN proj ELSE [proj EXCEPT ![x] = made]
  /\ Changes(r, x, [op[r] EXCEPT !.phase = "event"])
  /\ UNCHANGED <<history, fileKind, sandboxVars, landed, stale>>

\* _restore_symlink refuses what is no payload: the copies made so far stay.
RefusePayload(r) ==
  /\ op[r].phase = "write" /\ op[r].content = None
  /\ Goes(r, Idle)
  /\ UNCHANGED <<proj, history, fileKind, sandboxVars, landed, stale, events>>

\* The event row is committed; the post-restore snapshot follows in a folder.
AfterRestore(r) ==
  /\ op[r].phase = "event"
  /\ Goes(r, IF op[r].place \in Outside THEN Idle ELSE [op[r] EXCEPT !.phase = "post"])
  /\ UNCHANGED <<proj, history, fileKind, sandboxVars, landed, stale, events>>

-----------------------------------------------------------------------------
\* Any of them may die, or give up on an error, between two steps.

Dies(p) ==
  /\ op[p].phase \notin {"idle", "over"}
  /\ Event(TRUE)
  /\ Goes(p, IF p = Runner THEN [Idle EXCEPT !.phase = "over"] ELSE Idle)
  /\ UNCHANGED <<proj, history, fileKind, sandboxVars, landed, stale>>

-----------------------------------------------------------------------------
\* sandbox-clean of an applied sandbox that is old enough.

CleanDirectory ==
  /\ cleaner \in {"idle", "stuck"} /\ status = "applied"
  /\ cleaner' = "row"
  /\ work' = [f \in Files |-> Absent]
  /\ op' = [p \in Procs |-> [op[p] EXCEPT !.raced = TRUE]]
  /\ UNCHANGED <<proj, history, fileKind, mapped, diff, status, session, landed,
                 stale, events>>

\* The foreign key of an AI change session refuses the DELETE.
CleanRow ==
  /\ cleaner = "row"
  /\ IF session = "none" THEN cleaner' = "gone" /\ status' = "none"
     ELSE cleaner' = "stuck" /\ UNCHANGED status
  /\ UNCHANGED <<proj, history, fileKind, work, mapped, diff, session, op,
                 landed, stale, events>>

-----------------------------------------------------------------------------
Next ==
  \/ \E x \in Places, c \in Contents \cup {Absent} : UserEdit(x, c)
  \/ \E p \in Procs : Snapshot(p) \/ Dies(p)
  \/ StartSandbox \/ CopyProject \/ InsertSandbox \/ CompareDirs \/ SandboxComplete \/ InsertSession
  \/ \E f \in Files, c \in InTree : WorkEdit(f, c)
  \/ \E a \in Appliers, allow, dry \in BOOLEAN : StartApply(a, allow, dry)
  \/ \E a \in Appliers :
       \/ \E f \in Files : CheckEntry(a, f)
       \/ WriteFile(a) \/ UnlinkDest(a) \/ LinkDest(a)
       \/ EndDryRun(a) \/ SnapshotAfterApply(a)
       \/ CompleteSession(a) \/ ReportApply(a) \/ FailApply(a)
  \/ \E r \in Restorers, f \in Files, c \in Stored, t \in Places :
       StartRestore(r, f, c, t)
  \/ \E r \in Restorers :
       \/ BackupExisting(r) \/ WriteTarget(r) \/ LinkTarget(r) \/ RefusePayload(r)
       \/ AfterRestore(r)
  \/ CleanDirectory \/ CleanRow

Spec == Init /\ [][Next]_vars

-----------------------------------------------------------------------------
\* TYPE.  The values every variable ranges over, proj and history included.
OpType ==
  [phase : {"idle", "pre", "copy", "insert", "run", "diffed", "session", "over", "entries",
            "link", "post", "report", "backup", "write", "event"},
   todo : SUBSET Files, place : Places \cup {None}, content : Stored \cup {None},
   wrote : SUBSET Files, skips : BOOLEAN, allow : BOOLEAN, dry : BOOLEAN,
   ai : BOOLEAN, exposed : SUBSET Places, raced : BOOLEAN]

WbTypeOK ==
  /\ proj \in [Places -> InTree]
  /\ history \in [Places -> SUBSET Stored]
  /\ fileKind \in [Files -> {"file", "symlink", None}]
  /\ work \in [Files -> InTree]
  /\ mapped \in SUBSET Files
  /\ diff \in Diffs \cup {None}
  /\ status \in {"none", "running", "complete", "command_failed", "applied",
                 "partially_applied", "failed"}
  /\ session \in {"none", "sandbox_complete", "command_failed", "applied", "partially_applied"}
  /\ op \in [Procs -> OpType]
  /\ cleaner \in {"idle", "row", "gone", "stuck"}
  /\ landed \in SUBSET Files /\ stale \in SUBSET Files
  /\ events \in 0..MaxEvents

\* p touches the path it is at work on.
Writes(p) == \/ WriteFile(p) \/ UnlinkDest(p) \/ LinkDest(p)
             \/ WriteTarget(p) \/ LinkTarget(p)

\* What an apply or a restore overwrites can be restored, unless somebody
\* changed it after the call's own snapshot had read it, or that snapshot could
\* not read it (sandbox.py:322, restore.py:119).
CopyBeforeOverwrite ==
  [][\A p \in Procs : Writes(p) =>
       LET x == op[p].place
       IN  \/ proj[x] \in {Absent} \cup history[x]
           \/ x \in Ignored \cup op[p].exposed]_vars

\* What bringing c back may leave: of a link, where none can be made, its text.
BroughtBack(c) == IF c \in Links THEN {c, Payload(c)} ELSE {c}

\* An apply turns a file from what the diff says it was into what the diff says
\* it shall be, or the text of the link it shall be, whatever was edited, applied
\* or restored since, unless the file or its copy changed between this very check
\* and this write (sandbox.py:371-404).
ReviewedOnly ==
  [][\A a \in Appliers : Writes(a) /\ ~op[a].raced =>
       LET f == op[a].place
       IN  /\ op[a].phase = "entries" => proj[f] = diff[f].old
           /\ op'[a].phase = "entries" => proj'[f] \in BroughtBack(diff[f].new)]_vars

\* What the user changed while the command ran is not overwritten by an apply
\* (README.md:107, conflicts; test_apply_conflicts.py:15).
UserVersionPreserved ==
  [][\A a \in Appliers : Writes(a) => op[a].place \notin stale]_vars

\* A sandbox or session that reports it was applied has had every entry of its
\* diff brought back (sandbox.py:451).
AppliedIsWhole ==
  "applied" \in {status, session} => Entries \subseteq landed

\* When a call has taken its last snapshot, what it wrote can be restored: a
\* later change of it loses nothing (sandbox.py:445, restore.py:146).
ResultRecorded ==
  \A a \in Appliers : op[a].phase = "report" =>
    \A f \in op[a].wrote \ op[a].exposed : proj[f] \in history[f] \cup {Absent}
=============================================================================
