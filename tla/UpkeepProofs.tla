---------------------------- MODULE UpkeepProofs ----------------------------
(***************************************************************************)
(* Proofs about module Upkeep, for every number of users, folders, jobs    *)
(* and ticks of the clock.                                                 *)
(***************************************************************************)
EXTENDS Upkeep, FiniteSetTheorems, WellFoundedInduction, TLAPS

\* A save under way: it writes the edit it was asked for, of what it has loaded.
EditOK(u) ==
  user[u].step = "save" =>
    /\ user[u].todo # <<>> /\ Head(user[u].todo).kind \notin {"root", "unprotect"}
    /\ user[u].copy = Edit(FromDict(user[u].base), Head(user[u].todo))

\* The daemon's round; the file has the time of the last cleanup unless the daemon
\* is about to record it, or a save has undone the record.
RoundOK ==
  /\ loop.step # "idle" => alive
  /\ loop.current <= now
  /\ loop.step = "save" => loop.copy = [FromDict(loop.base) EXCEPT !.last = loop.current]
CleanupOK ==
  /\ loop.step \in {"record", "save"} => cleaned \in {Never, loop.current}
  /\ loop.step \notin {"record", "save"} /\ ~torn => cleaned \in {Never, config.last}
  /\ loop.step = "delete" /\ ~torn => cleaned = Never \/ loop.current - cleaned >= Day

\* A backup under way has a row of its own, which says how far it is.
RunOK ==
  /\ \A p \in Runners : run[p].step # "idle" =>
       /\ run[p].target = jobs[run[p].job].target
       /\ jobs[run[p].job].status = IF run[p].step = "rotate" THEN "success" ELSE "running"
       /\ \A q \in Runners \ {p} : run[q].step # "idle" => run[q].job # run[p].job
  /\ \A j \in DOMAIN jobs : jobs[j].at # Never => jobs[j].at <= now
  /\ \A i \in DOMAIN made : made[i] <= Len(jobs)

\* NoEarlyRetry, from the daemon's decision on.
RetryOK ==
  loop.step = "start" =>
    \A f \in Ended("failed") :
      (\A k \in Ended("failed") : jobs[k].at <= jobs[f].at) =>
        \/ now - jobs[f].at >= Retry \/ jobs[f].at >= loop.current
        \/ \E k \in Ended("success") : jobs[k].at >= jobs[f].at

Kept(j) == j \in archives[jobs[j].target] \cup deleted
Rotating(j) == \E p \in Runners : run[p].step = "rotate" /\ run[p].job = j

\* While backups come one after the other: the last job is the one under way, jobs
\* end and archives are made in their order, and the last success, as well as the
\* one before while the last is still rotating, has its archive.
OrderOK ==
  /\ \A p \in Runners : run[p].step # "idle" =>
       /\ run[p].job = Len(jobs)
       /\ \A q \in Runners \ {p} : run[q].step = "idle"
       /\ run[p].step = "export" => \A i \in DOMAIN made : made[i] < Len(jobs)
       /\ run[p].step \in {"exported", "rotate"} => Kept(run[p].job)
  /\ \A j, k \in DOMAIN jobs :
       j < k /\ jobs[j].at # Never /\ jobs[k].at # Never => jobs[j].at <= jobs[k].at
  /\ \A i, k \in DOMAIN made : i < k => made[i] < made[k]
  /\ \A j \in Ended("success") :
       (\A k \in Ended("success") : k <= j \/ Rotating(k)) => Kept(j)

UpkeepInv ==
  /\ UpkeepTypeOK
  /\ \A u \in Users : EditOK(u)
  /\ RoundOK /\ CleanupOK /\ SettingsKept
  /\ RunOK /\ RetryOK
  /\ ~spoilt => OrderOK

-----------------------------------------------------------------------------
(* Operators of the configuration.                                         *)

\* All settings but the record of the last cleanup.
SameSettings(c, d) ==
  /\ c.target = d.target /\ c.schedule = d.schedule /\ c.enabled = d.enabled
  /\ c.budget = d.budget /\ c.cleanup = d.cleanup /\ c.days = d.days
  /\ c.onboarded = d.onboarded

LEMMA ConfigIs ==
  ASSUME NEW c \in Configs
  PROVE  /\ c.target \in Targets \cup {Never} /\ c.schedule \in {"manual", "daily", "weekly"}
         /\ c.enabled \in BOOLEAN /\ c.budget \in Nat /\ c.cleanup \in BOOLEAN \cup {Missing}
         /\ c.days \in Nat /\ c.last \in (0..MaxTime) \cup {Never} /\ c.onboarded \in BOOLEAN
  BY DEF Configs

LEMMA LastSetIs ==
  ASSUME NEW c \in Configs, NEW t \in (0..MaxTime) \cup {Never}
  PROVE  /\ [c EXCEPT !.last = t] \in Configs
         /\ [c EXCEPT !.last = t].last = t
         /\ SameSettings([c EXCEPT !.last = t], c)
  BY DEF Configs, SameSettings

\* Two configurations without a record of a cleanup that agree on all settings.
LEMMA SettingsAreAll ==
  ASSUME NEW c \in Configs, NEW d \in Configs, SameSettings(c, d), d.last = Never
  PROVE  [c EXCEPT !.last = Never] = d
  BY DEF Configs, SameSettings

LEMMA FromDictIs ==
  ASSUME NEW c \in Configs
  PROVE  /\ FromDict(c) \in Configs /\ FromDict(c).cleanup \in BOOLEAN
         /\ FromDict(c).last = c.last
         /\ c.cleanup \in BOOLEAN => SameSettings(FromDict(c), c)
<1> DEFINE on == c.cleanup = TRUE
           d == IF c.cleanup = Missing /\ c.days = LegacyDays THEN DefaultDays ELSE c.days
<1>1. FromDict(c) = [c EXCEPT !.cleanup = on, !.days = d]
  BY DEF FromDict
<1>2. on \in BOOLEAN /\ d \in Nat /\ (c.cleanup \in BOOLEAN => d = c.days)
  BY ConfigIs, UpkeepAssumption
<1>3. c.cleanup \in BOOLEAN => on = c.cleanup
  OBVIOUS
<1> HIDE DEF on, d
<1>4. QED
  BY <1>1, <1>2, <1>3 DEF Configs, SameSettings

LEMMA EditIs ==
  ASSUME NEW c \in Configs, c.cleanup \in BOOLEAN, NEW e \in SettingEdits
  PROVE  /\ Edit(c, e) \in Configs /\ Edit(c, e).cleanup \in BOOLEAN
         /\ \/ Edit(c, e).last = c.last
            \/ Edit(c, e).last = Never /\ e.kind = "retention" /\ Confirming(c, e)
<1>1. CASE e.kind = "backup"
  <2>1. Edit(c, e) = [c EXCEPT !.target = e.target, !.schedule = e.schedule, !.enabled = TRUE]
    BY <1>1 DEF Edit
  <2>2. QED
    BY <1>1, <2>1 DEF Configs, SettingEdits
<1>2. CASE e.kind = "disable"
  <2>1. Edit(c, e) = [c EXCEPT !.enabled = FALSE]
    BY <1>2 DEF Edit
  <2>2. QED
    BY <2>1 DEF Configs
<1>3. CASE e.kind = "budget"
  <2>1. Edit(c, e) = [c EXCEPT !.budget = e.budget]
    BY <1>3 DEF Edit
  <2>2. QED
    BY <1>3, <2>1 DEF Configs, SettingEdits
<1>4. CASE e.kind = "retention"
  <2> DEFINE t == IF Confirming(c, e) THEN Never ELSE c.last
  <2>1. Edit(c, e) = [c EXCEPT !.days = e.days, !.cleanup = e.on, !.last = t]
    BY <1>4 DEF Edit
  <2>2. e.days \in Nat /\ e.on \in BOOLEAN
    BY <1>4 DEF SettingEdits
  <2>3. t \in (0..MaxTime) \cup {Never} /\ (t = c.last \/ (t = Never /\ Confirming(c, e)))
    BY ConfigIs
  <2> HIDE DEF t
  <2>4. QED
    BY <1>4, <2>1, <2>2, <2>3 DEF Configs
<1>5. CASE e.kind = "onboarded"
  <2>1. Edit(c, e) = [c EXCEPT !.onboarded = TRUE]
    BY <1>5 DEF Edit
  <2>2. QED
    BY <2>1 DEF Configs
<1>6. QED
  BY <1>1, <1>2, <1>3, <1>4, <1>5 DEF SettingEdits

\* An edit makes the same of configurations that differ in the record only.
LEMMA EditOfSame ==
  ASSUME NEW c \in Configs, NEW d \in Configs, SameSettings(c, d), NEW e \in SettingEdits
  PROVE  SameSettings(Edit(c, e), Edit(d, e))
<1>1. CASE e.kind = "backup"
  BY <1>1 DEF Edit, Configs, SameSettings
<1>2. CASE e.kind = "disable"
  BY <1>2 DEF Edit, Configs, SameSettings
<1>3. CASE e.kind = "budget"
  BY <1>3 DEF Edit, Configs, SameSettings
<1>4. CASE e.kind = "retention"
  <2> DEFINE s == IF Confirming(c, e) THEN Never ELSE c.last
             t == IF Confirming(d, e) THEN Never ELSE d.last
  <2>1. /\ Edit(c, e) = [c EXCEPT !.days = e.days, !.cleanup = e.on, !.last = s]
        /\ Edit(d, e) = [d EXCEPT !.days = e.days, !.cleanup = e.on, !.last = t]
    BY <1>4 DEF Edit
  <2> HIDE DEF s, t
  <2>2. QED
    BY <2>1 DEF Configs, SameSettings
<1>5. CASE e.kind = "onboarded"
  BY <1>5 DEF Edit, Configs, SameSettings
<1>6. QED
  BY <1>1, <1>2, <1>3, <1>4, <1>5 DEF SettingEdits

\* What the user has chosen after an edit.
LEMMA ChoiceIs ==
  ASSUME NEW c \in Configs, c.cleanup \in BOOLEAN, NEW e \in SettingEdits
  PROVE  /\ Choice(c, e) \in Configs /\ Choice(c, e).last = Never
         /\ SameSettings(Edit(c, e), Choice(c, e))
<1> DEFINE b == [c EXCEPT !.last = Never]
           d == Edit(b, e)
<1>1. b \in Configs /\ SameSettings(b, c) /\ b.cleanup \in BOOLEAN
  BY LastSetIs DEF SameSettings
<1>2. d \in Configs /\ SameSettings(d, Edit(c, e))
  BY <1>1, EditIs, EditOfSame
<1>3. Choice(c, e) = [d EXCEPT !.last = Never]
  BY DEF Choice
<1> HIDE DEF b, d
<1>4. QED
  BY <1>2, <1>3, LastSetIs DEF SameSettings

-----------------------------------------------------------------------------
(* Jobs.                                                                   *)

LEMMA LeastIs ==
  ASSUME NEW S \in SUBSET Nat, S # {}
  PROVE  \E m \in S : \A n \in S : m <= n
<1>1. PICK m \in S : \A n \in S : ~(<<n, m>> \in OpToRel(<, Nat))
  BY NatLessThanWellFounded, WFMin
<1>2. ASSUME NEW n \in S PROVE m <= n
  <2>1. <<n, m>> \in Nat \X Nat /\ <<n, m>>[1] = n /\ <<n, m>>[2] = m
    OBVIOUS
  <2>2. ~(n < m)
    BY <1>1, <2>1 DEF OpToRel
  <2>3. QED
    BY <2>2
<1>3. QED
  BY <1>2

LEMMA JobsAre ==
  ASSUME UpkeepTypeOK
  PROVE  /\ Len(jobs) \in 0..MaxJobs /\ DOMAIN jobs = 1..Len(jobs)
         /\ \A j \in DOMAIN jobs :
              /\ j \in 1..MaxJobs /\ jobs[j] \in JobType
              /\ jobs[j].status \in {"running", "success", "failed"}
              /\ jobs[j].at \in (0..MaxTime) \cup {Never} /\ jobs[j].target \in Targets
              /\ jobs[j].at = Never <=> jobs[j].status = "running"
<1>1. /\ jobs \in Seq(JobType) /\ Len(jobs) <= MaxJobs /\ MaxJobs \in Nat
      /\ \A j \in DOMAIN jobs : jobs[j].at = Never <=> jobs[j].status = "running"
  BY UpkeepAssumption DEF UpkeepTypeOK
<1>2. Len(jobs) \in Nat /\ DOMAIN jobs = 1..Len(jobs)
  BY <1>1
<1>3. ASSUME NEW j \in DOMAIN jobs
      PROVE  /\ j \in 1..MaxJobs /\ jobs[j] \in JobType
             /\ jobs[j].status \in {"running", "success", "failed"}
             /\ jobs[j].at \in (0..MaxTime) \cup {Never} /\ jobs[j].target \in Targets
  <2>1. jobs[j] \in JobType /\ j \in 1..MaxJobs
    BY <1>1, <1>2
  <2>2. QED
    BY <2>1 DEF JobType
<1>4. QED
  BY <1>1, <1>2, <1>3

LEMMA EndedIs ==
  ASSUME UpkeepTypeOK, NEW status \in {"success", "failed"}, NEW j \in Ended(status)
  PROVE  /\ j \in DOMAIN jobs /\ j \in 1..Len(jobs) /\ j \in Int
         /\ jobs[j].at \in 0..MaxTime /\ jobs[j].at \in Int
         /\ jobs[j].status = status /\ jobs[j].at # Never
  BY JobsAre DEF Ended

\* The latest job is the one that ended last; of those that ended at once, the last
\* to begin.
LEMMA LatestIs ==
  ASSUME UpkeepTypeOK, NEW status \in {"success", "failed"}, Ended(status) # {}
  PROVE  /\ Latest(status) \in Ended(status)
         /\ \A k \in Ended(status) :
              \/ jobs[k].at < jobs[Latest(status)].at
              \/ jobs[k].at = jobs[Latest(status)].at /\ k <= Latest(status)
<1> DEFINE E == Ended(status)
           ages == {MaxTime - jobs[j].at : j \in E}
<1>0. MaxTime \in Nat /\ Len(jobs) \in Nat
  BY JobsAre, UpkeepAssumption
<1>1. \A j \in E : j \in 1..Len(jobs) /\ jobs[j].at \in 0..MaxTime
  BY EndedIs
<1>2. PICK age \in ages : \A n \in ages : age <= n
  <2>1. ages \in SUBSET Nat /\ ages # {}
    BY <1>0, <1>1
  <2>2. QED
    BY <2>1, LeastIs
<1> DEFINE places == {Len(jobs) - j : j \in {k \in E : MaxTime - jobs[k].at = age}}
<1>3. PICK place \in places : \A n \in places : place <= n
  <2>1. places \in SUBSET Nat /\ places # {}
    BY <1>0, <1>1, <1>2
  <2>2. QED
    BY <2>1, LeastIs
<1>4. PICK j \in E : MaxTime - jobs[j].at = age /\ Len(jobs) - j = place
  BY <1>3
<1>5. ASSUME NEW k \in E
      PROVE  jobs[k].at < jobs[j].at \/ (jobs[k].at = jobs[j].at /\ k <= j)
  <2>1. MaxTime - jobs[j].at <= MaxTime - jobs[k].at
    BY <1>2, <1>4
  <2>2. jobs[k].at = jobs[j].at => Len(jobs) - j <= Len(jobs) - k
    BY <1>3, <1>4
  <2>3. /\ jobs[j].at \in Int /\ jobs[k].at \in Int /\ j \in Int /\ k \in Int
        /\ MaxTime \in Int /\ Len(jobs) \in Int
    BY <1>0, <1>1
  <2> HIDE DEF E, ages, places
  <2>4. QED
    BY <2>1, <2>2, <2>3
<1>6. \E m \in Ended(status) : \A k \in Ended(status) :
        jobs[k].at < jobs[m].at \/ (jobs[k].at = jobs[m].at /\ k <= m)
  BY <1>4, <1>5
<1>7. QED
  BY <1>6 DEF Latest

-----------------------------------------------------------------------------
(* What a step leaves alone.                                               *)

LEMMA SettingsFrame ==
  ASSUME UpkeepInv, UNCHANGED <<config, chosen, torn>>
  PROVE  SettingsKept'
  BY DEF UpkeepInv, SettingsKept, load

LEMMA CleanupFrame ==
  ASSUME UpkeepInv, UNCHANGED <<config, torn, cleaned, loop>>
  PROVE  CleanupOK'
  BY DEF UpkeepInv, CleanupOK

LEMMA RoundFrame ==
  ASSUME UpkeepInv, loop' = loop, alive => alive', now <= now', now' \in Nat
  PROVE  RoundOK'
  BY DEF UpkeepInv, RoundOK, UpkeepTypeOK, LoopType

LEMMA EditFrame ==
  ASSUME UpkeepInv, user' = user
  PROVE  \A u \in Users : EditOK(u)'
  BY DEF UpkeepInv, EditOK

LEMMA RetryFrame ==
  ASSUME UpkeepInv, UNCHANGED <<jobs, loop>>, now <= now', now' \in Nat
  PROVE  RetryOK'
<1>1. Ended("failed")' = Ended("failed") /\ Ended("success")' = Ended("success")
  BY DEF Ended
<1>2. \A f \in Ended("failed") : jobs[f].at \in Int
  BY EndedIs DEF UpkeepInv
<1>3. Retry \in Int /\ now \in Int
  BY UpkeepAssumption DEF UpkeepInv, UpkeepTypeOK
<1>4. QED
  BY <1>1, <1>2, <1>3 DEF UpkeepInv, RetryOK

LEMMA RunFrame ==
  ASSUME UpkeepInv, UNCHANGED backupVars, now <= now', now' \in Nat
  PROVE  RunOK' /\ (~spoilt' => OrderOK')
<1>1. UNCHANGED <<jobs, archives, run, deleted, made, spoilt>>
  BY DEF backupVars
<1>2. \A j \in DOMAIN jobs : jobs[j].at # Never => jobs[j].at <= now'
  <2>1. \A j \in DOMAIN jobs : jobs[j].at \in (0..MaxTime) \cup {Never}
    BY JobsAre DEF UpkeepInv
  <2>2. \A j \in DOMAIN jobs : jobs[j].at # Never => jobs[j].at <= now
    BY DEF UpkeepInv, RunOK
  <2>3. now \in Int
    BY DEF UpkeepInv, UpkeepTypeOK
  <2>4. QED
    BY <2>1, <2>2, <2>3
<1>3. RunOK'
  BY <1>1, <1>2 DEF UpkeepInv, RunOK
<1>4. ~spoilt' => OrderOK'
  BY <1>1 DEF UpkeepInv, OrderOK, Kept, Rotating, Ended
<1>5. QED
  BY <1>3, <1>4

LEMMA NowIs ==
  ASSUME UpkeepInv
  PROVE  now \in Nat /\ now \in Int /\ now <= now /\ UpkeepTypeOK
  BY DEF UpkeepInv, UpkeepTypeOK

LEMMA TodoIs ==
  ASSUME UpkeepTypeOK, NEW u \in Users
  PROVE  /\ user[u] \in UserType
         /\ user[u].todo \in Seq(Edits) /\ user[u].copy \in Configs /\ user[u].base \in Configs
         /\ user[u].todo # <<>> =>
              Head(user[u].todo) \in Edits /\ Tail(user[u].todo) \in Seq(Edits)
<1>1. user[u] \in UserType
  BY DEF UpkeepTypeOK
<1>2. user[u].todo \in Seq(Edits) /\ user[u].copy \in Configs /\ user[u].base \in Configs
  BY <1>1 DEF UserType
<1>3. QED
  BY <1>1, <1>2

\* A step of one user: the others' calls are as they were.
LEMMA UserStepIs ==
  ASSUME UpkeepInv, NEW u \in Users, NEW v \in UserType, user' = [user EXCEPT ![u] = v],
         user'[u] = v => EditOK(u)'
  PROVE  user' \in [Users -> UserType] /\ \A w \in Users : EditOK(w)'
<1>1. /\ user' \in [Users -> UserType] /\ user'[u] = v
      /\ \A w \in Users \ {u} : user'[w] = user[w]
  BY DEF UpkeepInv, UpkeepTypeOK
<1>2. ASSUME NEW w \in Users \ {u} PROVE EditOK(w)'
  BY <1>1 DEF UpkeepInv, EditOK
<1>3. QED
  BY <1>1, <1>2

-----------------------------------------------------------------------------
(* The steps of a user, but for the backups.                               *)

LEMMA TickKeeps ==
  ASSUME UpkeepInv, Tick
  PROVE  UpkeepInv'
<1>1. /\ now' = now + 1 /\ now < MaxTime
      /\ UNCHANGED <<config, roots, backupVars, user, alive, loop, chosen, torn, cleaned, calls>>
  BY DEF Tick
<1>2. now \in Nat /\ now' \in Nat /\ now <= now' /\ now' \in 0..MaxTime
  BY <1>1, UpkeepAssumption DEF UpkeepInv, UpkeepTypeOK
<1>3. UpkeepTypeOK'
  BY <1>1, <1>2 DEF UpkeepInv, UpkeepTypeOK, backupVars
<1>4. RunOK' /\ (~spoilt' => OrderOK') /\ RetryOK' /\ RoundOK'
  BY <1>1, <1>2, RunFrame, RetryFrame, RoundFrame DEF backupVars
<1>5. SettingsKept' /\ CleanupOK' /\ \A u \in Users : EditOK(u)'
  BY <1>1, SettingsFrame, CleanupFrame, EditFrame
<1>6. QED
  BY <1>3, <1>4, <1>5 DEF UpkeepInv

\* A step of a user that changes only the call and the folders that are protected.
LEMMA CallKeeps ==
  ASSUME UpkeepInv, NEW u \in Users, NEW v \in UserType, user' = [user EXCEPT ![u] = v],
         user'[u] = v => EditOK(u)', calls' \in 0..MaxCalls, roots' \in SUBSET Roots,
         UNCHANGED <<now, config, backupVars, alive, loop, chosen, torn, cleaned>>
  PROVE  UpkeepInv'
<1>1. user' \in [Users -> UserType] /\ \A w \in Users : EditOK(w)'
  BY UserStepIs
<1>2. UpkeepTypeOK'
  BY <1>1 DEF UpkeepInv, UpkeepTypeOK, backupVars
<1>3. RunOK' /\ (~spoilt' => OrderOK') /\ RetryOK' /\ RoundOK'
  BY NowIs, RunFrame, RetryFrame, RoundFrame DEF backupVars
<1>4. SettingsKept' /\ CleanupOK'
  BY SettingsFrame, CleanupFrame
<1>5. QED
  BY <1>1, <1>2, <1>3, <1>4 DEF UpkeepInv

LEMMA CallIs ==
  ASSUME UpkeepInv, Call
  PROVE  calls' \in 0..MaxCalls
  BY UpkeepAssumption DEF Call, UpkeepInv, UpkeepTypeOK

\* A user that asks for nothing more, or goes on to the next edit, saves nothing.
LEMMA NextIs ==
  ASSUME UpkeepInv, NEW u \in Users, NEW s \in Seq(Edits)
  PROVE  /\ [user[u] EXCEPT !.todo = s, !.step = "next"] \in UserType
         /\ [user[u] EXCEPT !.todo = s, !.step = "next"].step = "next"
         /\ NoCall \in UserType /\ NoCall.step = "next"
<1>1. user[u] \in UserType
  BY TodoIs DEF UpkeepInv
<1>2. <<>> \in Seq(Edits) /\ Initial \in Configs
  BY UpkeepAssumption
<1>3. QED
  BY <1>1, <1>2 DEF UserType, NoCall

LEMMA AskKeeps ==
  ASSUME UpkeepInv, NEW u \in Users, NEW c \in Calls, Ask(u, c)
  PROVE  UpkeepInv'
<1> DEFINE v == [user[u] EXCEPT !.todo = c]
<1>1. user[u] \in UserType /\ c \in Seq(Edits)
  BY TodoIs, UpkeepAssumption DEF UpkeepInv
<1>2. /\ user' = [user EXCEPT ![u] = v] /\ user[u].todo = <<>> /\ calls' \in 0..MaxCalls
      /\ UNCHANGED <<now, config, roots, backupVars, alive, loop, chosen, torn, cleaned>>
  BY CallIs DEF Ask
<1>3. user[u].step # "save"
  BY <1>2 DEF UpkeepInv, EditOK
<1>4. v \in UserType /\ v.step # "save"
  BY <1>1, <1>3 DEF UserType
<1> HIDE DEF v
<1>5. user'[u] = v => EditOK(u)'
  BY <1>4 DEF EditOK
<1>6. roots' \in SUBSET Roots
  BY <1>2 DEF UpkeepInv, UpkeepTypeOK
<1>7. QED
  BY <1>2, <1>4, <1>5, <1>6, CallKeeps

LEMMA AddRootKeeps ==
  ASSUME UpkeepInv, NEW u \in Users, AddRoot(u)
  PROVE  UpkeepInv'
<1> DEFINE e == Head(user[u].todo)
           next == [user[u] EXCEPT !.todo = Tail(@), !.step = "next"]
<1>1. /\ user[u].todo # <<>> /\ e.kind = "root" /\ calls' = calls
      /\ UNCHANGED <<now, config, backupVars, alive, loop, chosen, torn, cleaned>>
      /\ \/ roots' = roots \cup {e.root} /\ user' = Done(u)
         \/ roots' = roots /\ user' = [user EXCEPT ![u] = NoCall]
  BY DEF AddRoot
<1>2. e \in Edits /\ Tail(user[u].todo) \in Seq(Edits)
  BY <1>1, TodoIs DEF UpkeepInv
<1>3. e.root \in Roots
  BY <1>1, <1>2 DEF Edits, SettingEdits
<1>4. roots' \in SUBSET Roots /\ calls' \in 0..MaxCalls
  BY <1>1, <1>3 DEF UpkeepInv, UpkeepTypeOK
<1>5. next \in UserType /\ next.step = "next" /\ NoCall \in UserType /\ NoCall.step = "next"
  BY <1>2, NextIs
<1>6. Done(u) = [user EXCEPT ![u] = next]
  BY DEF Done
<1> HIDE DEF next
<1>7. PICK v \in {next, NoCall} : user' = [user EXCEPT ![u] = v]
  BY <1>1, <1>6
<1>8. user'[u] = v => EditOK(u)'
  BY <1>5, <1>7 DEF EditOK
<1>9. QED
  BY <1>1, <1>4, <1>5, <1>7, <1>8, CallKeeps

LEMMA RemoveRootKeeps ==
  ASSUME UpkeepInv, NEW u \in Users, RemoveRoot(u)
  PROVE  UpkeepInv'
<1> DEFINE next == [user[u] EXCEPT !.todo = Tail(@), !.step = "next"]
<1>1. /\ user[u].todo # <<>> /\ roots' \subseteq roots /\ user' = Done(u)
      /\ UNCHANGED <<now, config, backupVars, alive, loop, chosen, torn, cleaned, calls>>
  BY DEF RemoveRoot
<1>2. Tail(user[u].todo) \in Seq(Edits)
  BY <1>1, TodoIs DEF UpkeepInv
<1>3. roots' \in SUBSET Roots /\ calls' \in 0..MaxCalls
  BY <1>1 DEF UpkeepInv, UpkeepTypeOK
<1>4. next \in UserType /\ next.step = "next"
  BY <1>2, NextIs
<1>5. Done(u) = [user EXCEPT ![u] = next]
  BY DEF Done
<1> HIDE DEF next
<1>6. user'[u] = next => EditOK(u)'
  BY <1>4 DEF EditOK
<1>7. QED
  BY <1>1, <1>3, <1>4, <1>5, <1>6, CallKeeps

\* An edit of a setting, by its kind.
LEMMA SettingEditIs ==
  ASSUME NEW e \in Edits, e.kind \notin {"root", "unprotect"}
  PROVE  e \in SettingEdits
  BY DEF Edits

LEMMA LoadEditKeeps ==
  ASSUME UpkeepInv, NEW u \in Users, LoadEdit(u)
  PROVE  UpkeepInv'
<1> DEFINE e == Head(user[u].todo)
           new == Edit(FromDict(config), e)
           next == [user[u] EXCEPT !.step = "save", !.base = config, !.copy = new]
<1>1. /\ user[u].todo # <<>> /\ e.kind \notin {"root", "unprotect"}
      /\ UNCHANGED <<now, config, roots, backupVars, alive, loop, chosen, torn, cleaned,
                     calls>>
      /\ \/ user' = [user EXCEPT ![u] = NoCall]
         \/ user' = [user EXCEPT ![u].step = "save", ![u].base = config, ![u].copy = new]
  BY DEF LoadEdit, load
<1>2. e \in SettingEdits /\ user[u] \in UserType /\ config \in Configs
  BY <1>1, TodoIs, SettingEditIs DEF UpkeepInv, UpkeepTypeOK
<1>3. new \in Configs
  BY <1>2, FromDictIs, EditIs
<1> HIDE DEF new
<1>4. /\ next \in UserType /\ next.todo = user[u].todo /\ next.copy = new
      /\ next.base = config
  BY <1>2, <1>3 DEF UserType
<1> HIDE DEF e
<1>5. \/ user' = [user EXCEPT ![u] = NoCall]
      \/ user' = [user EXCEPT ![u] = next]
  BY <1>1
<1> HIDE DEF next
<1>6. roots' \in SUBSET Roots /\ calls' \in 0..MaxCalls
  BY <1>1 DEF UpkeepInv, UpkeepTypeOK
<1>7. CASE user' = [user EXCEPT ![u] = NoCall]
  <2>1. NoCall \in UserType /\ NoCall.step = "next"
    BY NextIs, TodoIs DEF UpkeepInv
  <2>2. user'[u] = NoCall => EditOK(u)'
    BY <2>1 DEF EditOK
  <2>3. QED
    BY <1>1, <1>6, <1>7, <2>1, <2>2, CallKeeps
<1>8. CASE user' = [user EXCEPT ![u] = next]
  <2>1. user'[u] = next => EditOK(u)'
    BY <1>1, <1>4 DEF EditOK, e, new
  <2>2. QED
    BY <1>1, <1>4, <1>6, <1>8, <2>1, CallKeeps
<1>9. QED
  BY <1>5, <1>7, <1>8

\* What is saved is what the user has chosen, unless it undoes another's save.
LEMMA SaveEditKeeps ==
  ASSUME UpkeepInv, NEW u \in Users, SaveEdit(u)
  PROVE  UpkeepInv'
<1> DEFINE e == Head(user[u].todo)
           base == user[u].base
           next == [user[u] EXCEPT !.todo = Tail(@), !.step = "next", !.copy = Initial,
                                   !.base = Initial]
<1>0. UpkeepTypeOK /\ EditOK(u) /\ user[u].step = "save"
  BY DEF UpkeepInv, SaveEdit
<1>1. /\ user[u].todo # <<>> /\ e \in SettingEdits
      /\ user[u].copy = Edit(FromDict(base), e)
      /\ base \in Configs /\ user[u] \in UserType /\ Tail(user[u].todo) \in Seq(Edits)
  BY <1>0, TodoIs, SettingEditIs DEF EditOK
<1>2. /\ config' = Edit(FromDict(base), e)
      /\ torn' = (torn \/ config # base) /\ chosen' = Choice(chosen, e)
      /\ cleaned' = IF e.kind = "retention" /\ Confirming(FromDict(base), e)
                    THEN Never ELSE cleaned
      /\ user' = [Done(u) EXCEPT ![u].copy = Initial, ![u].base = Initial]
      /\ UNCHANGED <<now, roots, backupVars, alive, loop, calls>>
  BY <1>1 DEF SaveEdit, Overwrites
<1>3. next \in UserType /\ next.step = "next"
  BY <1>1, UpkeepAssumption DEF UserType
<1>4. user' = [user EXCEPT ![u] = next]
  BY <1>2 DEF Done
<1> HIDE DEF next
<1>5. user' \in [Users -> UserType] /\ \A w \in Users : EditOK(w)'
  <2>1. user'[u] = next => EditOK(u)'
    BY <1>3 DEF EditOK
  <2>2. QED
    BY <1>3, <1>4, <2>1, UserStepIs
<1>6. /\ FromDict(base) \in Configs /\ FromDict(base).cleanup \in BOOLEAN
      /\ FromDict(base).last = base.last
  BY <1>1, FromDictIs
<1>7. /\ config' \in Configs /\ config'.cleanup \in BOOLEAN
      /\ \/ config'.last = base.last
         \/ /\ config'.last = Never /\ e.kind = "retention"
            /\ Confirming(FromDict(base), e)
  BY <1>1, <1>2, <1>6, EditIs
<1>8. torn' \in BOOLEAN /\ (~torn' => ~torn /\ config = base)
  BY <1>0, <1>2 DEF UpkeepTypeOK
<1>9. cleaned' = Never \/ (cleaned' = cleaned /\ config'.last = base.last)
  BY <1>2, <1>7
<1>10. /\ chosen \in Configs /\ chosen.cleanup \in BOOLEAN
       /\ ~torn' => SameSettings(FromDict(base), chosen)
  <2>1. ~torn => [FromDict(config) EXCEPT !.last = Never] = chosen
    BY DEF UpkeepInv, SettingsKept, load
  <2>2. SameSettings([FromDict(base) EXCEPT !.last = Never], FromDict(base))
    BY <1>6, LastSetIs
  <2>3. ~torn' => SameSettings(FromDict(base), chosen)
    BY <1>8, <2>1, <2>2 DEF SameSettings
  <2>4. QED
    BY <1>0, <2>3 DEF UpkeepTypeOK
<1>11. chosen' \in Configs /\ chosen'.cleanup \in BOOLEAN /\ chosen'.last = Never
       /\ SameSettings(Edit(chosen, e), chosen')
  BY <1>1, <1>2, <1>10, ChoiceIs, EditIs DEF SameSettings
<1> HIDE DEF e, base
<1>12. UpkeepTypeOK'
  BY <1>0, <1>2, <1>5, <1>7, <1>8, <1>9, <1>11 DEF UpkeepTypeOK, backupVars
<1>13. SettingsKept'
  <2> SUFFICES ASSUME ~torn'
               PROVE  [FromDict(config') EXCEPT !.last = Never] = chosen'
    BY DEF SettingsKept, load
  <2>1. SameSettings(config', Edit(chosen, e))
    BY <1>1, <1>2, <1>6, <1>10, EditOfSame
  <2>2. FromDict(config') \in Configs /\ SameSettings(FromDict(config'), config')
    BY <1>7, FromDictIs
  <2>3. SameSettings(FromDict(config'), chosen')
    BY <1>11, <2>1, <2>2 DEF SameSettings
  <2>4. QED
    BY <1>11, <2>2, <2>3, SettingsAreAll
<1>14. CleanupOK'
  BY <1>2, <1>8, <1>9 DEF UpkeepInv, CleanupOK
<1>15. RunOK' /\ (~spoilt' => OrderOK') /\ RetryOK' /\ RoundOK'
  BY <1>2, NowIs, RunFrame, RetryFrame, RoundFrame DEF backupVars
<1>16. QED
  BY <1>5, <1>12, <1>13, <1>14, <1>15 DEF UpkeepInv

\* The user takes an archive away: it counts as deleted.
LEMMA DeleteArchiveKeeps ==
  ASSUME UpkeepInv, NEW u \in Users, NEW a \in 1..MaxJobs, DeleteArchive(u, a)
  PROVE  UpkeepInv'
<1> DEFINE t == FromDict(config).target
<1>1. /\ t \in Targets /\ archives' = [archives EXCEPT ![t] = @ \ {a}]
      /\ deleted' = deleted \cup {a} /\ calls' \in 0..MaxCalls
      /\ UNCHANGED <<now, config, roots, jobs, run, made, spoilt, user, alive, loop,
                     chosen, torn, cleaned>>
  BY CallIs DEF DeleteArchive, load
<1> HIDE DEF t
<1>2. UpkeepTypeOK
  BY DEF UpkeepInv
<1>3. archives' \in [Targets -> SUBSET (1..MaxJobs)] /\ deleted' \in SUBSET (1..MaxJobs)
  BY <1>1, <1>2 DEF UpkeepTypeOK
<1>4. UpkeepTypeOK'
  BY <1>1, <1>2, <1>3 DEF UpkeepTypeOK
<1>5. \A j \in DOMAIN jobs : Kept(j) => Kept(j)'
  <2>1. \A j \in DOMAIN jobs : jobs[j].target \in Targets
    BY <1>2, JobsAre
  <2>2. QED
    BY <1>1, <1>2, <2>1 DEF Kept, UpkeepTypeOK
<1>6. RunOK'
  BY <1>1 DEF UpkeepInv, RunOK
<1>7. ASSUME ~spoilt' PROVE OrderOK'
  <2>1. OrderOK
    BY <1>1, <1>7 DEF UpkeepInv
  <2>2. Ended("success")' = Ended("success") /\ Ended("success") \subseteq DOMAIN jobs
    BY <1>1 DEF Ended
  <2>3. \A k : Rotating(k)' <=> Rotating(k)
    BY <1>1 DEF Rotating
  <2>4. \A p \in Runners : run[p].step # "idle" => run[p].job \in DOMAIN jobs
    BY <1>2 DEF UpkeepTypeOK
  <2>5. QED
    BY <1>1, <1>5, <2>1, <2>2, <2>3, <2>4 DEF OrderOK
<1>8. SettingsKept' /\ CleanupOK' /\ (\A w \in Users : EditOK(w)') /\ RetryOK' /\ RoundOK'
  BY <1>1, NowIs, SettingsFrame, CleanupFrame, EditFrame, RetryFrame, RoundFrame
<1>9. QED
  BY <1>4, <1>6, <1>7, <1>8 DEF UpkeepInv

-----------------------------------------------------------------------------
(* The steps of a round, but for the backups.                              *)

LEMMA LoopIs ==
  ASSUME UpkeepTypeOK
  PROVE  /\ loop \in LoopType /\ loop.current \in 0..MaxTime /\ loop.current \in Int
         /\ loop.copy \in Configs /\ loop.base \in Configs
         /\ Resting \in LoopType /\ Resting.step = "idle" /\ Resting.current = 0
         /\ FromDict(config) \in Configs /\ FromDict(config).last = config.last
<1>1. loop \in LoopType /\ config \in Configs
  BY DEF UpkeepTypeOK
<1>2. Resting \in LoopType /\ Resting.step = "idle" /\ Resting.current = 0
  BY UpkeepAssumption DEF Resting, LoopType
<1>3. QED
  BY <1>1, <1>2, FromDictIs DEF LoopType

\* A step of a round while no backup of the daemon is under way.
LEMMA RoundKeeps ==
  ASSUME UpkeepInv, loop.step # "running", loop' \in LoopType,
         UNCHANGED <<now, roots, backupVars, user, alive, chosen, calls>>,
         config' \in Configs, torn' \in BOOLEAN, cleaned' \in (0..MaxTime) \cup {Never},
         RoundOK', CleanupOK', RetryOK', SettingsKept'
  PROVE  UpkeepInv'
<1>1. run[Daemon].step = "idle" /\ run' = run
  BY DEF UpkeepInv, UpkeepTypeOK, backupVars
<1>2. UpkeepTypeOK'
  BY <1>1 DEF UpkeepInv, UpkeepTypeOK, backupVars
<1>3. RunOK' /\ (~spoilt' => OrderOK') /\ \A u \in Users : EditOK(u)'
  BY NowIs, RunFrame, EditFrame
<1>4. QED
  BY <1>2, <1>3 DEF UpkeepInv

LEMMA DaemonStartKeeps ==
  ASSUME UpkeepInv, DaemonStart
  PROVE  UpkeepInv'
<1>1. /\ alive' = TRUE /\ calls' \in 0..MaxCalls
      /\ UNCHANGED <<now, config, roots, backupVars, user, loop, chosen, torn, cleaned>>
  BY CallIs DEF DaemonStart
<1>2. UpkeepTypeOK'
  BY <1>1 DEF UpkeepInv, UpkeepTypeOK, backupVars
<1>3. RunOK' /\ (~spoilt' => OrderOK') /\ RetryOK' /\ RoundOK'
  BY <1>1, NowIs, RunFrame, RetryFrame, RoundFrame DEF backupVars
<1>4. SettingsKept' /\ CleanupOK' /\ \A u \in Users : EditOK(u)'
  BY <1>1, SettingsFrame, CleanupFrame, EditFrame
<1>5. QED
  BY <1>2, <1>3, <1>4 DEF UpkeepInv

LEMMA BeginRoundKeeps ==
  ASSUME UpkeepInv, Round
  PROVE  UpkeepInv'
<1>1. /\ alive /\ loop.step = "idle"
      /\ loop' = [loop EXCEPT !.step = "backup", !.current = now]
      /\ UNCHANGED <<now, config, roots, backupVars, user, alive, chosen, torn, cleaned, calls>>
  BY DEF Round
<1>2. UpkeepTypeOK /\ now \in 0..MaxTime
  BY DEF UpkeepInv, UpkeepTypeOK
<1>3. loop' \in LoopType /\ loop'.step = "backup" /\ loop'.current = now
  BY <1>1, <1>2, LoopIs DEF LoopType
<1>4. RoundOK' /\ CleanupOK' /\ RetryOK'
  BY <1>1, <1>2, <1>3 DEF UpkeepInv, RoundOK, CleanupOK, RetryOK
<1>5. SettingsKept'
  BY <1>1, SettingsFrame
<1>6. QED
  BY <1>1, <1>2, <1>3, <1>4, <1>5, RoundKeeps DEF UpkeepTypeOK

\* A backup that is due is not one that is blocked.
LEMMA DueIsOpen ==
  ASSUME UpkeepInv, Due(loop.current), NEW f \in Ended("failed"),
         \A k \in Ended("failed") : jobs[k].at <= jobs[f].at
  PROVE  \/ now - jobs[f].at >= Retry
         \/ \E k \in Ended("success") : jobs[k].at >= jobs[f].at
<1> DEFINE g == Latest("failed")
           s == Latest("success")
<1>0. UpkeepTypeOK /\ now \in Int /\ loop.current \in Int /\ loop.current <= now /\ Retry \in Int
  BY NowIs, LoopIs, UpkeepAssumption DEF UpkeepInv, RoundOK
<1>1. g \in Ended("failed") /\ jobs[f].at <= jobs[g].at /\ jobs[g].at <= jobs[f].at
  <2>1. g \in Ended("failed") /\ (jobs[f].at < jobs[g].at \/ jobs[f].at = jobs[g].at)
    BY <1>0, LatestIs
  <2>2. jobs[f].at \in Int /\ jobs[g].at \in Int
    BY <1>0, <2>1, EndedIs
  <2>3. QED
    BY <2>1, <2>2
<1>2. jobs[f].at \in Int /\ jobs[g].at \in Int
  BY <1>0, <1>1, EndedIs
<1>3. \/ LastSuccess # Never /\ ~(LastSuccess < jobs[g].at)
      \/ ~(loop.current - jobs[g].at < Retry)
  BY <1>1 DEF Due, Blocked
<1>4. CASE LastSuccess # Never /\ ~(LastSuccess < jobs[g].at)
  <2>1. Ended("success") # {} /\ LastSuccess = jobs[s].at
    BY <1>4 DEF LastSuccess
  <2>2. s \in Ended("success") /\ jobs[s].at \in Int
    <3>1. s \in Ended("success")
      BY <1>0, <2>1, LatestIs
    <3>2. QED
      BY <1>0, <3>1, EndedIs
  <2> HIDE DEF g, s
  <2>3. jobs[s].at >= jobs[f].at
    BY <1>1, <1>2, <1>4, <2>1, <2>2
  <2>4. QED
    BY <2>2, <2>3
<1>5. CASE ~(loop.current - jobs[g].at < Retry)
  <2> HIDE DEF g
  <2>1. QED
    BY <1>0, <1>1, <1>2, <1>5
<1>6. QED
  BY <1>3, <1>4, <1>5

LEMMA DueBackupKeeps ==
  ASSUME UpkeepInv, DueBackup
  PROVE  UpkeepInv'
<1> DEFINE next == IF Due(loop.current) THEN "start" ELSE "clean"
<1>1. /\ loop.step = "backup" /\ loop' = [loop EXCEPT !.step = next]
      /\ UNCHANGED <<now, config, roots, backupVars, user, alive, chosen, torn, cleaned, calls>>
  BY DEF DueBackup
<1>2. UpkeepTypeOK
  BY DEF UpkeepInv
<1>3. next \in {"start", "clean"} /\ (next = "start" => Due(loop.current))
  OBVIOUS
<1> HIDE DEF next
<1>4. loop' \in LoopType /\ loop'.step = next /\ loop'.current = loop.current
  BY <1>1, <1>2, <1>3, LoopIs DEF LoopType
<1>5. RoundOK' /\ CleanupOK'
  BY <1>1, <1>3, <1>4 DEF UpkeepInv, RoundOK, CleanupOK
<1>6. RetryOK'
  <2> SUFFICES ASSUME Due(loop.current)
               PROVE  RetryOK'
    BY <1>3, <1>4 DEF RetryOK
  <2>1. Ended("failed")' = Ended("failed") /\ Ended("success")' = Ended("success")
        /\ jobs' = jobs
    BY <1>1 DEF Ended, backupVars
  <2>2. QED
    BY <1>1, <2>1, DueIsOpen DEF RetryOK
<1>7. SettingsKept'
  BY <1>1, SettingsFrame
<1>8. QED
  BY <1>1, <1>2, <1>4, <1>5, <1>6, <1>7, RoundKeeps DEF UpkeepTypeOK

\* A cleanup that is due comes a day after the one the file names.
LEMMA DueCleanupKeeps ==
  ASSUME UpkeepInv, DueCleanup
  PROVE  UpkeepInv'
<1> DEFINE last == FromDict(config).last
<1>1. /\ loop.step = "clean"
      /\ UNCHANGED <<now, config, roots, backupVars, user, alive, chosen, torn, cleaned, calls>>
      /\ \/ loop' = [loop EXCEPT !.step = "delete", !.copy = FromDict(config)]
            /\ (last # Never => loop.current - last >= Day)
         \/ loop' = Resting
  BY DEF DueCleanup, load
<1>2. UpkeepTypeOK /\ last = config.last
  BY LoopIs DEF UpkeepInv
<1>3. /\ loop' \in LoopType
      /\ \/ loop'.step = "delete" /\ loop'.current = loop.current
            /\ (last # Never => loop.current - last >= Day)
         \/ loop'.step = "idle" /\ loop'.current = 0
  BY <1>1, <1>2, LoopIs DEF LoopType
<1>4. RoundOK'
  BY <1>1, <1>3, NowIs DEF UpkeepInv, RoundOK
<1>5. CleanupOK'
  <2>1. ~torn => cleaned = Never \/ cleaned = config.last
    BY <1>1 DEF UpkeepInv, CleanupOK
  <2>2. QED
    BY <1>1, <1>2, <1>3, <2>1 DEF CleanupOK
<1>6. RetryOK' /\ SettingsKept'
  BY <1>1, <1>3, SettingsFrame DEF RetryOK
<1>7. QED
  BY <1>1, <1>2, <1>3, <1>4, <1>5, <1>6, RoundKeeps DEF UpkeepTypeOK

LEMMA DeleteKeeps ==
  ASSUME UpkeepInv, Delete
  PROVE  UpkeepInv'
<1>1. /\ loop.step = "delete" /\ loop' = [loop EXCEPT !.step = "record"]
      /\ cleaned' = loop.current
      /\ UNCHANGED <<now, config, roots, backupVars, user, alive, chosen, torn, calls>>
  BY DEF Delete
<1>2. UpkeepTypeOK
  BY DEF UpkeepInv
<1>3. /\ loop' \in LoopType /\ loop'.step = "record" /\ loop'.current = loop.current
      /\ cleaned' \in 0..MaxTime
  BY <1>1, <1>2, LoopIs DEF LoopType
<1>4. RoundOK' /\ CleanupOK' /\ RetryOK'
  BY <1>1, <1>3 DEF UpkeepInv, RoundOK, CleanupOK, RetryOK
<1>5. SettingsKept'
  BY <1>1, SettingsFrame
<1>6. QED
  BY <1>1, <1>2, <1>3, <1>4, <1>5, RoundKeeps DEF UpkeepTypeOK

LEMMA LoadRecordKeeps ==
  ASSUME UpkeepInv, LoadRecord
  PROVE  UpkeepInv'
<1> DEFINE new == [FromDict(config) EXCEPT !.last = loop.current]
<1>1. /\ loop.step = "record"
      /\ loop' = [loop EXCEPT !.step = "save", !.base = config, !.copy = new]
      /\ UNCHANGED <<now, config, roots, backupVars, user, alive, chosen, torn, cleaned, calls>>
  BY DEF LoadRecord, load
<1>2. UpkeepTypeOK /\ config \in Configs
  BY DEF UpkeepInv, UpkeepTypeOK
<1>3. new \in Configs
  BY <1>2, LoopIs, LastSetIs
<1> HIDE DEF new
<1>4. /\ loop' \in LoopType /\ loop'.step = "save" /\ loop'.current = loop.current
      /\ loop'.base = config /\ loop'.copy = new
  BY <1>1, <1>2, <1>3, LoopIs DEF LoopType
<1>5. RoundOK' /\ CleanupOK' /\ RetryOK'
  BY <1>1, <1>4 DEF UpkeepInv, RoundOK, CleanupOK, RetryOK, new
<1>6. SettingsKept'
  BY <1>1, SettingsFrame
<1>7. QED
  BY <1>1, <1>2, <1>4, <1>5, <1>6, RoundKeeps DEF UpkeepTypeOK

LEMMA SaveRecordKeeps ==
  ASSUME UpkeepInv, SaveRecord
  PROVE  UpkeepInv'
<1> DEFINE base == loop.base
           new == [FromDict(base) EXCEPT !.last = loop.current]
<1>1. /\ loop.step = "save" /\ config' = loop.copy /\ torn' = (torn \/ config # base)
      /\ loop' = Resting
      /\ UNCHANGED <<now, roots, backupVars, user, alive, chosen, cleaned, calls>>
  BY DEF SaveRecord, Overwrites
<1>2. UpkeepTypeOK /\ loop.copy = new
  BY <1>1 DEF UpkeepInv, RoundOK
<1>3. base \in Configs /\ loop.current \in 0..MaxTime
  BY <1>2, LoopIs
<1>4. FromDict(base) \in Configs /\ FromDict(base).cleanup \in BOOLEAN
  BY <1>3, FromDictIs
<1>5. /\ new \in Configs /\ new.last = loop.current /\ SameSettings(new, FromDict(base))
      /\ new.cleanup \in BOOLEAN
  BY <1>3, <1>4, LastSetIs DEF SameSettings
<1>6. torn' \in BOOLEAN /\ (~torn' => ~torn /\ config = base)
  BY <1>1, <1>2 DEF UpkeepTypeOK
<1> HIDE DEF base, new
<1>7. RoundOK' /\ CleanupOK' /\ RetryOK'
  BY <1>1, <1>2, <1>5, LoopIs, NowIs DEF UpkeepInv, RoundOK, CleanupOK, RetryOK
<1>8. SettingsKept'
  <2> SUFFICES ASSUME ~torn'
               PROVE  [FromDict(config') EXCEPT !.last = Never] = chosen'
    BY DEF SettingsKept, load
  <2>1. [FromDict(base) EXCEPT !.last = Never] = chosen
    BY <1>6 DEF UpkeepInv, SettingsKept, load
  <2>2. SameSettings(chosen, FromDict(base)) /\ chosen.last = Never /\ chosen \in Configs
    BY <1>4, <2>1, LastSetIs
  <2>3. FromDict(new) \in Configs /\ SameSettings(FromDict(new), new)
    BY <1>5, FromDictIs
  <2>4. SameSettings(FromDict(new), chosen)
    BY <1>5, <2>2, <2>3 DEF SameSettings
  <2>5. [FromDict(new) EXCEPT !.last = Never] = chosen
    BY <2>2, <2>3, <2>4, SettingsAreAll
  <2>6. QED
    BY <1>1, <1>2, <2>5
<1>9. loop' \in LoopType /\ config' \in Configs
  BY <1>1, <1>2, <1>5, LoopIs
<1>10. QED
  BY <1>1, <1>2, <1>6, <1>7, <1>8, <1>9, RoundKeeps DEF UpkeepTypeOK

-----------------------------------------------------------------------------
(* The backups.                                                            *)

LEMMA RunIs ==
  ASSUME UpkeepTypeOK, NEW p \in Runners
  PROVE  /\ run[p] \in RunType
         /\ run[p].step \in {"idle", "export", "exported", "rotate"}
         /\ run[p].job \in 0..MaxJobs /\ run[p].target \in Targets \cup {Never}
         /\ run[p].step # "idle" => run[p].job \in DOMAIN jobs
         /\ Idle \in RunType /\ Idle.step = "idle"
<1>1. run[p] \in RunType /\ (run[p].step # "idle" => run[p].job \in DOMAIN jobs)
  BY DEF UpkeepTypeOK
<1>2. Idle \in RunType /\ Idle.step = "idle"
  BY UpkeepAssumption DEF Idle, RunType
<1>3. QED
  BY <1>1, <1>2 DEF RunType

LEMMA RunnersAre ==
  /\ Daemon \in Runners /\ Users \subseteq Runners /\ Daemon \notin Users
  BY UpkeepAssumption DEF Runners

LEMMA RunStepIs ==
  ASSUME UpkeepTypeOK, NEW p \in Runners, NEW v \in RunType, run' = [run EXCEPT ![p] = v]
  PROVE  /\ run' \in [Runners -> RunType] /\ run'[p] = v
         /\ \A q \in Runners \ {p} : run'[q] = run[q]
  BY DEF UpkeepTypeOK

LEMMA AtStep ==
  ASSUME UpkeepTypeOK, NEW p \in Runners, NEW s \in {"export", "exported", "rotate"}
  PROVE  /\ [run[p] EXCEPT !.step = s] \in RunType
         /\ [run[p] EXCEPT !.step = s].step = s
         /\ [run[p] EXCEPT !.step = s].job = run[p].job
         /\ [run[p] EXCEPT !.step = s].target = run[p].target
<1>1. run[p] \in RunType
  BY RunIs
<1>2. QED
  BY <1>1 DEF RunType

\* The row of a job that ends.
LEMMA FinishIs ==
  ASSUME UpkeepTypeOK, NEW j \in DOMAIN jobs, NEW status \in {"success", "failed"},
         Finish(j, status)
  PROVE  /\ jobs' \in Seq(JobType) /\ Len(jobs') = Len(jobs) /\ DOMAIN jobs' = DOMAIN jobs
         /\ jobs'[j].status = status /\ jobs'[j].at = now /\ jobs'[j].target = jobs[j].target
         /\ \A k \in DOMAIN jobs \ {j} : jobs'[k] = jobs[k]
         /\ \A k \in DOMAIN jobs : jobs'[k].at = Never <=> jobs'[k].status = "running"
<1> DEFINE v == [jobs[j] EXCEPT !.status = status, !.at = now]
<1>1. jobs[j] \in JobType /\ now \in 0..MaxTime /\ jobs \in Seq(JobType) /\ now # Never
  BY JobsAre, UpkeepAssumption DEF UpkeepTypeOK
<1>2. jobs' = [jobs EXCEPT ![j] = v]
  BY DEF Finish
<1>3. v \in JobType /\ v.status = status /\ v.at = now /\ v.target = jobs[j].target
  BY <1>1 DEF JobType
<1> HIDE DEF v
<1>4. /\ jobs' \in Seq(JobType) /\ Len(jobs') = Len(jobs) /\ DOMAIN jobs' = DOMAIN jobs
      /\ jobs'[j] = v /\ \A k \in DOMAIN jobs \ {j} : jobs'[k] = jobs[k]
  BY <1>1, <1>2, <1>3
<1>5. \A k \in DOMAIN jobs : jobs[k].at = Never <=> jobs[k].status = "running"
  BY DEF UpkeepTypeOK
<1>6. QED
  BY <1>1, <1>3, <1>4, <1>5

\* A new row: nothing has ended by it.
LEMMA StartIs ==
  ASSUME UpkeepInv, NEW p \in Runners, run[p].step = "idle", NEW t \in Targets,
         Start(p, t), now' = now
  PROVE  /\ jobs' \in Seq(JobType) /\ Len(jobs') \in 1..MaxJobs
         /\ \A j \in DOMAIN jobs' : jobs'[j].at = Never <=> jobs'[j].status = "running"
         /\ run' \in [Runners -> RunType] /\ run'[p].step = "export"
         /\ \A q \in Runners \ {p} : run'[q] = run[q]
         /\ \A q \in Runners : run'[q].step # "idle" => run'[q].job \in DOMAIN jobs'
         /\ spoilt' \in BOOLEAN /\ UNCHANGED <<archives, deleted, made>>
         /\ Ended("failed")' = Ended("failed") /\ Ended("success")' = Ended("success")
         /\ \A j \in DOMAIN jobs : jobs'[j] = jobs[j]
         /\ RunOK' /\ (~spoilt' => OrderOK')
<1> DEFINE n == Len(jobs)
           row == [status |-> "running", at |-> Never, target |-> t]
           v == [step |-> "export", job |-> n + 1, target |-> t]
<1>0. UpkeepTypeOK /\ jobs \in Seq(JobType) /\ n \in Nat /\ DOMAIN jobs = 1..n
      /\ MaxJobs \in Nat
  BY JobsAre, UpkeepAssumption DEF UpkeepInv, UpkeepTypeOK
<1>1. /\ n < MaxJobs /\ jobs' = Append(jobs, row) /\ run' = [run EXCEPT ![p] = v]
      /\ spoilt' = (spoilt \/ \E q \in Runners \ {p} : run[q].step # "idle")
      /\ UNCHANGED <<archives, deleted, made>>
  BY DEF Start
<1>2. row \in JobType /\ row.status = "running" /\ row.at = Never /\ row.target = t
  BY DEF JobType
<1>3. v \in RunType /\ v.step = "export" /\ v.job = n + 1 /\ v.target = t
  BY <1>0, <1>1 DEF RunType
<1> HIDE DEF row, v
<1>4. /\ jobs' \in Seq(JobType) /\ Len(jobs') = n + 1 /\ DOMAIN jobs' = 1..(n + 1)
      /\ jobs'[n + 1] = row /\ \A j \in 1..n : jobs'[j] = jobs[j]
  BY <1>0, <1>1, <1>2
<1>5. /\ run' \in [Runners -> RunType] /\ run'[p] = v
      /\ \A q \in Runners \ {p} : run'[q] = run[q]
  BY <1>0, <1>1, <1>3, RunStepIs
<1>6. \A j \in 1..n : jobs[j].at = Never <=> jobs[j].status = "running"
  BY <1>0 DEF UpkeepTypeOK
<1>7. \A j \in DOMAIN jobs' : jobs'[j].at = Never <=> jobs'[j].status = "running"
  BY <1>0, <1>2, <1>4, <1>6
<1>8. \A q \in Runners : run'[q].step # "idle" => run'[q].job \in DOMAIN jobs'
  <2>1. \A q \in Runners : run[q].step # "idle" => run[q].job \in 1..n
    BY <1>0 DEF UpkeepTypeOK
  <2>2. QED
    BY <1>0, <1>3, <1>4, <1>5, <2>1
<1>9. Ended("failed")' = Ended("failed") /\ Ended("success")' = Ended("success")
  BY <1>0, <1>2, <1>4 DEF Ended
<1>10. RunOK'
  <2>1. RunOK
    BY DEF UpkeepInv
  <2>2. \A q \in Runners : run[q].step # "idle" => run[q].job \in 1..n
    BY <1>0 DEF UpkeepTypeOK
  <2>3. ASSUME NEW q \in Runners, run'[q].step # "idle"
        PROVE  /\ run'[q].target = jobs'[run'[q].job].target
               /\ jobs'[run'[q].job].status =
                    IF run'[q].step = "rotate" THEN "success" ELSE "running"
               /\ \A o \in Runners \ {q} : run'[o].step # "idle" => run'[o].job # run'[q].job
    <3>1. CASE q = p
      <4>1. \A o \in Runners \ {q} : run'[o].step # "idle" => run'[o].job # n + 1
        BY <1>0, <1>5, <2>2, <3>1
      <4>2. QED
        BY <1>2, <1>3, <1>4, <1>5, <3>1, <4>1
    <3>2. CASE q # p
      <4>1. run'[q] = run[q] /\ run[q].job \in 1..n /\ jobs'[run[q].job] = jobs[run[q].job]
        BY <1>4, <1>5, <2>2, <2>3, <3>2
      <4>2. \A o \in Runners \ {q} : run'[o].step # "idle" => run'[o].job # run[q].job
        BY <1>0, <1>3, <1>5, <2>1, <2>3, <4>1 DEF RunOK
      <4>3. QED
        BY <2>1, <2>3, <4>1, <4>2 DEF RunOK
    <3>3. QED
      BY <3>1, <3>2
  <2>4. \A j \in DOMAIN jobs' : jobs'[j].at # Never => jobs'[j].at <= now'
    BY <1>0, <1>2, <1>4, <2>1 DEF RunOK
  <2>5. \A i \in DOMAIN made' : made'[i] <= Len(jobs')
    <3>1. \A i \in DOMAIN made : made[i] \in Int /\ made[i] <= n
      BY <1>0, <2>1 DEF RunOK, UpkeepTypeOK
    <3>2. QED
      BY <1>0, <1>1, <1>4, <3>1
  <2>6. QED
    BY <2>3, <2>4, <2>5 DEF RunOK
<1>11. ASSUME ~spoilt' PROVE OrderOK'
  <2>1. OrderOK /\ \A q \in Runners \ {p} : run[q].step = "idle"
    BY <1>1, <1>11 DEF UpkeepInv
  <2>2. \A q \in Runners : run'[q].step # "idle" => q = p
    BY <1>5, <2>1
  <2>3. \A i \in DOMAIN made' : made'[i] < Len(jobs')
    <3>1. \A i \in DOMAIN made : made[i] \in Int /\ made[i] <= n
      BY <1>0 DEF UpkeepInv, RunOK, UpkeepTypeOK
    <3>2. QED
      BY <1>0, <1>1, <1>4, <3>1
  <2>4. \A j \in 1..n : Kept(j) => Kept(j)'
    BY <1>1, <1>4 DEF Kept
  <2>5. \A j \in Ended("success") : (\A k \in Ended("success") : k <= j) => Kept(j)'
    BY <1>0, <2>1, <2>4 DEF OrderOK, Ended
  <2>6. \A k : ~Rotating(k)'
    BY <1>3, <1>5, <2>2 DEF Rotating
  <2>7. \A j, k \in DOMAIN jobs' :
          j < k /\ jobs'[j].at # Never /\ jobs'[k].at # Never => jobs'[j].at <= jobs'[k].at
    BY <1>0, <1>2, <1>4, <2>1 DEF OrderOK
  <2>8. \A q \in Runners : run'[q].step # "idle" =>
          /\ run'[q].job = Len(jobs')
          /\ \A o \in Runners \ {q} : run'[o].step = "idle"
          /\ run'[q].step = "export" => \A i \in DOMAIN made' : made'[i] < Len(jobs')
          /\ run'[q].step \in {"exported", "rotate"} => Kept(run[q].job)'
    BY <1>3, <1>4, <1>5, <2>2, <2>3
  <2>9. QED
    BY <1>1, <1>3, <1>5, <1>9, <2>1, <2>2, <2>5, <2>6, <2>7, <2>8 DEF OrderOK
<1>12. spoilt' \in BOOLEAN
  BY <1>0, <1>1 DEF UpkeepTypeOK
<1>13. QED
  BY <1>0, <1>1, <1>3, <1>4, <1>5, <1>7, <1>8, <1>9, <1>10, <1>11, <1>12

LEMMA RunBackupKeeps ==
  ASSUME UpkeepInv, NEW u \in Users, RunBackup(u)
  PROVE  UpkeepInv'
<1>0. u \in Runners /\ u # Daemon /\ Daemon \in Runners /\ UpkeepTypeOK
  BY RunnersAre DEF UpkeepInv
<1>1. /\ run[u].step = "idle" /\ calls' \in 0..MaxCalls
      /\ UNCHANGED <<now, config, roots, user, alive, loop, chosen, torn, cleaned>>
  BY CallIs DEF RunBackup
<1>2. PICK t \in Targets : Start(u, t)
  BY DEF RunBackup
<1>3. /\ jobs' \in Seq(JobType) /\ Len(jobs') \in 1..MaxJobs
      /\ \A j \in DOMAIN jobs' : jobs'[j].at = Never <=> jobs'[j].status = "running"
      /\ run' \in [Runners -> RunType]
      /\ \A q \in Runners \ {u} : run'[q] = run[q]
      /\ \A q \in Runners : run'[q].step # "idle" => run'[q].job \in DOMAIN jobs'
      /\ spoilt' \in BOOLEAN /\ UNCHANGED <<archives, deleted, made>>
      /\ Ended("failed")' = Ended("failed") /\ Ended("success")' = Ended("success")
      /\ \A j \in DOMAIN jobs : jobs'[j] = jobs[j]
      /\ RunOK' /\ (~spoilt' => OrderOK')
  BY <1>0, <1>1, <1>2, StartIs
<1>4. UpkeepTypeOK'
  BY <1>0, <1>1, <1>3 DEF UpkeepTypeOK
<1>5. RetryOK'
  <2>1. Ended("failed") \subseteq DOMAIN jobs /\ Ended("success") \subseteq DOMAIN jobs
    BY DEF Ended
  <2>2. QED
    BY <1>1, <1>3, <2>1 DEF UpkeepInv, RetryOK
<1>6. SettingsKept' /\ CleanupOK' /\ RoundOK' /\ \A w \in Users : EditOK(w)'
  BY <1>1, NowIs, SettingsFrame, CleanupFrame, RoundFrame, EditFrame
<1>7. QED
  BY <1>3, <1>4, <1>5, <1>6 DEF UpkeepInv

\* The daemon comes to rest, alive or not, with no backup under way.
LEMMA RestIs ==
  ASSUME UpkeepInv, loop' = Resting, now' = now, UNCHANGED <<config, torn>>,
         (loop.step \notin {"record", "save"} /\ cleaned' = cleaned) \/ cleaned' = Never
  PROVE  loop' \in LoopType /\ RoundOK' /\ CleanupOK' /\ RetryOK'
<1>1. UpkeepTypeOK /\ now \in Nat
  BY NowIs
<1>2. loop' \in LoopType /\ loop'.step = "idle" /\ loop'.current = 0
  BY <1>1, LoopIs
<1>3. QED
  BY <1>1, <1>2 DEF UpkeepInv, RoundOK, CleanupOK, RetryOK

LEMMA StartDueKeeps ==
  ASSUME UpkeepInv, StartDue
  PROVE  UpkeepInv'
<1>0. Daemon \in Runners /\ UpkeepTypeOK /\ loop.step = "start"
  BY RunnersAre DEF UpkeepInv, StartDue
<1>1. /\ run[Daemon].step = "idle" /\ alive
      /\ UNCHANGED <<now, config, roots, user, chosen, torn, cleaned, calls>>
  BY <1>0 DEF StartDue, UpkeepInv, UpkeepTypeOK, RoundOK
<1>2. SettingsKept' /\ \A w \in Users : EditOK(w)'
  BY <1>1, SettingsFrame, EditFrame
<1>3. CASE /\ load.target \in Targets /\ Start(Daemon, load.target)
           /\ loop' = [loop EXCEPT !.step = "running"] /\ UNCHANGED alive
  <2> DEFINE t == load.target
  <2>1. t \in Targets /\ Start(Daemon, t)
    BY <1>3
  <2> HIDE DEF t
  <2>2. /\ jobs' \in Seq(JobType) /\ Len(jobs') \in 1..MaxJobs
        /\ \A j \in DOMAIN jobs' : jobs'[j].at = Never <=> jobs'[j].status = "running"
        /\ run' \in [Runners -> RunType]
        /\ \A q \in Runners : run'[q].step # "idle" => run'[q].job \in DOMAIN jobs'
        /\ spoilt' \in BOOLEAN /\ UNCHANGED <<archives, deleted, made>>
        /\ RunOK' /\ (~spoilt' => OrderOK')
    BY <1>0, <1>1, <2>1, StartIs
  <2>3. loop' \in LoopType /\ loop'.step = "running" /\ loop'.current = loop.current
    BY <1>0, <1>3, LoopIs DEF LoopType
  <2>4. UpkeepTypeOK'
    BY <1>0, <1>1, <1>3, <2>2, <2>3 DEF UpkeepTypeOK
  <2>5. RoundOK' /\ CleanupOK' /\ RetryOK'
    BY <1>0, <1>1, <1>3, <2>3 DEF UpkeepInv, RoundOK, CleanupOK, RetryOK
  <2>6. QED
    BY <1>2, <2>2, <2>4, <2>5 DEF UpkeepInv
<1>4. CASE alive' = FALSE /\ loop' = Resting /\ UNCHANGED backupVars
  <2>1. loop' \in LoopType /\ RoundOK' /\ CleanupOK' /\ RetryOK'
    BY <1>0, <1>1, <1>4, RestIs
  <2>2. UpkeepTypeOK'
    BY <1>0, <1>1, <1>4, <2>1 DEF UpkeepTypeOK, backupVars
  <2>3. RunOK' /\ (~spoilt' => OrderOK')
    BY <1>1, <1>4, NowIs, RunFrame
  <2>4. QED
    BY <1>2, <2>1, <2>2, <2>3 DEF UpkeepInv
<1>5. QED
  BY <1>3, <1>4 DEF StartDue

LEMMA ExportKeeps ==
  ASSUME UpkeepInv, NEW p \in Runners, Export(p)
  PROVE  UpkeepInv'
<1> DEFINE n == run[p].job
           t == run[p].target
           v == [run[p] EXCEPT !.step = "exported"]
<1>0. UpkeepTypeOK /\ RunOK /\ run[p].step = "export" /\ Daemon \in Runners
  BY RunnersAre DEF UpkeepInv, Export
<1>1. /\ archives' = [archives EXCEPT ![t] = @ \cup {n}] /\ made' = Append(made, n)
      /\ run' = [run EXCEPT ![p] = v]
      /\ UNCHANGED <<now, config, roots, jobs, deleted, spoilt, user, alive, loop, chosen,
                     torn, cleaned, calls>>
  BY DEF Export
<1>2. /\ n \in DOMAIN jobs /\ n \in 1..MaxJobs /\ n <= Len(jobs) /\ t = jobs[n].target
      /\ t \in Targets /\ made \in Seq(1..MaxJobs) /\ Len(made) \in Nat
      /\ archives \in [Targets -> SUBSET (1..MaxJobs)] /\ n \in Int /\ Len(jobs) \in Int
  BY <1>0, RunIs, JobsAre DEF RunOK, UpkeepTypeOK
<1>3. v \in RunType /\ v.step = "exported" /\ v.job = n /\ v.target = t
  BY <1>0, AtStep
<1> HIDE DEF v
<1>4. /\ run' \in [Runners -> RunType] /\ run'[p] = v
      /\ \A q \in Runners \ {p} : run'[q] = run[q]
  BY <1>0, <1>1, <1>3, RunStepIs
<1>5. /\ archives' \in [Targets -> SUBSET (1..MaxJobs)]
      /\ \A s \in Targets : archives[s] \subseteq archives'[s]
      /\ n \in archives'[t]
  BY <1>1, <1>2
<1>6. /\ made' \in Seq(1..MaxJobs) /\ DOMAIN made' = 1..(Len(made) + 1)
      /\ made'[Len(made) + 1] = n /\ DOMAIN made = 1..Len(made)
      /\ \A i \in 1..Len(made) : made'[i] = made[i]
  BY <1>1, <1>2
<1> HIDE DEF n, t
<1>7. UpkeepTypeOK'
  BY <1>0, <1>1, <1>2, <1>3, <1>4, <1>5, <1>6 DEF UpkeepTypeOK, n
<1>8. RunOK'
  BY <1>0, <1>1, <1>2, <1>3, <1>4, <1>6 DEF RunOK, n, t
<1>9. ASSUME ~spoilt' PROVE OrderOK'
  <2>1. OrderOK
    BY <1>1, <1>9 DEF UpkeepInv
  <2>2. /\ n = Len(jobs) /\ \A q \in Runners \ {p} : run[q].step = "idle"
        /\ \A i \in DOMAIN made : made[i] < n
    BY <1>0, <2>1 DEF OrderOK, n
  <2>3. \A j \in DOMAIN jobs : (Kept(j) => Kept(j)') /\ jobs[j].target \in Targets
    BY <1>0, <1>1, <1>5, JobsAre DEF Kept
  <2>4. Kept(n)'
    <3>1. n' = n
      BY <1>3, <1>4 DEF n
    <3>2. n \in archives'[jobs'[n].target]
      BY <1>1, <1>2, <1>5
    <3>3. QED
      BY <3>1, <3>2 DEF Kept
  <2>5. \A k : Rotating(k)' => Rotating(k)
    BY <1>3, <1>4 DEF Rotating
  <2>6. Ended("success")' = Ended("success") /\ Ended("success") \subseteq DOMAIN jobs
    BY <1>1 DEF Ended
  <2>7. \A j \in Ended("success")' :
          (\A k \in Ended("success")' : k <= j \/ Rotating(k)') => Kept(j)'
    BY <2>1, <2>3, <2>5, <2>6 DEF OrderOK
  <2>8. \A i, k \in DOMAIN made' : i < k => made'[i] < made'[k]
    BY <1>2, <1>6, <2>1, <2>2 DEF OrderOK
  <2>9. \A q \in Runners : run'[q].step # "idle" => q = p
    BY <1>4, <2>2
  <2>10. \A j, k \in DOMAIN jobs' :
           j < k /\ jobs'[j].at # Never /\ jobs'[k].at # Never => jobs'[j].at <= jobs'[k].at
    BY <1>1, <2>1 DEF OrderOK
  <2>11. \A q \in Runners : run'[q].step # "idle" =>
           /\ run'[q].job = Len(jobs')
           /\ \A o \in Runners \ {q} : run'[o].step = "idle"
           /\ run'[q].step # "export" /\ Kept(run[q].job)'
    BY <1>1, <1>3, <1>4, <2>2, <2>4, <2>9 DEF n
  <2>12. \A q \in Runners : run'[q].step # "idle" => run'[q].job = run[q].job
    BY <1>3, <1>4 DEF n
  <2>13. QED
    BY <2>7, <2>8, <2>10, <2>11, <2>12 DEF OrderOK, Kept
<1>10. SettingsKept' /\ CleanupOK' /\ (\A w \in Users : EditOK(w)') /\ RetryOK' /\ RoundOK'
  BY <1>1, NowIs, SettingsFrame, CleanupFrame, EditFrame, RetryFrame, RoundFrame
<1>11. QED
  BY <1>7, <1>8, <1>9, <1>10 DEF UpkeepInv

\* A job that ends: its backup rotates or is over, the others go on.
LEMMA EndIs ==
  ASSUME UpkeepInv, NEW p \in Runners, run[p].step # "idle",
         NEW status \in {"success", "failed"}, Finish(run[p].job, status),
         NEW v \in RunType, run' = [run EXCEPT ![p] = v],
         v.step # "idle" => /\ v.step = "rotate" /\ status = "success"
                            /\ v.job = run[p].job /\ v.target = run[p].target,
         UNCHANGED <<now, made>>
  PROVE  /\ \A q \in Runners : run'[q].step # "idle" => run'[q].job \in DOMAIN jobs'
         /\ RunOK'
         /\ OrderOK =>
              \A j, k \in DOMAIN jobs' :
                j < k /\ jobs'[j].at # Never /\ jobs'[k].at # Never =>
                  jobs'[j].at <= jobs'[k].at
<1> DEFINE n == run[p].job
<1>0. UpkeepTypeOK /\ RunOK /\ n \in DOMAIN jobs /\ now \in Int /\ Len(jobs) \in Nat
      /\ DOMAIN jobs = 1..Len(jobs)
  BY NowIs, RunIs, JobsAre DEF UpkeepInv
<1>1. /\ Len(jobs') = Len(jobs) /\ DOMAIN jobs' = DOMAIN jobs
      /\ jobs'[n].status = status /\ jobs'[n].at = now /\ jobs'[n].target = jobs[n].target
      /\ \A k \in DOMAIN jobs \ {n} : jobs'[k] = jobs[k]
  BY <1>0, FinishIs
<1>2. run'[p] = v /\ \A q \in Runners \ {p} : run'[q] = run[q]
  BY <1>0, RunStepIs
<1>3. \A q \in Runners : run[q].step # "idle" => run[q].job \in DOMAIN jobs
  BY <1>0 DEF UpkeepTypeOK
<1>4. \A q \in Runners \ {p} : run[q].step # "idle" => run[q].job # n
  BY <1>0 DEF RunOK
<1>5. \A k \in DOMAIN jobs : jobs[k].at # Never => jobs[k].at <= now
  BY <1>0 DEF RunOK
<1>6. run[p].target = jobs[n].target
  BY <1>0 DEF RunOK
<1>7. \A q \in Runners : run'[q].step # "idle" => run'[q].job \in DOMAIN jobs'
  BY <1>0, <1>1, <1>2, <1>3
<1>8. ASSUME NEW q \in Runners, run'[q].step # "idle"
      PROVE  /\ run'[q].target = jobs'[run'[q].job].target
             /\ jobs'[run'[q].job].status =
                  IF run'[q].step = "rotate" THEN "success" ELSE "running"
             /\ \A o \in Runners \ {q} : run'[o].step # "idle" => run'[o].job # run'[q].job
  <2>1. CASE q = p
    <3>1. v.step = "rotate" /\ status = "success" /\ v.job = n /\ v.target = run[p].target
      BY <1>2, <1>8, <2>1
    <3>2. \A o \in Runners \ {p} : run'[o].step # "idle" => run'[o].job # n
      BY <1>2, <1>4
    <3>3. QED
      BY <1>1, <1>2, <1>6, <2>1, <3>1, <3>2
  <2>2. CASE q # p
    <3>1. run'[q] = run[q] /\ run[q].job \in DOMAIN jobs \ {n}
          /\ jobs'[run[q].job] = jobs[run[q].job]
      BY <1>1, <1>2, <1>3, <1>4, <1>8, <2>2
    <3>2. \A o \in Runners \ {q} : run'[o].step # "idle" => run'[o].job # run[q].job
      <4>1. \A o \in Runners \ {q} : run[o].step # "idle" => run[o].job # run[q].job
        BY <1>0, <1>8, <2>2, <3>1 DEF RunOK
      <4>2. v.step # "idle" => v.job # run[q].job
        BY <3>1
      <4>3. QED
        BY <1>2, <4>1, <4>2
    <3>3. QED
      BY <1>0, <1>8, <2>2, <3>1, <3>2 DEF RunOK
  <2>3. QED
    BY <2>1, <2>2
<1>9. \A k \in DOMAIN jobs' : jobs'[k].at # Never => jobs'[k].at <= now'
  BY <1>0, <1>1, <1>5
<1>10. \A i \in DOMAIN made' : made'[i] <= Len(jobs')
  BY <1>0, <1>1 DEF RunOK
<1>11. RunOK'
  BY <1>8, <1>9, <1>10 DEF RunOK
<1>12. ASSUME OrderOK, NEW j \in DOMAIN jobs', NEW k \in DOMAIN jobs', j < k,
              jobs'[j].at # Never, jobs'[k].at # Never
       PROVE  jobs'[j].at <= jobs'[k].at
  <2>1. n = Len(jobs)
    BY <1>12 DEF OrderOK
  <2>2. j # n /\ j \in DOMAIN jobs /\ k \in DOMAIN jobs /\ jobs'[j] = jobs[j]
    BY <1>0, <1>1, <1>12, <2>1
  <2>3. CASE k = n
    BY <1>1, <1>5, <1>12, <2>2, <2>3
  <2>4. CASE k # n
    BY <1>1, <1>12, <2>2, <2>4 DEF OrderOK
  <2>5. QED
    BY <2>3, <2>4
<1>13. QED
  BY <1>7, <1>11, <1>12

\* The job is a success while its archive and the ones before are there.
LEMMA SucceedKeeps ==
  ASSUME UpkeepInv, NEW p \in Runners, Succeed(p)
  PROVE  UpkeepInv'
<1> DEFINE n == run[p].job
           v == [run[p] EXCEPT !.step = "rotate"]
<1>0. UpkeepTypeOK /\ RunOK /\ run[p].step = "exported" /\ Daemon \in Runners
  BY RunnersAre DEF UpkeepInv, Succeed
<1>1. /\ Finish(n, "success") /\ run' = [run EXCEPT ![p] = v]
      /\ UNCHANGED <<now, config, roots, archives, deleted, made, spoilt, user, alive,
                     loop, chosen, torn, cleaned, calls>>
  BY DEF Succeed
<1>2. n \in DOMAIN jobs /\ jobs[n].status = "running" /\ n \in Int
  BY <1>0, RunIs, JobsAre DEF RunOK
<1>3. v \in RunType /\ v.step = "rotate" /\ v.job = n /\ v.target = run[p].target
  BY <1>0, AtStep
<1> HIDE DEF v
<1>4. /\ run' \in [Runners -> RunType] /\ run'[p] = v
      /\ \A q \in Runners \ {p} : run'[q] = run[q]
  BY <1>0, <1>1, <1>3, RunStepIs
<1>5. /\ jobs' \in Seq(JobType) /\ Len(jobs') = Len(jobs) /\ DOMAIN jobs' = DOMAIN jobs
      /\ jobs'[n].status = "success" /\ jobs'[n].at = now
      /\ jobs'[n].target = jobs[n].target
      /\ \A k \in DOMAIN jobs \ {n} : jobs'[k] = jobs[k]
      /\ \A k \in DOMAIN jobs : jobs'[k].at = Never <=> jobs'[k].status = "running"
  BY <1>0, <1>1, <1>2, FinishIs
<1>6. /\ \A q \in Runners : run'[q].step # "idle" => run'[q].job \in DOMAIN jobs'
      /\ RunOK'
      /\ OrderOK =>
           \A j, k \in DOMAIN jobs' :
             j < k /\ jobs'[j].at # Never /\ jobs'[k].at # Never =>
               jobs'[j].at <= jobs'[k].at
  <2>1. run[p].step # "idle" /\ UNCHANGED <<now, made>>
    BY <1>0, <1>1
  <2>2. QED
    BY <1>1, <1>3, <2>1, EndIs
<1> HIDE DEF n
<1>7. UpkeepTypeOK'
  <2>1. run'[Daemon].step # "idle" => run[Daemon].step # "idle"
    BY <1>0, <1>4
  <2>2. QED
    BY <1>0, <1>1, <1>4, <1>5, <1>6, <2>1 DEF UpkeepTypeOK
<1>8. /\ Ended("failed")' = Ended("failed") /\ n \notin Ended("failed")
      /\ Ended("success")' = Ended("success") \cup {n} /\ n \notin Ended("success")
      /\ Ended("failed") \subseteq DOMAIN jobs /\ Ended("success") \subseteq DOMAIN jobs
  BY <1>2, <1>5 DEF Ended
<1>9. RetryOK'
  <2>1. /\ \A k \in Ended("failed") : jobs'[k] = jobs[k]
        /\ \A k \in Ended("success") : jobs'[k] = jobs[k]
    BY <1>5, <1>8
  <2>2. QED
    BY <1>1, <1>8, <2>1 DEF UpkeepInv, RetryOK
<1>10. ASSUME ~spoilt' PROVE OrderOK'
  <2>1. OrderOK
    BY <1>1, <1>10 DEF UpkeepInv
  <2>2. n = Len(jobs) /\ (\A q \in Runners \ {p} : run[q].step = "idle") /\ Kept(n)
    BY <1>0, <2>1 DEF OrderOK, n
  <2>3. \A j \in DOMAIN jobs : Kept(j) => j \in archives'[jobs'[j].target] \cup deleted'
    BY <1>1, <1>5 DEF Kept
  <2>5. \A k \in Ended("success") : ~Rotating(k)
    BY <1>0, <2>2 DEF Rotating
  <2>6. \A j \in Ended("success")' :
          (\A k \in Ended("success")' : k <= j \/ Rotating(k)') => Kept(j)'
    <3> SUFFICES ASSUME NEW j \in Ended("success")',
                        \A k \in Ended("success")' : k <= j \/ Rotating(k)'
                 PROVE  j \in archives'[jobs'[j].target] \cup deleted'
      BY DEF Kept
    <3>1. CASE j = n
      BY <1>2, <2>2, <2>3, <3>1
    <3>2. CASE j # n
      <4>1. \A k : Rotating(k)' => k = n
        BY <1>3, <1>4, <2>2 DEF Rotating
      <4>2. j \in Ended("success") /\ \A k \in Ended("success") : k <= j
        BY <1>8, <3>2, <4>1
      <4>3. QED
        BY <1>8, <2>1, <2>3, <4>2 DEF OrderOK
    <3>3. QED
      BY <3>1, <3>2
  <2>7. \A q \in Runners : run'[q].step # "idle" => q = p
    BY <1>4, <2>2
  <2>8. \A q \in Runners : run'[q].step # "idle" =>
          /\ run'[q].job = Len(jobs') /\ run'[q].job = n
          /\ \A o \in Runners \ {q} : run'[o].step = "idle"
          /\ run'[q].step # "export"
    BY <1>3, <1>4, <1>5, <2>2, <2>7
  <2>9. \A q \in Runners : run'[q].step \in {"exported", "rotate"} => Kept(run[q].job)'
    BY <1>2, <2>2, <2>3, <2>8 DEF Kept
  <2>10. \A i, k \in DOMAIN made' : i < k => made'[i] < made'[k]
    BY <1>1, <2>1 DEF OrderOK
  <2>11. QED
    BY <1>6, <2>1, <2>6, <2>8, <2>9, <2>10 DEF OrderOK
<1>11. SettingsKept' /\ CleanupOK' /\ (\A w \in Users : EditOK(w)') /\ RoundOK'
  BY <1>1, NowIs, SettingsFrame, CleanupFrame, EditFrame, RoundFrame
<1>12. QED
  BY <1>6, <1>7, <1>9, <1>10, <1>11 DEF UpkeepInv

\* The archive made last is not among those a rotation removes.
LEMMA LastStays ==
  ASSUME UpkeepInv, OrderOK, NEW t \in Targets
  PROVE  Len(jobs) \notin Excess(t)
<1> DEFINE later == {b \in archives[t] : MadeAfter(b, Len(jobs))}
<1>1. \A i \in DOMAIN made : made[i] \in Int /\ made[i] <= Len(jobs)
  <2>1. made \in Seq(1..MaxJobs) /\ MaxJobs \in Nat
    BY UpkeepAssumption DEF UpkeepInv, UpkeepTypeOK
  <2>2. \A i \in DOMAIN made : made[i] \in Int
    BY <2>1
  <2>3. QED
    BY <2>2 DEF UpkeepInv, RunOK
<1>2. \A i, k \in DOMAIN made : i < k => made[i] < made[k]
  BY DEF OrderOK
<1>3. later = {}
  <2> SUFFICES ASSUME NEW b \in archives[t], MadeAfter(b, Len(jobs))
               PROVE  FALSE
    OBVIOUS
  <2>1. PICK i \in DOMAIN made, k \in DOMAIN made : i < k /\ made[i] = Len(jobs) /\ made[k] = b
    BY DEF MadeAfter
  <2>2. made[i] < made[k] /\ made[k] <= Len(jobs) /\ made[i] \in Int /\ made[k] \in Int
    BY <1>1, <1>2, <2>1
  <2>3. QED
    BY <2>1, <2>2
<1>4. Cardinality(later) = 0
  BY <1>3, FS_EmptySet
<1>5. KeepLast \in Nat \ {0}
  BY UpkeepAssumption
<1>6. QED
  BY <1>4, <1>5 DEF Excess

LEMMA RotateKeeps ==
  ASSUME UpkeepInv, NEW p \in Runners, Rotate(p)
  PROVE  UpkeepInv'
<1> DEFINE n == run[p].job
           t == run[p].target
<1>0. UpkeepTypeOK /\ RunOK /\ run[p].step = "rotate" /\ Daemon \in Runners
  BY RunnersAre DEF UpkeepInv, Rotate
<1>1. /\ archives' = [archives EXCEPT ![t] = @ \ Excess(t)]
      /\ run' = [run EXCEPT ![p] = Idle]
      /\ loop' = IF p = Daemon THEN [loop EXCEPT !.step = "clean"] ELSE loop
      /\ UNCHANGED <<now, config, roots, jobs, deleted, made, spoilt, user, alive, chosen,
                     torn, cleaned, calls>>
  BY DEF Rotate
<1>2. /\ n \in DOMAIN jobs /\ n \in 1..Len(jobs) /\ t = jobs[n].target /\ t \in Targets
      /\ jobs[n].status = "success" /\ Len(jobs) \in Nat
  BY <1>0, RunIs, JobsAre DEF RunOK
<1>3. Idle \in RunType /\ Idle.step = "idle"
  BY <1>0, RunIs
<1>4. /\ run' \in [Runners -> RunType] /\ run'[p].step = "idle"
      /\ \A q \in Runners \ {p} : run'[q] = run[q]
  BY <1>0, <1>1, <1>3, RunStepIs
<1> HIDE DEF n, t
<1>5. archives' \in [Targets -> SUBSET (1..MaxJobs)]
  BY <1>0, <1>1 DEF UpkeepTypeOK
<1>6. /\ loop' \in LoopType /\ loop'.current = loop.current
      /\ \/ p # Daemon /\ loop' = loop
         \/ p = Daemon /\ loop.step = "running" /\ alive /\ loop'.step = "clean"
  <2>1. CASE p = Daemon
    <3>1. loop.step = "running" /\ alive
      BY <1>0, <2>1 DEF UpkeepTypeOK
    <3>2. QED
      BY <1>0, <1>1, <2>1, <3>1, LoopIs DEF LoopType
  <2>2. CASE p # Daemon
    BY <1>0, <1>1, <2>2, LoopIs
  <2>3. QED
    BY <2>1, <2>2
<1>7. UpkeepTypeOK'
  <2>1. run'[Daemon].step # "idle" => alive' /\ loop'.step = "running"
    BY <1>0, <1>1, <1>4, <1>6 DEF UpkeepTypeOK
  <2>2. \A q \in Runners : run'[q].step # "idle" => run'[q].job \in DOMAIN jobs'
    BY <1>0, <1>1, <1>4 DEF UpkeepTypeOK
  <2>3. QED
    BY <1>0, <1>1, <1>4, <1>5, <1>6, <2>1, <2>2 DEF UpkeepTypeOK
<1>8. RunOK'
  BY <1>0, <1>1, <1>4 DEF RunOK
<1>9. ASSUME ~spoilt' PROVE OrderOK'
  <2>1. OrderOK
    BY <1>1, <1>9 DEF UpkeepInv
  <2>2. n = Len(jobs) /\ (\A q \in Runners \ {p} : run[q].step = "idle") /\ Kept(n)
    BY <1>0, <2>1 DEF OrderOK, n
  <2>3. \A q \in Runners : run'[q].step = "idle"
    BY <1>4, <2>2
  <2>4. n \in archives'[jobs'[n].target] \cup deleted'
    <3>1. n \notin Excess(t)
      BY <1>2, <2>1, <2>2, LastStays
    <3>2. n \in archives[t] \cup deleted
      BY <1>2, <2>2 DEF Kept
    <3>3. archives'[t] = archives[t] \ Excess(t)
      BY <1>0, <1>1, <1>2 DEF UpkeepTypeOK
    <3>4. QED
      BY <1>1, <1>2, <3>1, <3>2, <3>3
  <2>5. \A j \in Ended("success")' :
          (\A k \in Ended("success")' : k <= j \/ Rotating(k)') => Kept(j)'
    <3> SUFFICES ASSUME NEW j \in Ended("success")',
                        \A k \in Ended("success")' : k <= j \/ Rotating(k)'
                 PROVE  j \in archives'[jobs'[j].target] \cup deleted'
      BY DEF Kept
    <3>1. \A k : ~Rotating(k)'
      BY <2>3 DEF Rotating
    <3>2. n \in Ended("success")' /\ j \in 1..Len(jobs)
      BY <1>1, <1>2 DEF Ended
    <3>3. n <= j
      BY <3>1, <3>2
    <3>4. j = n
      BY <1>2, <2>2, <3>2, <3>3
    <3>5. QED
      BY <2>4, <3>4
  <2>6. /\ \A j, k \in DOMAIN jobs' :
             j < k /\ jobs'[j].at # Never /\ jobs'[k].at # Never => jobs'[j].at <= jobs'[k].at
        /\ \A i, k \in DOMAIN made' : i < k => made'[i] < made'[k]
    BY <1>1, <2>1 DEF OrderOK
  <2>7. QED
    BY <2>3, <2>5, <2>6 DEF OrderOK
<1>10. RetryOK'
  <2>1. Ended("failed")' = Ended("failed") /\ Ended("success")' = Ended("success")
    BY <1>1 DEF Ended
  <2>2. QED
    BY <1>1, <1>6, <2>1 DEF UpkeepInv, RetryOK
<1>11. RoundOK' /\ CleanupOK'
  BY <1>1, <1>6 DEF UpkeepInv, RoundOK, CleanupOK
<1>12. SettingsKept' /\ (\A w \in Users : EditOK(w)')
  BY <1>1, SettingsFrame, EditFrame
<1>13. QED
  BY <1>7, <1>8, <1>9, <1>10, <1>11, <1>12 DEF UpkeepInv

\* A backup that fails while it rotates takes its success back; the one before is
\* still there, as nothing has been removed.
LEMMA FailBackupKeeps ==
  ASSUME UpkeepInv, NEW p \in Runners, FailBackup(p)
  PROVE  UpkeepInv'
<1> DEFINE n == run[p].job
           t == run[p].target
<1>0. UpkeepTypeOK /\ RunOK /\ run[p].step # "idle" /\ Daemon \in Runners /\ now \in Int
  BY RunnersAre, NowIs DEF UpkeepInv, FailBackup
<1>1. /\ Finish(n, "failed") /\ run' = [run EXCEPT ![p] = Idle]
      /\ \/ p = Daemon /\ alive' = FALSE /\ loop' = Resting
         \/ p # Daemon /\ UNCHANGED <<alive, loop>>
      /\ UNCHANGED <<now, config, roots, deleted, made, user, chosen, torn, cleaned, calls>>
  BY DEF FailBackup
<1>2. PICK gone : /\ archives' = [archives EXCEPT ![t] = @ \ gone]
                  /\ spoilt' = (spoilt \/ gone # {})
  BY DEF FailBackup
<1>3. /\ n \in DOMAIN jobs /\ n \in Int /\ t \in Targets
      /\ jobs[n].status = "success" => run[p].step = "rotate"
  BY <1>0, RunIs, JobsAre DEF RunOK
<1>4. Idle \in RunType /\ Idle.step = "idle"
  BY <1>0, RunIs
<1>5. /\ run' \in [Runners -> RunType] /\ run'[p].step = "idle"
      /\ \A q \in Runners \ {p} : run'[q] = run[q]
  BY <1>0, <1>1, <1>4, RunStepIs
<1>6. /\ jobs' \in Seq(JobType) /\ Len(jobs') = Len(jobs) /\ DOMAIN jobs' = DOMAIN jobs
      /\ jobs'[n].status = "failed" /\ jobs'[n].at = now
      /\ \A k \in DOMAIN jobs \ {n} : jobs'[k] = jobs[k]
      /\ \A k \in DOMAIN jobs : jobs'[k].at = Never <=> jobs'[k].status = "running"
  BY <1>0, <1>1, <1>3, FinishIs
<1>7. /\ \A q \in Runners : run'[q].step # "idle" => run'[q].job \in DOMAIN jobs'
      /\ RunOK'
      /\ OrderOK =>
           \A j, k \in DOMAIN jobs' :
             j < k /\ jobs'[j].at # Never /\ jobs'[k].at # Never =>
               jobs'[j].at <= jobs'[k].at
  <2>1. UNCHANGED <<now, made>>
    BY <1>1
  <2>2. QED
    BY <1>0, <1>1, <1>4, <2>1, EndIs
<1> HIDE DEF n, t
<1>8. archives' \in [Targets -> SUBSET (1..MaxJobs)] /\ spoilt' \in BOOLEAN
  BY <1>0, <1>2 DEF UpkeepTypeOK
<1>9. loop' \in LoopType /\ RoundOK' /\ CleanupOK' /\ RetryOK'
  <2>1. CASE p = Daemon
    <3>1. loop.step = "running"
      BY <1>0, <2>1 DEF UpkeepTypeOK
    <3>2. QED
      BY <1>1, <2>1, <3>1, RestIs
  <2>2. CASE p # Daemon
    <3>1. loop' \in LoopType /\ RoundOK' /\ CleanupOK'
      BY <1>0, <1>1, <2>2, NowIs, LoopIs, RoundFrame, CleanupFrame
    <3>2. ASSUME NEW f \in Ended("failed")',
                 \A k \in Ended("failed")' : jobs'[k].at <= jobs'[f].at
          PROVE  jobs'[f].at >= loop'.current
      <4>1. n \in Ended("failed")' /\ f \in DOMAIN jobs'
        BY <1>3, <1>6 DEF Ended
      <4>2. now <= jobs'[f].at
        BY <1>6, <3>2, <4>1
      <4>3. jobs'[f].at \in Int
        <5>1. jobs'[f] \in JobType /\ jobs'[f].status = "failed"
          BY <1>6, <3>2, <4>1 DEF Ended
        <5>2. jobs'[f].at \in (0..MaxTime) \cup {Never} /\ jobs'[f].at # Never
          BY <1>6, <4>1, <5>1 DEF JobType
        <5>3. QED
          BY <5>2
      <4>4. loop'.current \in Int /\ loop'.current <= now
        BY <1>0, <1>1, <2>2, LoopIs DEF UpkeepInv, RoundOK
      <4>5. QED
        BY <1>0, <4>2, <4>3, <4>4
    <3>3. QED
      BY <3>1, <3>2 DEF RetryOK
  <2>3. QED
    BY <2>1, <2>2
<1>10. UpkeepTypeOK'
  <2>1. run'[Daemon].step # "idle" => alive' /\ loop'.step = "running"
    BY <1>0, <1>1, <1>5 DEF UpkeepTypeOK
  <2>2. alive' \in BOOLEAN
    BY <1>0, <1>1 DEF UpkeepTypeOK
  <2>3. QED
    BY <1>0, <1>1, <1>5, <1>6, <1>7, <1>8, <1>9, <2>1, <2>2 DEF UpkeepTypeOK
<1>11. ASSUME ~spoilt' PROVE OrderOK'
  <2>1. OrderOK /\ gone = {}
    BY <1>2, <1>11 DEF UpkeepInv
  <2>2. archives' = archives
    BY <1>0, <1>2, <1>3, <2>1 DEF UpkeepTypeOK
  <2>3. \A q \in Runners \ {p} : run[q].step = "idle"
    BY <1>0, <2>1 DEF OrderOK
  <2>4. \A q \in Runners : run'[q].step = "idle"
    BY <1>5, <2>3
  <2>5. \A j \in Ended("success")' :
          (\A k \in Ended("success")' : k <= j \/ Rotating(k)') => Kept(j)'
    <3> SUFFICES ASSUME NEW j \in Ended("success")',
                        \A k \in Ended("success")' : k <= j \/ Rotating(k)'
                 PROVE  j \in archives'[jobs'[j].target] \cup deleted'
      BY DEF Kept
    <3>1. \A k : ~Rotating(k)'
      BY <2>4 DEF Rotating
    <3>2. Ended("success")' = Ended("success") \ {n}
      BY <1>3, <1>6 DEF Ended
    <3>3. n \in Ended("success") => Rotating(n)
      BY <1>3 DEF Ended, Rotating, n
    <3>4. \A k \in Ended("success") : k <= j \/ Rotating(k)
      BY <3>1, <3>2, <3>3
    <3>5. j \in archives[jobs[j].target] \cup deleted
      BY <2>1, <3>2, <3>4 DEF OrderOK, Kept
    <3>6. jobs'[j] = jobs[j]
      BY <1>6, <3>2 DEF Ended
    <3>7. QED
      BY <1>1, <2>2, <3>5, <3>6
  <2>6. \A i, k \in DOMAIN made' : i < k => made'[i] < made'[k]
    BY <1>1, <2>1 DEF OrderOK
  <2>7. QED
    BY <1>7, <2>1, <2>4, <2>5, <2>6 DEF OrderOK
<1>12. SettingsKept' /\ (\A w \in Users : EditOK(w)')
  BY <1>1, SettingsFrame, EditFrame
<1>13. QED
  BY <1>7, <1>9, <1>10, <1>11, <1>12 DEF UpkeepInv

\* The daemon dies: its backup stops where it is, its round is over.
LEMMA DaemonDiesKeeps ==
  ASSUME UpkeepInv, DaemonDies
  PROVE  UpkeepInv'
<1>0. UpkeepTypeOK /\ RunOK /\ Daemon \in Runners
  BY RunnersAre DEF UpkeepInv
<1>1. /\ alive' = FALSE /\ loop' = Resting /\ run' = [run EXCEPT ![Daemon] = Idle]
      /\ calls' \in 0..MaxCalls
      /\ (loop.step \notin {"record", "save"} /\ cleaned' = cleaned) \/ cleaned' = Never
      /\ UNCHANGED <<now, config, roots, jobs, archives, deleted, made, spoilt, user,
                     chosen, torn>>
  BY CallIs DEF DaemonDies
<1>2. Idle \in RunType /\ Idle.step = "idle"
  BY <1>0, RunIs
<1>3. /\ run' \in [Runners -> RunType] /\ run'[Daemon].step = "idle"
      /\ \A q \in Runners \ {Daemon} : run'[q] = run[q]
  BY <1>0, <1>1, <1>2, RunStepIs
<1>4. loop' \in LoopType /\ RoundOK' /\ CleanupOK' /\ RetryOK'
  BY <1>1, RestIs
<1>5. \A q \in Runners : run'[q].step # "idle" => run'[q] = run[q]
  BY <1>3
<1>6. UpkeepTypeOK'
  <2>1. \A q \in Runners : run'[q].step # "idle" => run'[q].job \in DOMAIN jobs'
    BY <1>0, <1>1, <1>5 DEF UpkeepTypeOK
  <2>2. QED
    BY <1>0, <1>1, <1>3, <1>4, <2>1 DEF UpkeepTypeOK
<1>7. RunOK'
  BY <1>0, <1>1, <1>5 DEF RunOK
<1>8. ASSUME ~spoilt' PROVE OrderOK'
  <2>1. OrderOK
    BY <1>1, <1>8 DEF UpkeepInv
  <2>2. \A k : Rotating(k)' => Rotating(k)
    BY <1>5 DEF Rotating
  <2>3. \A j : Kept(j) => j \in archives'[jobs'[j].target] \cup deleted'
    BY <1>1 DEF Kept
  <2>4. \A j \in Ended("success")' :
          (\A k \in Ended("success")' : k <= j \/ Rotating(k)') => Kept(j)'
    <3>1. Ended("success")' = Ended("success")
      BY <1>1 DEF Ended
    <3>2. QED
      BY <2>1, <2>2, <2>3, <3>1 DEF OrderOK, Kept
  <2>5. \A q \in Runners : run'[q].step # "idle" =>
          /\ run'[q].job = Len(jobs')
          /\ \A o \in Runners \ {q} : run'[o].step = "idle"
          /\ run'[q].step = "export" => \A i \in DOMAIN made' : made'[i] < Len(jobs')
          /\ run'[q].step \in {"exported", "rotate"} => Kept(run[q].job)'
    <3> SUFFICES ASSUME NEW q \in Runners, run'[q].step # "idle"
                 PROVE  /\ run'[q].job = Len(jobs')
                        /\ \A o \in Runners \ {q} : run'[o].step = "idle"
                        /\ run'[q].step = "export" =>
                             \A i \in DOMAIN made' : made'[i] < Len(jobs')
                        /\ run'[q].step \in {"exported", "rotate"} => Kept(run[q].job)'
      OBVIOUS
    <3>1. run'[q] = run[q]
      BY <1>5
    <3>2. \A o \in Runners \ {q} : run'[o].step = "idle"
      BY <1>3, <2>1, <3>1 DEF OrderOK
    <3>3. run[q].step \in {"exported", "rotate"} =>
            run[q].job \in archives'[jobs'[run[q].job].target] \cup deleted'
      BY <2>1, <2>3, <3>1 DEF OrderOK
    <3>4. QED
      BY <1>1, <2>1, <3>1, <3>2, <3>3 DEF OrderOK, Kept
  <2>6. QED
    BY <1>1, <2>1, <2>4, <2>5 DEF OrderOK
<1>9. SettingsKept' /\ (\A w \in Users : EditOK(w)')
  BY <1>1, SettingsFrame, EditFrame
<1>10. QED
  BY <1>4, <1>6, <1>7, <1>8, <1>9 DEF UpkeepInv

-----------------------------------------------------------------------------
(* The invariant.                                                          *)

LEMMA InitHolds ==
  Init => UpkeepInv
<1> SUFFICES ASSUME Init PROVE UpkeepInv
  OBVIOUS
<1>1. /\ now = 0 /\ config = Initial /\ roots = {} /\ jobs = <<>>
      /\ archives = [t \in Targets |-> {}]
      /\ user = [u \in Users |-> NoCall] /\ run = [p \in Runners |-> Idle]
      /\ alive = FALSE /\ loop = Resting
      /\ chosen = [FromDict(Initial) EXCEPT !.last = Never]
      /\ torn = FALSE /\ deleted = {} /\ made = <<>> /\ spoilt = FALSE
      /\ cleaned = Never /\ calls = 0
  BY DEF Init
<1>2. /\ Initial \in Configs /\ MaxTime \in Nat /\ MaxCalls \in Nat /\ MaxJobs \in Nat
  BY UpkeepAssumption
<1>3. Idle \in RunType /\ Idle.step = "idle"
  BY <1>2 DEF Idle, RunType
<1>4. Resting \in LoopType /\ Resting.step = "idle" /\ Resting.current = 0
  BY <1>2 DEF Resting, LoopType
<1>5. NoCall \in UserType /\ NoCall.step = "next"
  BY <1>2 DEF NoCall, UserType
<1>6. /\ FromDict(Initial) \in Configs /\ FromDict(Initial).cleanup \in BOOLEAN
      /\ chosen \in Configs /\ SameSettings(chosen, FromDict(Initial))
  BY <1>1, <1>2, FromDictIs, LastSetIs
<1>7. \A p \in Runners : run[p] = Idle
  BY <1>1
<1>8. Ended("success") = {} /\ Ended("failed") = {}
  BY <1>1 DEF Ended
<1>9. UpkeepTypeOK
  <2>1. chosen.cleanup \in BOOLEAN
    BY <1>6 DEF SameSettings
  <2>2. \A p \in Runners : run[p].step = "idle"
    BY <1>3, <1>7
  <2>3. run \in [Runners -> RunType] /\ user \in [Users -> UserType]
    BY <1>1, <1>3, <1>5
  <2>4. Daemon \in Runners
    BY RunnersAre
  <2>5. jobs \in Seq(JobType) /\ Len(jobs) = 0 /\ DOMAIN jobs = {} /\ made \in Seq(1..MaxJobs)
    BY <1>1
  <2>6. /\ archives \in [Targets -> SUBSET (1..MaxJobs)] /\ Len(jobs) <= MaxJobs
        /\ now \in 0..MaxTime /\ calls \in 0..MaxCalls
    BY <1>1, <1>2, <2>5
  <2>7. loop \in LoopType /\ config \in Configs
    BY <1>1, <1>2, <1>4
  <2>8. /\ \A j \in DOMAIN jobs : jobs[j].at = Never <=> jobs[j].status = "running"
        /\ \A p \in Runners : run[p].step # "idle" => run[p].job \in DOMAIN jobs
        /\ run[Daemon].step = "idle"
    BY <2>2, <2>4, <2>5
  <2>9. /\ roots \in SUBSET Roots /\ deleted \in SUBSET (1..MaxJobs)
        /\ torn \in BOOLEAN /\ alive \in BOOLEAN /\ spoilt \in BOOLEAN
        /\ cleaned \in (0..MaxTime) \cup {Never}
    BY <1>1
  <2>10. QED
    BY <1>6, <2>1, <2>3, <2>5, <2>6, <2>7, <2>8, <2>9 DEF UpkeepTypeOK
<1>10. \A u \in Users : EditOK(u)
  BY <1>1, <1>5 DEF EditOK
<1>11. RoundOK /\ CleanupOK /\ RetryOK
  BY <1>1, <1>4 DEF RoundOK, CleanupOK, RetryOK
<1>12. SettingsKept
  BY <1>1 DEF SettingsKept, load
<1>13. RunOK /\ OrderOK
  <2>1. DOMAIN jobs = {} /\ DOMAIN made = {}
    BY <1>1
  <2>2. QED
    BY <1>3, <1>7, <1>8, <2>1 DEF RunOK, OrderOK
<1>14. QED
  BY <1>9, <1>10, <1>11, <1>12, <1>13 DEF UpkeepInv

LEMMA StutterKeeps ==
  ASSUME UpkeepInv, UNCHANGED vars
  PROVE  UpkeepInv'
<1>1. UNCHANGED <<now, config, roots, backupVars, user, alive, loop, chosen, torn, cleaned,
                  calls>>
  BY DEF vars
<1>2. UpkeepTypeOK'
  BY <1>1 DEF UpkeepInv, UpkeepTypeOK, backupVars
<1>3. RunOK' /\ (~spoilt' => OrderOK') /\ RetryOK' /\ RoundOK'
  BY <1>1, NowIs, RunFrame, RetryFrame, RoundFrame DEF backupVars
<1>4. SettingsKept' /\ CleanupOK' /\ \A u \in Users : EditOK(u)'
  BY <1>1, SettingsFrame, CleanupFrame, EditFrame
<1>5. QED
  BY <1>2, <1>3, <1>4 DEF UpkeepInv

LEMMA NextKeeps ==
  ASSUME UpkeepInv, Next
  PROVE  UpkeepInv'
<1>1. CASE Tick
  BY <1>1, TickKeeps
<1>2. CASE \E u \in Users : UserStep(u)
  <2> PICK u \in Users : UserStep(u)
    BY <1>2
  <2>1. CASE \E c \in Calls : Ask(u, c)
    BY <2>1, AskKeeps
  <2>2. CASE \E a \in 1..MaxJobs : DeleteArchive(u, a)
    BY <2>2, DeleteArchiveKeeps
  <2>3. QED
    BY <2>1, <2>2, AddRootKeeps, RemoveRootKeeps, LoadEditKeeps, SaveEditKeeps,
       RunBackupKeeps DEF UserStep
<1>3. CASE \E p \in Runners : BackupStep(p)
  BY <1>3, ExportKeeps, SucceedKeeps, RotateKeeps, FailBackupKeeps DEF BackupStep
<1>4. CASE DaemonStart \/ DaemonStep \/ DaemonDies
  BY <1>4, DaemonStartKeeps, DaemonDiesKeeps, BeginRoundKeeps, DueBackupKeeps, StartDueKeeps,
     DueCleanupKeeps, DeleteKeeps, LoadRecordKeeps, SaveRecordKeeps DEF DaemonStep
<1>5. QED
  BY <1>1, <1>2, <1>3, <1>4 DEF Next

\* The inductive invariant: copies of the configuration in hand, rows of jobs,
\* archives and the round of the daemon agree in every reachable state.
THEOREM UpkeepInvariant == Spec => []UpkeepInv
<1>1. Init => UpkeepInv
  BY InitHolds
<1>2. UpkeepInv /\ [Next]_vars => UpkeepInv'
  BY StutterKeeps, NextKeeps
<1>3. QED
  BY <1>1, <1>2, PTL DEF Spec

\* Types, and what belongs together: a job has ended exactly when it has a time, each
\* backup under way has its row, and the daemon's is part of its round.
THEOREM TypeCorrect == Spec => []UpkeepTypeOK
<1>1. UpkeepInv => UpkeepTypeOK
  BY DEF UpkeepInv
<1>2. QED
  BY <1>1, UpkeepInvariant, PTL

\* config.py: each setting is as it was last saved, unless saves have overlapped.
THEOREM SettingsAreKept == Spec => []SettingsKept
<1>1. UpkeepInv => SettingsKept
  BY DEF UpkeepInv
<1>2. QED
  BY <1>1, UpkeepInvariant, PTL

\* backup.py: the archive of the last success is there until the user deletes it,
\* while backups come one after the other and no rotation fails halfway.
THEOREM NamedArchiveIsKept == Spec => []NamedArchiveKept
<1>1. ASSUME UpkeepInv PROVE NamedArchiveKept
  <2> SUFFICES ASSUME Ended("success") # {}, ~spoilt
               PROVE  Kept(Latest("success"))
    BY DEF NamedArchiveKept, Kept
  <2> DEFINE j == Latest("success")
  <2>1. UpkeepTypeOK /\ OrderOK
    BY <1>1 DEF UpkeepInv
  <2>2. /\ j \in Ended("success")
        /\ \A k \in Ended("success") :
             jobs[k].at < jobs[j].at \/ (jobs[k].at = jobs[j].at /\ k <= j)
    BY <2>1, LatestIs
  <2> HIDE DEF j
  <2>3. ASSUME NEW k \in Ended("success") PROVE k <= j
    <3>1. /\ j \in DOMAIN jobs /\ j \in Int /\ jobs[j].at \in Int /\ jobs[j].at # Never
          /\ k \in DOMAIN jobs /\ k \in Int /\ jobs[k].at \in Int /\ jobs[k].at # Never
      BY <2>1, <2>2, EndedIs
    <3>2. j < k => jobs[j].at <= jobs[k].at
      BY <2>1, <3>1 DEF OrderOK
    <3>3. QED
      BY <2>2, <3>1, <3>2
  <2>4. Kept(j)
    BY <2>1, <2>2, <2>3 DEF OrderOK
  <2>5. QED
    BY <2>4 DEF j
<1>2. QED
  BY <1>1, UpkeepInvariant, PTL

\* Whose step it is that changes the backup of the daemon.
LEMMA DaemonBackupIs ==
  ASSUME UpkeepInv, Next, run[Daemon].step = "idle", run'[Daemon].step # "idle"
  PROVE  StartDue
<1>0. UpkeepTypeOK /\ Daemon \in Runners /\ Users \subseteq Runners /\ Daemon \notin Users
  BY RunnersAre DEF UpkeepInv
<1>1. run' # run
  OBVIOUS
<1>2. ASSUME NEW u \in Users PROVE ~UserStep(u)
  <2>1. ASSUME RunBackup(u) PROVE FALSE
    <3>1. PICK t \in Targets : Start(u, t)
      BY <2>1 DEF RunBackup
    <3>2. \E v : run' = [run EXCEPT ![u] = v]
      BY <3>1 DEF Start
    <3>3. run'[Daemon] = run[Daemon]
      BY <1>0, <1>2, <3>2 DEF UpkeepTypeOK
    <3>4. QED
      BY <3>3
  <2>2. QED
    BY <1>1, <2>1 DEF UserStep, Ask, AddRoot, RemoveRoot, LoadEdit, SaveEdit, DeleteArchive,
       backupVars
<1>3. ASSUME NEW p \in Runners PROVE ~BackupStep(p)
  <2> SUFFICES ASSUME BackupStep(p) PROVE FALSE
    OBVIOUS
  <2>1. run[p].step # "idle" /\ \E v : run' = [run EXCEPT ![p] = v]
    BY DEF BackupStep, Export, Succeed, Rotate, FailBackup
  <2>2. p # Daemon
    BY <2>1
  <2>3. run'[Daemon] = run[Daemon]
    BY <1>0, <2>1, <2>2 DEF UpkeepTypeOK
  <2>4. QED
    BY <2>3
<1>4. ~DaemonDies
  <2> SUFFICES ASSUME DaemonDies PROVE FALSE
    OBVIOUS
  <2>1. run'[Daemon] = Idle
    BY <1>0 DEF DaemonDies, UpkeepTypeOK
  <2>2. QED
    BY <2>1 DEF Idle
<1>5. /\ ~Tick /\ ~DaemonStart /\ ~Round /\ ~DueBackup /\ ~DueCleanup /\ ~Delete
      /\ ~LoadRecord /\ ~SaveRecord
  BY <1>1 DEF Tick, DaemonStart, Round, DueBackup, DueCleanup, Delete, LoadRecord, SaveRecord,
     backupVars
<1>6. QED
  BY <1>2, <1>3, <1>4, <1>5 DEF Next, DaemonStep

\* backup.py: the daemon waits for the retry interval after a failure, also one that
\* has been started anew and has only the rows to go by.
THEOREM NoRetryTooEarly == Spec => NoEarlyRetry
<1> DEFINE Step == run[Daemon].step = "idle" /\ run'[Daemon].step = "export" /\ Ended("failed") # {} =>
              LET failure == jobs[Latest("failed")].at
              IN  \/ now - failure >= Retry \/ failure >= loop.current
                  \/ \E k \in Ended("success") : jobs[k].at >= failure
<1>1. ASSUME UpkeepInv, [Next]_vars PROVE [Step]_vars
  <2> SUFFICES ASSUME Next, run[Daemon].step = "idle", run'[Daemon].step = "export",
                      Ended("failed") # {}
               PROVE  \/ now - jobs[Latest("failed")].at >= Retry
                      \/ jobs[Latest("failed")].at >= loop.current
                      \/ \E k \in Ended("success") : jobs[k].at >= jobs[Latest("failed")].at
    BY <1>1
  <2> DEFINE f == Latest("failed")
  <2>1. UpkeepTypeOK /\ RetryOK /\ loop.step = "start"
    BY <1>1, DaemonBackupIs DEF UpkeepInv, StartDue
  <2>2. /\ f \in Ended("failed")
        /\ \A k \in Ended("failed") : jobs[k].at < jobs[f].at \/ jobs[k].at = jobs[f].at
    BY <2>1, LatestIs
  <2> HIDE DEF f
  <2>3. \A k \in Ended("failed") : jobs[k].at <= jobs[f].at
    BY <2>1, <2>2, EndedIs
  <2>4. \/ now - jobs[f].at >= Retry \/ jobs[f].at >= loop.current
        \/ \E k \in Ended("success") : jobs[k].at >= jobs[f].at
    BY <2>1, <2>2, <2>3 DEF RetryOK
  <2>5. QED
    BY <2>4 DEF f
<1>2. QED
  BY <1>1, UpkeepInvariant, PTL DEF Spec, NoEarlyRetry

\* retention_cleanup.py: a cleanup follows the one before after a day.
THEOREM CleanupsAreDaily == Spec => CleanupAtMostDaily
<1> DEFINE Step == loop.step = "delete" /\ loop'.step = "record" =>
              cleaned = Never \/ torn \/ loop.current - cleaned >= Day
<1>1. ASSUME UpkeepInv PROVE [Step]_vars
  BY <1>1 DEF UpkeepInv, CleanupOK
<1>2. QED
  BY <1>1, UpkeepInvariant, PTL DEF Spec, CleanupAtMostDaily
=============================================================================
