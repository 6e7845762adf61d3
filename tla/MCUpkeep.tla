----------------------------- MODULE MCUpkeep -------------------------------
(* One user beside the daemon, a folder to protect that holds one of two     *)
(* places for backups; days of three ticks, weeks of four; an old file.      *)
EXTENDS Upkeep

CONSTANTS ui, docs, near, far

MCUsers == {ui}
MCTargets == {near, far}
MCRoots == {docs}
MCInside == {<<near, docs>>}
MCAround == {}
MCInitial == [target |-> Never, schedule |-> "manual", enabled |-> FALSE, budget |-> 10,
              cleanup |-> Missing, days |-> 90, last |-> Never, onboarded |-> FALSE]

Backup(t, s) == [kind |-> "backup", target |-> t, schedule |-> s]
Retention(d, on, confirmed) ==
  [kind |-> "retention", days |-> d, on |-> on, confirmed |-> confirmed]

MCCalls == {
  << Backup(near, "daily") >>, << Backup(far, "weekly") >>,
  << [kind |-> "disable"] >>,
  << Retention(7, TRUE, TRUE) >>, << Retention(7, TRUE, FALSE) >>,
  << Retention(3, TRUE, TRUE) >>, << Retention(30, FALSE, FALSE) >>,
  << [kind |-> "unprotect", root |-> docs] >>,
  << [kind |-> "budget", budget |-> 20], [kind |-> "root", root |-> docs],
     Backup(far, "daily"), [kind |-> "onboarded"] >> }
=============================================================================
