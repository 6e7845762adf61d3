SPECIFICATION Spec
CONSTANTS
  ui = ui  docs = docs  near = near  far = far
  Daemon = daemon
  Never = Never  Missing = Missing
  Users <- MCUsers
  Targets <- MCTargets
  Roots <- MCRoots
  Inside <- MCInside
  Around <- MCAround
  Calls <- MCCalls
  Initial <- MCInitial
  KeepLast = 1
  Day = 3  Week = 4  DueAt = 1  Retry = 2
  LegacyDays = 90  DefaultDays = 7
  MaxTime = 7
  MaxCalls = 3
  MaxJobs = 3
INVARIANTS UpkeepTypeOK SettingsKept NamedArchiveKept
PROPERTIES NoEarlyRetry CleanupAtMostDaily
CHECK_DEADLOCK FALSE
