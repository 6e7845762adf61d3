CONSTANTS
  None = None
  Daemons = {d1, d2}
  Requesters = {r1}

SPECIFICATION Spec
INVARIANTS
  TypeOK
  OneAtATime
  LockLetGo
  WorkingIsReported
PROPERTIES
  StoppedIsStopped
  StartsAfterAnyEnding
  ErrorStays
  StopIsHeard
