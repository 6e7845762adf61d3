CONSTANTS
  f1 = f1
  f2 = f2
  a = a
  b = b
  None = None
  c1 = c1
  o1 = o1
  File = {f1, f2}
  Content = {a, b}
  Cleaners = {c1}
  Observers = {o1}
  MaxAttempts = 2
  MaxEdits = 3
  MaxVersions = 4
  MaxSnapshots = 3

SYMMETRY Symmetry
SPECIFICATION Spec

INVARIANTS
  TypeOK
  Recoverable
  CurrentContentKept
  StatusMatchesHistory
  SnapshotsKept
  NoTornVersion
  ShortcutSound

PROPERTIES
  CompleteSnapshotMatchesTree
  RestorePointKept
  IdsNotReused
  HistorySpec
