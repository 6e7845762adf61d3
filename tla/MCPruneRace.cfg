CONSTANTS
  f1 = f1
  a = a
  b = b
  None = None
  c1 = c1
  o1 = o1
  File = {f1}
  Content = {a, b}
  Cleaners = {c1}
  Observers = {o1}
  MaxAttempts = 2
  MaxEdits = 3
  MaxVersions = 4
  MaxSnapshots = 3

SPECIFICATION PruneSpec
INVARIANTS
  Recoverable
