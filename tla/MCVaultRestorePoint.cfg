CONSTANTS
  f1 = f1
  a = a
  b = b
  None = None
  c1 = c1
  o1 = o1
  File = {f1}
  Content = {a, b}
  Cleaners = {c1}
  Observers = {o1}
  MaxAttempts = 2
  MaxEdits = 2
  MaxVersions = 3
  MaxSnapshots = 3

SPECIFICATION Spec
PROPERTY
  RestorePointContentKept
