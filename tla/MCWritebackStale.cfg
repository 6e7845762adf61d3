CONSTANTS
  f1 = f1
  f2 = f2
  out = out
  a = a
  b = b
  l = l
  e = e
  Files = {f1, f2}
  Ignored = {}
  Outside = {out}
  Flaky = {f2}
  Contents = {a, b, l, e}
  Links = {l, e}
  External = {e}
  CopyOfLink <- MCCopyOfLink
  Initial <- MCInitial
  Holds <- MCHolds
  Absent = Absent
  None = None
  Runner = run
  Appliers = {ap}
  Restorers = {re}
  MaxEvents = 3

SPECIFICATION Spec
PROPERTY
  UserVersionPreserved
CHECK_DEADLOCK FALSE
