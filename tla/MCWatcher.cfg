CONSTANTS
  Flushers = {t1, t2}
  MaxEdits = 2

SPECIFICATION Spec
INVARIANTS
  TypeOK
  NoChangeForgotten
  PendingIsFlushed
PROPERTY
  EveryChangeSaved
