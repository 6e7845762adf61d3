CONSTANTS
  Flushers = {t1, t2}
  MaxEdits = 2

SPECIFICATION Spec
INVARIANT
  ObserverSurvivesBusyDatabase
