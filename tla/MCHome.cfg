SPECIFICATION Spec
CONSTANTS
  a = a  b = b  c = c
  x = x  y = y
  m1 = m1  m2 = m2
  w1 = w1
  Absent = Absent
  Homes <- MCHomes
  First = a
  Contents <- MCContents
  Initial <- MCInitial
  Migrators <- MCMigrators
  Writers <- MCWriters
  MaxMoves = 2
  MaxCalls = 2
  MaxFaults = 1
INVARIANTS HomeTypeOK ActiveComplete SavedIsKept StateIsTrue ArchiveRestores
CHECK_DEADLOCK FALSE
SYMMETRY Symmetry
