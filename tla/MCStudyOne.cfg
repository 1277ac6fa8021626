CONSTANTS
  u1 = u1  u2 = u2  w1 = w1  w2 = w2  m1 = m1  m2 = m2
  e0 = e0  e1 = e1  e2 = e2  e3 = e3  e4 = e4
  User <- MCUser
  Module <- MCModule
  Worker = {w1}
  Card <- MCCard
  EventId <- MCEventId
  Owner <- MCOwner
  Home <- MCHome
  Baseline <- MCBaseline
  FirstCards <- MCCard
  OldRows <- MCOldRows
  Batches <- MCBatches
  Patched = {}
  MaxBatch = 2
  HistoryLimit = 4
  MaxAttempts = 2
  MaxStalls = 1
SPECIFICATION Spec
INVARIANTS
  TypeOK
  LevelMatchesHistory
  LastTimesMatchHistory
PROPERTIES
  ImplementsLedger
CHECK_DEADLOCK FALSE
