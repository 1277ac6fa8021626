CONSTANTS
  u1 = u1  u2 = u2  w1 = w1  w2 = w2  m1 = m1  m2 = m2
  e0 = e0  e1 = e1  e2 = e2  e3 = e3  e4 = e4
  User <- MCUser
  Module <- MCModule
  Worker = {w1, w2}
  Card <- MCCard
  EventId <- MCEventId
  Owner <- MCOwner
  Home <- MCHome
  Baseline <- MCBaseline
  FirstCards <- MCCard
  OldRows <- MCOldRows
  Batches <- MCBatches
  Patched = {}
  MaxBatch = 2
  HistoryLimit = 4
  MaxAttempts = 1
  MaxStalls = 1
SPECIFICATION MCSpec
INVARIANTS
  StoredOnce
  NoLockCycle
  LevelNeverInflated
PROPERTIES
  DoneMeansRecorded
CHECK_DEADLOCK FALSE
