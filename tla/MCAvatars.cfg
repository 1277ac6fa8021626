CONSTANTS
  Call = {c1, c2, c3}
  MaxFiles = 4
  User = {u1, u2}
  NoUser = NoUser
  MaxRequests = 7
SPECIFICATION MCSpec
INVARIANTS
  TypeOK
  BrokenIsTransient
  SettledStays
PROPERTIES
  ImplementsView
  LinkHeals
CHECK_DEADLOCK FALSE
