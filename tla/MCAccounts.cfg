CONSTANTS
  new = new  c1 = c1
  Call = {1, 2, 3}
  Does <- MCDoes
  Password = {new, old}
  Code = {c1, c2}
  MaxAttempts = 2
  AccessLife = 2
  RefreshLife = 3
  CodeLife = 1
  Pause = 1
  MaxNow = 2
SPECIFICATION MCSpec
INVARIANTS
  TypeOK
  RevokedStaysRevoked
  GuessesBounded
CHECK_DEADLOCK FALSE
