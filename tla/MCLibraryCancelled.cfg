CONSTANTS
  u1 = u1  u2 = u2  u3 = u3  n1 = n1  n2 = n2  n3 = n3
  User = {u1, u2, u3}
  Name = {n1, n2, n3}
  Call = {1, 2, 3}
  Does <- MCDoes
  MaxModules = 4
  NoUser = NoUser
  NotGiven = NotGiven
SPECIFICATION MCSpec
SYMMETRY MCSymmetry
PROPERTIES
  CancelledDoesNothing
CHECK_DEADLOCK FALSE
