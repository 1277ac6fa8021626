CONSTANTS
  Item = {1, 2, 3, 4}
  Keys = {1, 2}
  Limits <- MCLimits
  DefaultLimit = 1
  MaxLimit = 2
  m1 = m1
  m2 = m2
  Module = {m1, m2}
  Content = {v1, v2}
  Call = {c1, c2}
  MaxCards = 3
  Folder = {m1, m2}
  Name = {v1, v2}
  Filed = {m1}
  Setter = {c1, c2}
  MaxTags = 3
SPECIFICATION MCSpec
SYMMETRY MCSymmetry
INVARIANTS
  ShownOnce
  TypesOK
  CardsAsked
  CardsExact
  TagsAsked
  TagsExact
  TaggedWereMembers
CHECK_DEADLOCK FALSE
