SPECIFICATION Spec
CONSTANTS
  r1 = r1
  c2 = c2
  m1 = m1
  m2 = m2
  s1 = s1
  s2 = s2
  c1 = c1
  Ids = {r1}
  Legacy = {}
  Damaged = {}
  Foreign = {r1}
  Models = {m1, m2}
  LegacyModel = m1
  Services = {s1, s2}
  Clients = {c1, c2}
  PageSize = 1
  MaxVersion = 4
  MaxBuilds = 3
CHECK_DEADLOCK FALSE
SYMMETRY Symmetry
INVARIANT SearchableAfterSync
