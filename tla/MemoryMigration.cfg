SPECIFICATION Spec
CONSTANTS
  l1 = l1
  l2 = l2
  f1 = f1
  m1 = m1
  m2 = m2
  s1 = s1
  s2 = s2
  c1 = c1
  Ids = {l1, l2, f1}
  Legacy = {l1, l2}
  Damaged = {l2}
  Foreign = {f1}
  Models = {m1}
  LegacyModel = m1
  Services = {s1, s2}
  Clients = {c1}
  PageSize = 1
  MaxVersion = 2
  MaxBuilds = 2
CHECK_DEADLOCK FALSE
PROPERTY IsRecordStore
