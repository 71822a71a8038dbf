SPECIFICATION Spec
CONSTANTS
  u1 = u1
  u2 = u2
  b1 = b1
  b2 = b2
  g1 = g1
  d1 = d1
  Users = {u1, u2}
  Batches = {b1, b2}
  Counters = {g1}
  Deleters = {d1}
  Interval = 1
  MaxMessages = 1
CHECK_DEADLOCK FALSE
SYMMETRY Symmetry
INVARIANTS OneLinkPerPair ErasedStaysErased
