SPECIFICATION MCSpec
CONSTANTS
  a = a
  c1 = c1
  c2 = c2
  w1 = w1
  w2 = w2
  r1 = r1
  r2 = r2
  h1 = h1
  NoClient = NoClient
  NoName = NoName
  Names = {a}
  Commands = {}
  Order <- OnePlugin
  Clients = {c1, c2}
  Requests = {w1}
  Reloads = {w2}
  Restarters = {r1, r2}
  Callers = {h1}
  Budgets = {1}
  MaxTriggered = 1
CHECK_DEADLOCK FALSE
INVARIANTS OneOwner NoOrphan LoadedOrDisabled
PROPERTY ReloadsReturn
