SPECIFICATION MaintenanceSpec
CONSTANTS
  g1 = g1
  g2 = g2
  N = 3
  Groups = {g1}
  MaxBase = 3
  Limit = 3
  QueueSize = 1
  BatchSize = 2
  MaxAccesses = 0
  MaxTicks = 1
CHECK_DEADLOCK FALSE
INVARIANT MergeKeepsBest
