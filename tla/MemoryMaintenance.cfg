SPECIFICATION FairMaintenanceSpec
CONSTANTS
  g1 = g1
  g2 = g2
  N = 3
  Groups = {g1, g2}
  MaxBase = 2
  Limit = 3
  QueueSize = 1
  BatchSize = 2
  MaxAccesses = 1
  MaxTicks = 1
CHECK_DEADLOCK FALSE
INVARIANT OnlyDuplicatesMerged
PROPERTIES QuietOnceClosed CloseReturns
