SPECIFICATION Spec
CONSTANTS
  w1 = w1
  w2 = w2
  MaxMsg = 3
  Intervals = {1, 2}
  MaxDepth = 2
  MaxReloads = 1
  Workers = {w1, w2}
CHECK_DEADLOCK FALSE
INVARIANTS FlagMatchesWorker NoRepeatAfterBatch NothingVanishes
SYMMETRY WorkerSymmetry
