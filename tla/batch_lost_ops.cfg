SPECIFICATION Spec
CONSTANTS
  Ops = {o1, o2, o3}
  Flushes = {f1, f2}
  MaxBatchSize = 3
  AutoFlush = TRUE
  WaitForCompletion = TRUE
INVARIANT NothingDropped
CHECK_DEADLOCK FALSE
