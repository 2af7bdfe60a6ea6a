SPECIFICATION MCSpec
CONSTANTS
  Tasks = {t1, t2}
  Workers = {w1, w2}
  NoWorker = NoWorker
  MaxWorkers = 2
  MaxStartupFailures = 2
  SpawnCanFail = TRUE
  AnswersTwice = FALSE
  Unclonable = {}
  Calls = {c1, c2}
  Sizes = {0, 3}
  PoolSize = 2
  MaxPools = 2
  MaxTerminates = 1
  Jobs = {j1, j2}
  Lengths = {3}
  ChunkSize = 2
  MaxInner = 2
  Enders = {e1, e2}
  Users = {u1, u2}
  Arrays = {8, 16, 24}
  Threshold = 16
  MaxBlocks = 3
  MaxModules = 2
  EarlyResets = FALSE
INVARIANTS Whole NoPoolForgotten InnerPoolHeld ArraysOwned MemoryBounded
PROPERTIES TimedTaskSettles TaskSettlesUnlessExhausted TerminateDrains ImplementsService CallsSettle
CHECK_DEADLOCK FALSE
