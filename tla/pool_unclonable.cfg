SPECIFICATION Spec
CONSTANTS
  Tasks = {t1, t2}
  Workers = {w1, w2}
  NoWorker = NoWorker
  MaxWorkers = 1
  MaxStartupFailures = 3
  SpawnCanFail = FALSE
  AnswersTwice = FALSE
  Unclonable = {t1}
INVARIANT QueuedOnlyWhenBusy
CHECK_DEADLOCK FALSE
