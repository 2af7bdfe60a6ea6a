SPECIFICATION FairSpec
CONSTANTS
  Tasks = {t1}
  Workers = {w1, w2}
  NoWorker = NoWorker
  MaxWorkers = 1
  MaxStartupFailures = 3
  SpawnCanFail = FALSE
  AnswersTwice = FALSE
  Unclonable = {}
PROPERTY EveryTaskSettles
CHECK_DEADLOCK FALSE
