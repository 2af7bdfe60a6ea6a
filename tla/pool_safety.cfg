SPECIFICATION Spec
CONSTANTS
  Tasks = {t1, t2, t3}
  Workers = {w1, w2, w3}
  NoWorker = NoWorker
  MaxWorkers = 2
  MaxStartupFailures = 2
  SpawnCanFail = TRUE
  AnswersTwice = TRUE
  Unclonable = {}
SYMMETRY Symmetry
INVARIANTS TaskTracked RosterOK WorkConserving MessagesOwned ThreadsOwned TerminatedIsQuiet TimersOwned
PROPERTIES CapacityKept CrashIsolation
CHECK_DEADLOCK FALSE
