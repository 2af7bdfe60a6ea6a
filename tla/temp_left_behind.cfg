SPECIFICATION WriteSpec
CONSTANTS
  Procs = {p1}
  Pids = {n1}
  Texts = {t0, t1}
  Partial = Partial
  Nothing = Nothing
  NoTemp = NoTemp
  RenameAttempts = 2
  MaxWrites = 1
PROPERTY FailureLeavesNoTemp
CHECK_DEADLOCK FALSE
