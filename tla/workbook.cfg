SPECIFICATION MCSpec
CONSTANTS
  Server = Server
  Cli = Cli
  Procs = {Server, Cli}
  Pids = {n1, n2}
  Texts = {t0, t1, t2}
  ServerText = t1
  CliText = t2
  Partial = Partial
  Nothing = Nothing
  NoTemp = NoTemp
  RenameAttempts = 2
  MaxWrites = 3
  MaxLines = 3
  CliLines = 1
  MaxKills = 1
  Ids = {a, b, c}
  MaxDeps = 2
  Graphs <- SomeGraphs
INVARIANTS TempsOwned OneAnswerEach NothingOutlives DependenciesFirst Complete
PROPERTIES ImplementsRegister WindsDown Terminates
CHECK_DEADLOCK FALSE
