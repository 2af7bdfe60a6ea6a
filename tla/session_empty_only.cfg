SPECIFICATION Spec
CONSTANTS
  Ids = {a, b}
  Contents = {"code", "text", "broken", "holds", "fails"}
  Files <- SomeFiles
  EmptyOnly = TRUE
PROPERTY ReportIsComplete
CHECK_DEADLOCK FALSE
