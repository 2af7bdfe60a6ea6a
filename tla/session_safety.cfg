SPECIFICATION Spec
CONSTANTS
  Ids = {a, b, c}
  Contents = {"code", "text", "broken", "holds", "fails"}
  Files <- SomeFiles
  EmptyOnly = FALSE
SYMMETRY Symmetry
INVARIANTS CacheIsExact StaleIsExact RefsExist RunNeverStuck
PROPERTIES EditsAddNoCycle ReportIsComplete
CHECK_DEADLOCK FALSE
