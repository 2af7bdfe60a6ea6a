SPECIFICATION Spec
CONSTANTS
  Buffers = {b1, b2, b3}
  Callers = {c1, c2, c3}
  Nothing = Nothing
  Sizes = {0, 3}
  Usages = {storage}
  MaxCacheSize = 5
  EvictionTimeout = 1
  MaxAge = 2
  AutoEvict = TRUE
  Targets = {0, 4}
  DeepShrinks = TRUE
PROPERTY HandedOut
CHECK_DEADLOCK FALSE
