SPECIFICATION MCSpec
CONSTANTS
  Buffers = {b1, b2, b3}
  Callers = {c1, c2}
  Nothing = Nothing
  Sizes = {0, 3}
  Usages = {storage}
  MaxCacheSize = 5
  EvictionTimeout = 1
  MaxAge = 2
  AutoEvict = TRUE
  Targets = {0, 4}
  DeepShrinks = FALSE
  Calls = {d1, d2}
  Domains = {chain, fft}
  MaxContexts = 2
  MaxDevices = 2
INVARIANTS Accounted NoSilentZeros SharedDevice
PROPERTIES HandedOut HeldSurvives IdleIsEvicted DispatchSettles
CHECK_DEADLOCK FALSE
