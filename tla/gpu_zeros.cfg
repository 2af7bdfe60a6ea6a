SPECIFICATION Spec
CONSTANTS
  Calls = {d1, d2}
  Domains = {chain}
  MaxContexts = 2
  MaxDevices = 2
INVARIANT NeverZeros
CHECK_DEADLOCK FALSE
