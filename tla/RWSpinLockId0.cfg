CONSTANTS
  Threads = {1, 2}
  Tid <- TidFromZero
  Half = 8
  MaxDepth = 1
  Upgrades = FALSE
  Timeouts = FALSE
SPECIFICATION Spec
INVARIANT MutualExclusion
CHECK_DEADLOCK FALSE
