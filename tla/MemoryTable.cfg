CONSTANTS
  Loops <- SourceLoops
  MaxAllocSize = 4096
  HeaderSize = 4
  Threads = {t1, t2}
  Blocks = {b1, b2}
  Sizes <- LastSizes
SPECIFICATION Spec
INVARIANT EverySizeHasAPool
CHECK_DEADLOCK FALSE
