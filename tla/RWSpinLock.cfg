CONSTANTS
  Threads = {1, 2}
  Tid <- TidFromOne
  Half = 8
  MaxDepth = 3
  Upgrades = TRUE
  Timeouts = TRUE
SPECIFICATION FairSpec
INVARIANTS MutualExclusion WriteCountIsPrivate CrashOnlyOnMisuse IInv
PROPERTIES ImplementsRWLock StarvedOnlyByTraffic
CHECK_DEADLOCK FALSE
