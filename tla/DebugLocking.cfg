CONSTANTS
  Threads = {t1, t2, t3}
  Locks = {A, B, C}
  Names <- Classes
  Programs <- AnyClasses
  MaxDepth = 2
  MaxGuards = 6
SYMMETRY ThreadsAndLocks
SPECIFICATION Spec
INVARIANTS TypeOK StackIsGuards LocksHaveOneOrder NoMultipleUnlock CircularWaitOnlyWithinAClass
CHECK_DEADLOCK FALSE
