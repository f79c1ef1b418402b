CONSTANTS
  Threads = {t1, t2}
  Locks = {A, B, C}
  Names <- Classes
  Programs <- OneObjectPerClass
  MaxDepth = 2
  MaxGuards = 4
SYMMETRY ThreadsAndLocks
SPECIFICATION Spec
INVARIANT StopsOnlyForACycle
CHECK_DEADLOCK FALSE
