CONSTANTS
  Loops <- SmallLoops
  MaxAllocSize = 20
  HeaderSize = 1
  Threads = {t1, t2, t3}
  Blocks = {b1, b2, b3}
  Sizes = {3, 4, 19, 20}
  Poppers = {p1, p2, p3}
  MaxPushes = 5
  BufferSize = 2
  BufferCount = 3
  Names = {A, B, C, D}
  Types = {1, 2, 3, 4}
  NoType = 0
  NullPtr = NullPtr
  PAGE_SIZE = 3
  Granularity = 6
  Space = 30
  MaxBlocks = 3
SPECIFICATION PartsSpec
INVARIANTS
  TypeOK OnePlace BackToItsPool CountIsHandedOut
  ContainerTypeOK NoLostWakeup GivenOutOnce
  BufferTypeOK NoByteCountLost CleanMakesRoom FindsEveryCycle CastsToBases StompsAreCaught
PROPERTY ValuesMeetTakers
CHECK_DEADLOCK FALSE
