CONSTANTS
  BufferSize = 2
  BufferCount = 3
  Names = {A, B, C, D}
  Types = {1, 2, 3, 4}
  NoType = 0
  NullPtr = NullPtr
  PAGE_SIZE = 3
  Granularity = 6
  Space = 30
  MaxBlocks = 3
SPECIFICATION SequentialSpec
INVARIANT OnlyToBases
CHECK_DEADLOCK FALSE
