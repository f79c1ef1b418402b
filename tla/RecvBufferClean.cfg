CONSTANTS
  BufferSize = 2
  BufferCount = 3
SPECIFICATION BufferSpec
INVARIANT ValidBetweenCursors
