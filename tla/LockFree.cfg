SPECIFICATION Spec
CONSTANTS
  Threads = {t1, t2, t3}
  Nodes = {n1, n2}
  Values = {a, b}
  Entries = {e1, e2, e3}
  References = {r1, r2, r3}
  Null = Null
  Empty = Empty
  Maker = t1
  First = r1
  DepthLimit = 2
  SequenceLimit = 4
CHECK_DEADLOCK FALSE
INVARIANTS TypeOK WholeUntilOverlap EveryEntryListed DeletedByTheLast
PROPERTY ImplementsStack
