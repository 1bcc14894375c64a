\* The same instance; blocks of two spans come back in one list.
CONSTANTS
  Ranges <- TwoRanges
  group_array <- OneGroup
  MaxAllocBytes = 3
  PageBytes = 3
  MinBlocks = 2
  MaxBlocks = 2
  Threads = {t1, t2}
  Requests = {1, 3}
  Spans = {s1, s2}
  HeapPages = 2
  LargePages = 1
  NoSpan = NoSpan
SPECIFICATION Spec
SYMMETRY Symmetry
CHECK_DEADLOCK FALSE
INVARIANTS Complete
