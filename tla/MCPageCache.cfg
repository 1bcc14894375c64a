\* Two grants of three pages, adjacent or one page of tc_pool apart, and one huge span.
CONSTANTS
  MaxPages = 3
  CentralSizes = {1, 3}
  LargeSizes = {}
  HugeSizes = {5}
  Spans = {s1, s2, s3, s4}
  MaxBrk = 7
  TcPages = 1
  MmapStarts = {20}
  NoSpan = NoSpan
SPECIFICATION Spec
CONSTRAINT NotRaced
SYMMETRY Symmetry
CHECK_DEADLOCK FALSE
INVARIANTS TypeOK EachPageOnce FindsOwner ListsExact NeighboursAlive HeapApart
PROPERTIES Service
