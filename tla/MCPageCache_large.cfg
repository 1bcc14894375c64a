\* A two-page span is handed out to tnc_malloc between central spans.
CONSTANTS
  MaxPages = 3
  CentralSizes = {1}
  LargeSizes = {2}
  HugeSizes = {}
  Spans = {s1, s2, s3, s4, s5}
  MaxBrk = 7
  TcPages = 1
  MmapStarts = {20}
  NoSpan = NoSpan
SPECIFICATION Spec
CONSTRAINT NotRaced
SYMMETRY Symmetry
CHECK_DEADLOCK FALSE
PROPERTIES OutStable
