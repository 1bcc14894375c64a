\* Every request up to 260 KB, and the borders of the page cache above.
CONSTANTS
  Ranges <- RealRanges
  group_array <- RealGroups
  MaxAllocBytes = 262144
  PageBytes = 4096
  MinBlocks = 2
  MaxBlocks = 512
  MaxPages = 128
  LargePages = 64
  ListCount = 208
  Sizes <- AllSizes
SPECIFICATION Spec
INVARIANTS TableKept SpanServes FreedWhereAllocated
