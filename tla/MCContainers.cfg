\* A ring of four places and a tree of eight keys in four leaves.
CONSTANTS
  Size = 4
  Values = {a, b}
  NoTask = NoTask
  RootLength = 2
  MidLength = 2
  LeafLength = 2
  SetKeys = {0, 1, 3, 5, 6}
  SetValues = {v}
  Ensured <- Calls
  Null = Null
SPECIFICATION Spec
INVARIANTS Agrees
PROPERTIES RingIsQueue
