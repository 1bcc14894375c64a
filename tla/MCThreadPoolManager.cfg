\* Three clients, two pools; 256 threads are what uint8_t makes none of.
CONSTANTS
  Clients = {c1, c2, c3}
  Counts = {1, 2, 256}
  MaxPools = 2
  MaxGrow = 2
  Nobody = Nobody
SPECIFICATION Spec
SYMMETRY Symmetry
CHECK_DEADLOCK FALSE
INVARIANTS OneThreadPerId LostOnlyOutside
