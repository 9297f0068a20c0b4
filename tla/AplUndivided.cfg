\* Fewer free blocks than access points, as in 32/allocation_map.txt.
CONSTANTS
  Block = {b1, b2, b3, b4}
  NULL = NULL
  head = head
  N_ACCESS_POINTS = 3
  N_FREE = 2
  HeapIndex = {0}
SPECIFICATION Spec
PROPERTY AllocationTakesBlock
CHECK_DEADLOCK FALSE
