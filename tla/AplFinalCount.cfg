CONSTANTS
  Block = {b1, b2, b3, b4}
  NULL = NULL
  head = head
  N_ACCESS_POINTS = 3
  N_FREE = 3
  HeapIndex = {0}
SPECIFICATION Spec
SYMMETRY Symmetric
INVARIANT CountSucceeds
CHECK_DEADLOCK FALSE
