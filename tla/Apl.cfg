CONSTANTS
  Block = {b1, b2, b3, b4, b5}
  NULL = NULL
  head = head
  N_ACCESS_POINTS = 3
  N_FREE = 3
  HeapIndex = {0}
SPECIFICATION Spec
SYMMETRY Symmetric
INVARIANTS RingIntact SentinelsInOrder NoImbalance
PROPERTY ImplementsAccessPoints
\* main() returns.
CHECK_DEADLOCK FALSE
