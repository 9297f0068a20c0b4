CONSTANTS
  Block = {b1, b2, b3, b4, b5}
  NULL = NULL
  N_ACCESS_POINTS = 3
  N_FREE = 3
  HeapIndex = {0, 3}
SPECIFICATION AmacSpec
INVARIANTS
  TypeOK Balanced AllocationServed EmptyTestExact IndexExact Distinct
  EnoughWorkers
PROPERTIES ImplementsFreeList InStep RequestEnds
