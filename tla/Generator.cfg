CONSTANTS
  Block = {b1, b2, b3, b4}
  NULL = NULL
  NALLOC = 3
  MAX_ALLOC_REQUEST_SZ = 2
  Settings <- MCSettings
SPECIFICATION Spec
INVARIANT Partition
PROPERTIES Terminates ImplementsFreeList
CHECK_DEADLOCK FALSE
