\* One coroutine, an array of two batches: the third batch passes the end.
CONSTANTS
  Sizes = {8}
  Batches = {4}
  MaxCoroutines = 1
SPECIFICATION Spec
INVARIANT WithinArrays
CHECK_DEADLOCK FALSE
