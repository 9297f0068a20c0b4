CONSTANTS
  Key <- MCKey
  NumBuckets = 3
  SizeT = 256
  Capacity = 2
  MaxKeys = 4
  MaxCoroutines = 3
SPECIFICATION Spec
INVARIANTS BufferFits KeyAhead EveryKeyFound
PROPERTY Ends
\* main() returns.
CHECK_DEADLOCK FALSE
