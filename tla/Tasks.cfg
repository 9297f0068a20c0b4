CONSTANTS
  Key <- MCKey
  NumBuckets = 3
  SizeT = 256
  Capacity = 2
  MaxKeys = 4
  MaxTasks = 3
SPECIFICATION Spec
INVARIANTS NoNullDereference EveryKeyFound
PROPERTY Ends
\* main() returns.
CHECK_DEADLOCK FALSE
