CONSTANTS
  Sizes = {1, 4, 7, 8, 9, 10, 12}
  Batches = {1, 2, 3, 4}
  MaxCoroutines = 6
SPECIFICATION Spec
INVARIANTS EveryElementCopied CopiedOnce
PROPERTY Ends
\* main() returns.
CHECK_DEADLOCK FALSE
