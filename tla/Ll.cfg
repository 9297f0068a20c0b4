CONSTANTS
  Block = {b1, b2, b3}
  NULL = NULL
  head = head
  MaxLines = 4
SPECIFICATION FairSpec
INVARIANTS TypeOK CheckExact RingIntact
PROPERTIES Lifo LoopsEnd ImplementsFreeList
\* main() returns.
CHECK_DEADLOCK FALSE
