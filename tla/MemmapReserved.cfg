\* One node, the memory any set of four page frames, the border between the zones
\* in its middle.
SPECIFICATION MapSpec
CONSTANTS
  Pfns = {0, 1, 2, 3}
  NodeStarts = {4}
  MovableStarts = {2}
  PAGES_PER_SECTION = 4
  pageblock_nr_pages = 2
INVARIANT
  AllReserved
CHECK_DEADLOCK FALSE
