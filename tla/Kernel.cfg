SPECIFICATION KernelSpec
CONSTANTS
  NR_PAGE_ORDERS = 3
  Pageblocks = 2
  BlockTypes <- MCBlockTypes
  Counts = {2, 5}
  Pfns = {1, 2, 4, 7, 8, 9}
  NodeStarts = {6, 12}
  MovableStarts = {2, 9}
  PAGES_PER_SECTION = 4
  pageblock_nr_pages = 2
INVARIANTS
  Conserved
  InPhysicalOrder
  AddsWhatItCan
  MapInitialised
PROPERTIES
  CallEnds
  GivenOnce
  Ends
\* memmap_init returns, and on most machines nothing follows here.
CHECK_DEADLOCK FALSE
