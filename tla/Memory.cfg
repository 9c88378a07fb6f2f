\* Two threads in at most two zones, with every choice of pages.  Words are
\* of two bytes, so an odd request is rounded up.  Three blocks of 2 words fill
\* a page, 8 words and a header fill one to its last word, 9 words need two.
\* The index in the zone's page has one slot, so a second large block needs an
\* overflow page.
\* Every heap of at most four objects with at most two slots each.
SPECIFICATION MemorySpec
CONSTANTS
  main = main
  worker = worker
  Threads = {main, worker}
  NumPages = 4
  PageWords = 10
  WordBytes = 2
  RequestBytes = {3, 16, 17}
  MaxZones = 2
  MaxObjects = 4
  MaxSlots = 2
SYMMETRY ThreadSymmetry
\* The model stops when the VM has no page left.
CHECK_DEADLOCK FALSE
INVARIANTS
  MemoryTypeOK
  BlocksDisjoint
  HeadersDescribeBlocks
  PagesAccountedFor
  SameGraph
  CopiesEachOnce
