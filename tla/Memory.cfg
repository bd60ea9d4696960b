SPECIFICATION Spec
CONSTANTS
  Procs = {p1, p2, p3}
  initproc = p1
  NPAGES = 20
  PGSIZE = 2
  NPTENTRIES = 2
  NUPD = 3
  NKPT = 1
  Grow = {1, 3, 9}
  Shrink = {1, 2, 3, 9}
  MaxCalls = 5
  NULL = NULL
  MINALLOC = 2
  AllocPage = 8
  AllocSizes = {1, 2, 4, 6, 8}
  GARBAGE = GARBAGE
  EAllocPage = 6
  PAGEMAX = 2
  EAllocSizes = {2, 4, 6, 8}
  HeaderSize = 2
  CORE = 4
  Limit = 12
  MallocSizes = {2, 5}
INVARIANTS Sound Owners PagesExact AcceptedMapped
  
CHECK_DEADLOCK FALSE
