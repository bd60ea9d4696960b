SPECIFICATION SpecAll
CONSTANTS
  num_masters = 2
  num_workers = 2
  total_items = 3
  max_buf_size = 2
  NoItem = NoItem
  NoOne = NoOne
  SemThreads = {0, 1, 2, 3}
  Sems = {0, 1, 2}
  Rounds = 3
  NULL = NULL
  Readers = {r1, r2}
  Writers = {w1, w2}
INVARIANTS ExactlyOnce AllDone NoUseAfterFree UnitsExact InTurn WritersFirst
 
CHECK_DEADLOCK FALSE
