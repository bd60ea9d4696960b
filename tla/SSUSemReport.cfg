INIT InitPrinting
NEXT Next
CONSTANTS
  Threads = {0, 1, 2}
  Sems = {0, 1, 2}
  NULL = NULL
  Rounds = 3
INVARIANT Reported
CHECK_DEADLOCK FALSE
