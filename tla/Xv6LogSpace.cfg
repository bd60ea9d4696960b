SPECIFICATION LiveSpec
CONSTANTS
  Procs = {p1, p2, p3}
  Blocks = {b1, b2, b3, b4, b5}
  Vals = {v1}
  NoBuf = NoBuf
  NoBlock = NoBlock
  MAXOPBLOCKS = 2
  LOGSIZE = 4
  nlog = 4
  NBUF = 4
  OpBlocks = 1
INVARIANTS  NoLostWakeup
PROPERTY SleepersWoken
CHECK_DEADLOCK FALSE
