SPECIFICATION DevSpec
CONSTANTS
  Procs = {p1, p2}
  Blocks = {b1, b2, b3}
  Written = {b1, b2}
  Vals = {v1, v2}
  NBUF = 2
  MaxDirty = 1
  NoProc = NoProc
  NoBlock = NoBlock
  NoData = NoData
  Chars = {"x", "nl", "^D"}
  INPUT_BUF = 2
  Wrap = 4
  MaxRead = 2
  MaxKeys = 4
INVARIANT SleepersAwaited
PROPERTIES ImplementsStore ImplementsLines RequestsReturn
CHECK_DEADLOCK FALSE
