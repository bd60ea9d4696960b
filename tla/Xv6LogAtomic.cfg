SPECIFICATION Spec
CONSTANTS
  Procs = {p1, p2, p3}
  Blocks = {b1, b2}
  Vals = {v1, v2}
  NoBuf = NoBuf
  NoBlock = NoBlock
  MAXOPBLOCKS = 2
  LOGSIZE = 4
  nlog = 5
  NBUF = 5
  OpBlocks = 2
INVARIANT CommitAlone
PROPERTY Atomicity
SYMMETRY SymmProcs
