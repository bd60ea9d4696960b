SPECIFICATION Spec
CONSTANTS
  Procs = {p1, p2}
  NoProc = NoProc
  Names = {"a", "d"}
  Ops <- MCOps
  Links <- MCLinks
  ninodes = 4
  nblocks = 8
  NINODE = 4
  RootFiles <- MCRootFiles
  OldDirs <- MCOldDirs
  MaxCalls = 3
SYMMETRY Symmetry
INVARIANTS DurableLinks BlocksOwnedOnce HeldInodesLive 
CHECK_DEADLOCK FALSE
