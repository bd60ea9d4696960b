SPECIFICATION FairSpec
CONSTANTS
  MAXARGS = 3
  Lines <- MCLines
  XLines <- MCXLines
  SLines <- MCSLines
  NPROC = 6
  NFILE = 5
  NOFILE = 6
  NPIPE = 2
  PIPESIZE = 2
  WRAP = 4
  Bytes <- MCBytes
  Files = {"f"}
  KillLines <- MCKillLines
INVARIANTS PrintsItsMeaning RefsExact ParsesTheGrammar
PROPERTY LineEnds
CHECK_DEADLOCK FALSE
