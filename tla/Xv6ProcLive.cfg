SPECIFICATION FairSpec
CONSTANTS
  NPROC = 3
  PrioCalls = {}
  DefaultPrio = 5
  MaxPid = 4
PROPERTIES RunnableRuns OrphansReaped
