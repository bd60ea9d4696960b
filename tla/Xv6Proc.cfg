SPECIFICATION Spec
CONSTANTS
  NPROC = 4
  PrioCalls <- UpAndDown
  DefaultPrio = 5
  MaxPid = 4
INVARIANTS OneRunning LiveParent WaitSleepsRightly KilledAwake
PROPERTY HighestFirst
