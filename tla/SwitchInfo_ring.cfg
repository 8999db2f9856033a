\* The ring against the log of switches.
CONSTANTS
  Pid = {0, 1, 2}
  SWITCH_INFO_ARRAY_SIZE = 3
  BURST = 4
  MaxJiffies = 1
  MinRemaining <- MCMinRemaining
SPECIFICATION Spec
INVARIANTS
  TypeOK
PROPERTIES
  ImplementsLog
  ExitIsRecorded
CHECK_DEADLOCK FALSE
