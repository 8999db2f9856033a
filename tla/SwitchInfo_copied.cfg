\* The array and the count that are copied to the user.
CONSTANTS
  Pid = {0, 1, 2}
  SWITCH_INFO_ARRAY_SIZE = 3
  BURST = 4
  MaxJiffies = 0
  MinRemaining <- MCMinRemaining
SPECIFICATION Spec
INVARIANT
  CountedEntriesAreRecords
CHECK_DEADLOCK FALSE
