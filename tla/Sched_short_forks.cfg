\* Three processes fork, yield, sleep and turn SHORT, with slices of two ticks.
CONSTANTS
  Task = {init, a, b}
  Idle = idle
  Reaper = init
  MAX_RT_PRIO = 2
  MAX_PRIO = 4
  HZ = 500
  UINT = 16
  MIN_TIMESLICE = 1
  MAX_TIMESLICE = 2
  Bonuses = {0}
  DELTA <- MCDelta
  MAX_REQUESTED_TIME = 8
  MAX_TRIALS = 4
  Requests <- ShortOnly
  Nices = {}
  Calls = {"sleep", "setscheduler", "fork", "yield"}
  AnyTarget = FALSE
SPECIFICATION Spec
INVARIANTS
  SliceWithinTrial
PROPERTIES
  ForkSharesBudget
CHECK_DEADLOCK FALSE
