\* A sleeping OTHER process is made SHORT.
CONSTANTS
  Task = {init, a}
  Idle = idle
  Reaper = init
  MAX_RT_PRIO = 2
  MAX_PRIO = 4
  HZ = 500
  UINT = 16
  MIN_TIMESLICE = 1
  MAX_TIMESLICE = 1
  Bonuses = {0}
  DELTA <- MCDelta
  MAX_REQUESTED_TIME = 8
  MAX_TRIALS = 4
  Requests <- ShortTiny
  Nices = {}
  Calls = {"setscheduler", "sleep", "fork"}
  AnyTarget = TRUE
SPECIFICATION Spec
PROPERTY
  WakeUpQueues
CHECK_DEADLOCK FALSE
