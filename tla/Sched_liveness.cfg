\* Three processes, under the fairness of the timer and the kernel.
CONSTANTS
  Task = {init, a, b}
  Idle = idle
  Reaper = init
  MAX_RT_PRIO = 2
  MAX_PRIO = 4
  HZ = 500
  UINT = 16
  MIN_TIMESLICE = 1
  MAX_TIMESLICE = 1
  Bonuses = {0}
  DELTA <- MCDelta
  MAX_REQUESTED_TIME = 8
  MAX_TRIALS = 4
  Requests <- ShortTiny
  Nices = {}
  Calls = {"setscheduler", "fork", "yield", "sleep"}
  AnyTarget = FALSE
SPECIFICATION FairSpec
PROPERTIES
  ShortBecomesOverdue
  OtherRuns
CHECK_DEADLOCK FALSE
