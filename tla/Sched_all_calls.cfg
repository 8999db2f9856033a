\* Two processes, every system call and every kind of process.
CONSTANTS
  Task = {init, a}
  Idle = idle
  Reaper = init
  MAX_RT_PRIO = 2
  MAX_PRIO = 4
  HZ = 500
  UINT = 16
  MIN_TIMESLICE = 1
  MAX_TIMESLICE = 1
  Bonuses = {0, 1}
  DELTA <- MCDelta
  MAX_REQUESTED_TIME = 8
  MAX_TRIALS = 4
  Requests <- TinyAll
  Nices <- Raise
  Calls = {"sleep", "yield", "setscheduler", "nice", "fork", "exit", "wait"}
  AnyTarget = FALSE
SPECIFICATION Spec
INVARIANTS
  TypeOK
  NoOops
  ListsConsistent
  CountsConsistent
  RunnableIsQueued
  ClassPlacement
  SleepersCounted
PROPERTIES
  OverdueIsFinal
  DispatchByClass
CHECK_DEADLOCK FALSE
