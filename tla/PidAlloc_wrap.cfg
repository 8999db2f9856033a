\* Ids 1 to 5, of which 2 to 5 are handed out again, for init and two processes.
CONSTANTS
  Task = {init, t1, t2}
  child_reaper = init
  NULL = NULL
  RESERVED = 2
  PID_MAX = 6
SPECIFICATION Spec
INVARIANTS
  TypeOK
PROPERTIES
  FreshPid
