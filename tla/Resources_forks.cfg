\* Forks that share, copy and fail; exec, daemonize and lazy TLB mode.
CONSTANTS
  Task = {swapper, init, a, b}
  swapper = swapper
  child_reaper = init
  NULL = NULL
  Obj = {o0, o1, o2, o3, o4, o5, o6, o7}
  init_obj = o0
  Builds <- AllBuilds
SPECIFICATION Spec
INVARIANTS
  TypeOK
  RefsCounted
  MMCounted
  ActiveMM
PROPERTIES
  VforkWaits
