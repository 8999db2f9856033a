\* Liveness of wait4 and exit; at most two processes besides init ever exist.
CONSTANTS
  Task = {init, t1, t2}
  child_reaper = init
  NULL = NULL
  Builds <- ReapedBuilds
  Signalled = {t1}
SPECIFICATION FairSpec
PROPERTIES
  OrphansReaped
  ExitCompletes
CHECK_DEADLOCK FALSE
