\* The process tree on one processor, with threads, and on several processors.
\* Threads that wait for each other may stop.
CONSTANTS
  Task = {init, t1, t2, t3}
  child_reaper = init
  NULL = NULL
  Builds <- TreeBuilds
  Signalled = {t1}
SPECIFICATION Spec
INVARIANTS
  TypeOK
  LinksConsistent
  ReparentingComplete
  FoundStaysZombie
  NoMissedExit
PROPERTIES
  FreedAfterLastSwitch
CHECK_DEADLOCK FALSE
