\* Two processors, under fairness.
CONSTANTS
  CPU <- Processors
  Task = {a, b, d}
  idle <- MCidle
  migration <- MCmigration
  idle0 = idle0
  idle1 = idle1
  migration0 = migration0
  migration1 = migration1
  NULL = NULL
  Builds <- AllBuilds
SPECIFICATION FairSpec
INVARIANTS
  TypeOK
  QueuesConsistent
  RunsOnce
  AffinityKept
  NoDeadlock
  IdleIsTold
PROPERTIES
  MigrationCompletes
