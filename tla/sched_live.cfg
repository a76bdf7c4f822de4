SPECIFICATION FairSpec
CONSTANTS
  Definitions <- AnyJob
  MaxSchedules = 3
  MaxManual = 1
INVARIANTS
  OneScheduler
  RunsExclusive
  NextRunShown
PROPERTIES
  KeepsRunning
  DeletedJobEnds
CHECK_DEADLOCK FALSE
