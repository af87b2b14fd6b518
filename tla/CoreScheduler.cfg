SPECIFICATION FairSpec
CONSTANTS
  Slots = {s1, s2, s3}
  MaxIds = 2
  MaxThreads = 3
  ThreadSettings = {1}
  MaxPeriodic = 1
INVARIANTS
  NothingLostOrRepeated
PROPERTIES
  NothingBeginsAfterStop
  StopCompletes
  ReloadRuns
CHECK_DEADLOCK FALSE
