SPECIFICATION FairSpec
CONSTANTS
  Slots = {s1, s2, s3}
  MaxIds = 2
  MaxThreads = 3
  ThreadSettings = {1}
  MaxSchedules = 1
  SelfCalls = FALSE
PROPERTIES
  StopReturns
