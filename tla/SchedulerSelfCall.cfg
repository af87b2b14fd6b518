SPECIFICATION Spec
CONSTANTS
  Slots = {s1, s2, s3, s4}
  MaxIds = 3
  MaxThreads = 3
  ThreadSettings = {1, 2}
  MaxSchedules = 2
  SelfCalls = TRUE
SYMMETRY Symmetry
INVARIANTS
  ReloadWaitsForNoCaller
CHECK_DEADLOCK FALSE
