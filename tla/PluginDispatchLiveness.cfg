SPECIFICATION FairSpec
CONSTANTS
  Modules = {m}
  Threads = {t1}
  Sched = sched
  Main = main
  None = None
  Reloads = {m}
  MaxDepth = 2
  MaxPending = 1
PROPERTIES
  LifecycleEnds
  CallsAnswered
CHECK_DEADLOCK FALSE
