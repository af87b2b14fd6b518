SPECIFICATION FairSpec
CONSTANTS
  Subs = {a}
  Loggers = {t1, t2}
  None = None
  MaxLines = 2
  QueueLimit = 1
PROPERTIES
  ManagerReturns
  EveryLineDone
  WorkerEnds
