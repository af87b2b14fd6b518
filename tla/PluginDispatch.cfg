SPECIFICATION Spec
CONSTANTS
  Modules = {m}
  Threads = {t1, t2}
  Sched = sched
  Main = main
  None = None
  Reloads = {m, None}
  MaxDepth = 2
  MaxPending = 1
SYMMETRY Symmetry
INVARIANTS
  CodeStaysMapped
  ReloadIsAlone
  DoorsReopen
  ListedServe
PROPERTY
  CallsKeepTheGate
CHECK_DEADLOCK FALSE
