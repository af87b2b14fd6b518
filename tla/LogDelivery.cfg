SPECIFICATION Spec
CONSTANTS
  Subs = {a, b}
  Loggers = {t1}
  None = None
  MaxLines = 3
  QueueLimit = 2
SYMMETRY Symmetry
INVARIANTS
  TypeOK
  LinesAccounted
  InOrderOnce
  MirrorHolds
  SubscriptionMatchesFate
  FlushHandsOut
PROPERTY
  HandlersKeepTheGate
