CONSTANTS
  Rounders = {r1, r2}
  Sets = {agent, os}
  Agent = agent
  Caps = {2, 3}
  DefaultMaxSize = 3
  Lists = {facts, metrics}
  Facts = facts
  MaxId = 2
  MaxLoaded = 1
  MaxRounds = 2
  Core = Core
  None = None
  Sizes <- MCSizes
  Owners <- MCOwners
SPECIFICATION Spec
SYMMETRY Symmetry
CHECK_DEADLOCK FALSE
INVARIANTS
  SnapshotWhole
  BooksBalance
  FactsGoWithModule
  EveryRoundReachesLoaded
PROPERTY
  RoundsKeepTheGate
