SPECIFICATION FairSpec
CONSTANTS
  Digests = {d1, d2, empty}
  Empty = empty
  None = None
  Hour = 2
  Day = 3
  Holds = {0, 1}
  Docs = {d1, d2}
  MaxFaults = 2
INVARIANTS
  TwiceInAStep
  ThreeUnconfirmed
  TroubledTurnsSendNothing
PROPERTY
  EventuallyHeld
