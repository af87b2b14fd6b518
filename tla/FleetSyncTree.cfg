SPECIFICATION Spec
CONSTANTS
  s1 = s1
  s2 = s2
  s3 = s3
  c1 = c1
  c2 = c2
  States = {s1, s2, s3}
  Contents = {c1, c2}
  ContentOf <- MCContentOf
  WithScripts = {c1}
  Files = {f1, f2}
  None = None
  Unreadable = Unreadable
  MaxCrashes = 2
  MaxFails = 1
INVARIANT
  TreeSurvivesCrash
