SPECIFICATION Spec
CONSTANTS
  j1 = j1  j2 = j2
  w1 = w1  w2 = w2
  s1 = s1  s2 = s2
  NoItem = NoItem
  NoJob = NoJob
  Jobs = {j1, j2}
  Items = {1}
  JobOf <- OneJob
  Workers = {w1, w2}
  Standalone = {}
  Sessions = {s1, s2}
  MaxAttempts = 2
  MaxLaunches = 3
  MaxCrashes = 1
SYMMETRY Symmetry
INVARIANT NoDoubleCharge
PROPERTY ImplementsLedger
CHECK_DEADLOCK FALSE
