SPECIFICATION FairSpec
CONSTANTS
  j1 = j1  j2 = j2
  w1 = w1  w2 = w2
  s1 = s1  s2 = s2
  NoItem = NoItem
  NoJob = NoJob
  Jobs = {j1}
  Items = {1, 2}
  JobOf <- OneJob
  Workers = {w1, w2}
  Standalone = {}
  Sessions = {s1}
  MaxAttempts = 2
  MaxLaunches = 2
  MaxCrashes = 0
INVARIANTS
  ExclusiveClaim
  NoOrphanPending
  RollupOwed
PROPERTIES
  AppliedIsFinal
  JobsSettle
CHECK_DEADLOCK FALSE
