SPECIFICATION FairSpec
CONSTANTS
  s1 = s1  s2 = s2
  p1 = p1  p2 = p2
  Sessions = {s1, s2}
  Positions = {p1, p2}
  Outputs = {1, 2}
  Refusals = FALSE
  MaxRequests = 5
  MaxSaves = 2
  MaxKills = 1
CHECK_DEADLOCK FALSE
INVARIANTS
  OutputMatchesRow
  ResultKept
  DebitPerResult
PROPERTY
  LaunchSettles
