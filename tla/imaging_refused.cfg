SPECIFICATION Spec
CONSTANTS
  s1 = s1  s2 = s2
  p1 = p1  p2 = p2
  Sessions = {s1, s2}
  Positions = {p1, p2}
  Outputs = {1, 2}
  Refusals = TRUE
  MaxRequests = 5
  MaxSaves = 2
  MaxKills = 1
INVARIANT OriginalReplaced
CHECK_DEADLOCK FALSE
