SPECIFICATION Spec
CONSTANTS
  r1 = r1
  r2 = r2
  s1 = s1
  s2 = s2
  c1 = c1
  Choices <- OneChoice
  Refs <- TwoRefs
  Sessions <- OneSession
  MaxItems = 2
  MaxRuns = 2
  MaxSends = 2
  MaxReopened = 1
  MaxFaults = 1
SYMMETRY Symmetry
CHECK_DEADLOCK FALSE
INVARIANTS
  ChargeMatchesRows
  SentRowsAccounted
  CopiesAccounted
