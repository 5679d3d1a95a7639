SPECIFICATION Spec
CONSTANTS
  w1 = w1  w2 = w2  u1 = u1  u2 = u2  c1 = c1  r1 = r1
  Workers = {w1, w2}
  Users = {u1, u2}
  Clients = {c1}
  Requests = {r1}
  MaxCodes = 2
  MaxFamilies = 3
SYMMETRY Symmetry
CHECK_DEADLOCK FALSE
INVARIANTS
  CodeOnce
  OneLiveLine
PROPERTY
  RevocationFinal
