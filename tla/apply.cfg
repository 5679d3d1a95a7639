SPECIFICATION Spec
CONSTANTS
  i1 = i1
  i2 = i2
  s1 = s1
  s2 = s2
  Images <- TwoImages
  Sessions <- OneSession
  MaxAssets = 2
  MaxVersions = 2
  MaxAsked = 1
  MaxFaults = 1
SYMMETRY Symmetry
CHECK_DEADLOCK FALSE
INVARIANTS
  NoDuplicateImage
  NoDanglingEntry
  AppliedReached
  NoLostImage
