INIT TillinInit
NEXT TillinNext
CONSTANTS
  t1 = t1  t2 = t2
  k1 = k1  k2 = k2
  member = member  operator = operator  support = support
  Members = {member}
  Admins = {operator, support}
  Companies = {k1, k2}
  MaxJobs = 1
  MaxLinks = 1
  MaxSwitches = 2
  Clients = {"mine", "theirs", "polling"}
  ProcessOf <- TwoProcesses
  Tasks = {t1, t2}
  MaxSaves = 2
  MaxFaults = 1
  Editors = {1, 2}
  Opening = 2
  MaxImages = 4
  MaxRequests = 3
  MaxFailures = 1
INVARIANTS
  JobReadsItsCompany
  UploadReachesItsCompany
  SitesSeen
  NoPictureLost
  OrderAsAsked
SYMMETRY Symmetry
CHECK_DEADLOCK FALSE
