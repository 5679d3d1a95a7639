SPECIFICATION Spec
CONSTANTS
  p1 = p1
  p2 = p2
  p3 = p3
  Pages <- McPages
  SiteOf <- McSiteOf
  NSites = 2
  Queries = 1
  SearchGets = 2
  PageGets = 2
  WebSites = 2
  WebExtracts = 2
  MaxAttempts = 2
  MaxReviews = 1
  MaxRetries = 1
  Worlds <- McWorlds
  Configs <- McConfigs
  NoPage = nopage
  Catalogue = catalogue
  Earlier = earlier
CHECK_DEADLOCK FALSE
INVARIANTS
  ResolvedIsVerified
  OneSource
  PaidBounded
