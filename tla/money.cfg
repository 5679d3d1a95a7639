INIT MoneyInit
NEXT MoneyNext
CONSTANTS
  r1 = r1  w1 = w1  w2 = w2
  s1 = s1  s2 = s2
  Requests = {r1}
  Workers = {w1, w2}
  Sheets = {s1, s2}
  Images = 2
  Price <- DearImages
  FreeCredits = 1
  Opening = 0
  Adjustments <- Withdrawal
  MaxMonth = 2
  MaxAttempts = 2
  MaxRuns = 2
  MaxAdjust = 1
  MaxKills = 1
  a1 = a1  a2 = a2  common = common
  v1 = v1  v2 = v2
  exact = exact  any = any
  Accounts = {a1, a2}
  Oldest = a1
  Common = common
  Servers = {v1, v2}
  ThisModel = exact
  AnyModel = any
  Units = {1, 2}
  BillingDays = {1, 2}
  Coefficients = {1, 2}
  MaxDay = 2
  MaxRequests = 4
  MaxId = 3
SYMMETRY Symmetry
CHECK_DEADLOCK FALSE
INVARIANTS
  GrantOnce
  DebitWithWork
  ImagesOverdrawBound
  PolicyUniform
PROPERTIES
  FrozenBillStable
  FreezeExact
