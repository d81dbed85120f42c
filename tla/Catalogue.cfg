SPECIFICATION CastSpec
CONSTANTS
  b1 = b1
  b2 = b2
  m1 = m1
  p1 = p1
  p2 = p2
  c1 = c1
  c2 = c2
  e1 = e1
  e2 = e2
  w1 = w1
  h1 = h1
  h2 = h2
  None = None
  Benefits = {b1, b2}
  Merchants = {m1}
  Companies = {c1, c2}
  Plans = {p1, p2}
  MerchantOf <- MCMerchantOf
  CompanyOf <- MCCompanyOf
  Title <- MCTitle
  Category <- MCCategory
  Employees <- MCEmployees
  MaxTime = 1
  Edits = {e1, e2}
  Payloads <- MCPayloads
  Walks = {w1}
  PageSize = 1
  Assistants = {h1, h2}
  CatalogLimit = 2
  TopCount = 1
  MaxNamed = 2
  PoolSize = 2
INVARIANTS
  OneOfferPerPlan
  VisibleIsRedeemable
  NoMiss
  RecommendedEligible
PROPERTIES
  OrderKept
  OnlyAsAsked
  EveryRequestEnds
CHECK_DEADLOCK FALSE
