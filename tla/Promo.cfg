SPECIFICATION CastSpec
CONSTANTS
  p1 = p1
  b1 = b1
  b2 = b2
  e1 = e1
  e2 = e2
  s1 = s1
  s2 = s2
  v1 = v1
  v2 = v2
  c1 = c1
  c2 = c2
  r1 = r1
  r2 = r2
  None = None
  Plans = {p1}
  Benefits = {b1, b2}
  Employees = {e1, e2}
  Staff = {s1, s2}
  Vouchers = {v1, v2}
  Codes = {c1, c2}
  MaxLimit = 1
  Requests = {r1, r2}
  MaxAttempts = 2
  Tills = 2
  Kinds <- AllKinds
INVARIANTS
  IInv
  CodesUnique
  ConfirmedByStaff
PROPERTIES
  LimitsKept
  ClosedIssuesNothing
  Serializable
  EveryRequestEnds
