SPECIFICATION FairSpec
CONSTANTS
  p1 = p1
  p2 = p2
  u1 = u1
  u2 = u2
  u3 = u3
  i1 = i1
  i2 = i2
  r1 = r1
  r2 = r2
  None = None
  Plans = {p1, p2}
  Users = {u1, u2}
  Invites = {}
  Requests = {r1, r2}
  MaxSeats = 1
  Kinds <- SeatKinds
INVARIANTS
  IInv
  NoLostUpdate
  SeatsCoverStaff
PROPERTIES
  LedgerKept
  Serializable
  EveryRequestEnds
