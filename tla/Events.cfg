SPECIFICATION FairSpec
CONSTANTS
  u1 = u1
  u2 = u2
  s1 = s1
  s2 = s2
  w1 = w1
  n1 = n1
  None = None
  Users = {u1, u2}
  Streams = {s1, s2}
  Writers = {w1}
  News = {n1}
  PoolSize = 2
  Troubles <- AllTroubles
INVARIANTS
  TicketOnce
  NewsArrive
PROPERTIES
  StreamsEnd
