SPECIFICATION FairSpec
CONSTANTS
  address = address
  login = login
  r1 = r1
  r2 = r2
  u1 = u1
  s1 = s1
  None = None
  Keys = {address, login}
  Limit <- OneEach
  Window = 2
  Routes <- LoginRoutes
  Requests = {r1, r2}
  Failures <- LimiterFailures
  MaxLosses = 1
  Users = {u1}
  Streams = {s1}
  Writers = {}
  News = {}
  PoolSize = 1
  Troubles = {}
INVARIANTS
  AtMostTwice
PROPERTIES
  WindowsKept
  StartsAgain
