SPECIFICATION MCSpec
CONSTANTS
  c = c
  m = m
  g = g
  u = u
  s = s
  b = b
  a = a
  v = v
  i = i
  k = k
  r1 = r1
  p1 = p1
  r2 = r2
  p2 = p2
  l = l
  w = w
  z = z
  d1 = d1
  d2 = d2
  n1 = n1
  n2 = n2
  q1 = q1
  None = None
  Rows = {c, m, g, u, s, b, a, v, i, k, r1, p1, r2, p2, l, w, z}
  Table <- MCTable
  Born <- MCBorn
  Email <- MCEmail
  Standing = {c, m, g, u, s, b, a}
  Batches <- MCBatches
  Deletions = {d1, d2}
  Imports = {n1, n2}
  Sheet <- MCSheet
  Readers = {q1}
  Headings = {1, 2}
  CompanyTop = 1
  MerchantTop = 1
INVARIANTS
  AccountsFollow
CHECK_DEADLOCK FALSE
