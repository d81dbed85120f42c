SPECIFICATION Spec
CONSTANTS
  k1 = k1
  k2 = k2
  k3 = k3
  t1 = t1
  t2 = t2
  r1 = r1
  r2 = r2
  None = None
  Tokens = {k1, k2, k3}
  Tabs = {t1, t2}
  Requests = {r1, r2}
  Kinds <- QuietKinds
SYMMETRY TokenSymmetry
INVARIANTS
  RefusedAgain
