SPECIFICATION RunSpec
CONSTANTS
  Connections = {c1}  Files = {c1}  PendingMedia = {}  Requests = {r1}
  Kinds = {"connection", "account"}  MaxTime = 1  Failures = 1  Restores = 1  Faults = {}
  c1 = c1  r1 = r1  r2r = r2r  u1 = u1  u2 = u2  i1 = i1  i2 = i2  i3 = i3
  k1 = k1  k2 = k2  k3 = k3  s1 = s1  s2 = s2  t1 = t1  t2 = t2  a = a  b = b
  o1 = o1  o2 = o2  o3 = o3  o4 = o4  weekly = weekly  quarterly = quarterly  None = None
INVARIANT NoResurrection
INVARIANT DrillsAreEarned
PROPERTY AccountsAreWhole
CHECK_DEADLOCK FALSE
