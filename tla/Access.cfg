SPECIFICATION RunSpec
CONSTANTS
  Keys = {k1, k2}  Names = {n1}  Connections = {c1}  Requests = {r1}  Calls = {q1}
  Limit = 1  Retention = 1  Expiries <- Once  MaxTime = 2  Restores = 1  Overlap = FALSE
  k1 = k1  k2 = k2  n1 = n1  n2 = n2  c1 = c1  c2 = c2  r1 = r1  r2 = r2  q1 = q1
  d1 = d1  d2 = d2  u1 = u1  u2 = u2  key = key  authorization = authorization
INVARIANT ActiveLimit
INVARIANT NoRevival
PROPERTY GrantsEndOnce
PROPERTY ReadsAreBounded
CHECK_DEADLOCK FALSE
