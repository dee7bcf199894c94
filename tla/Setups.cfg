SPECIFICATION RunSpec
SYMMETRY Symmetry
CONSTANTS
  Tabs = {t1, t2, t3}  Phones = {asked, other, hidden}  Asked = asked  Hidden = hidden
  Expires = 1  MaxTime = 1  Failures = 1
  t1 = t1  t2 = t2  t3 = t3  asked = asked  other = other  hidden = hidden
  k1 = k1  k2 = k2  n1 = n1  m1 = m1  None = None  p1 = p1  p2 = p2  q1 = q1  q2 = q2
INVARIANT OneConnection
INVARIANT VerifiedNumber
INVARIANT SessionsAccounted
INVARIANT PageFollowsSetup
INVARIANT ControlIsTruthful
CHECK_DEADLOCK FALSE
