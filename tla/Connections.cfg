SPECIFICATION RunSpec
SYMMETRY Symmetry
CONSTANTS
  Checks = {c1}  Calls = {u1}  None = None  Bin = 1  HealthLease = 1  LifecycleLease = 1
  States = {"reconnect_required", "duplicates"}  Drift = TRUE  Repairs = {TRUE}  Prompt = FALSE
  MaxTime = 3  MaxChanges = 1  MaxCalls = 1  MaxFaults = 1  MaxIncidents = 0
  c1 = c1  c2 = c2  u1 = u1  n1 = n1  n2 = n2
INVARIANT OutagesAreDisclosed
PROPERTY KeepsNewer
PROPERTY ListFollows
CHECK_DEADLOCK FALSE
