SPECIFICATION RunSpec
SYMMETRY Symmetry
CONSTANTS
  Keys = {k1, k2}  Slots = {s1}  Messages = {msg}  None = None  PerMs = 2  Retention = 9
  MaxTime = 5  MaxTransitions = 2  MaxFaults = 1  MaxRestores = 0
  k1 = k1  k2 = k2  s1 = s1  s2 = s2  msg = msg  r1 = r1  r2 = r2
  e1 = e1  e2 = e2  e3 = e3  e4 = e4
INVARIANT AnswerIsJournaled
PROPERTY NothingFromBefore
PROPERTY RulesSurvive
PROPERTY DirectoryFollows
CHECK_DEADLOCK FALSE
