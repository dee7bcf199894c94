SPECIFICATION FairSpec
CONSTANTS
  Keys = {k1, k2}  Slots = {s1}  Messages = {}  None = None  PerMs = 1  Retention = 9
  MaxTime = 2  MaxTransitions = 2  MaxFaults = 1  MaxRestores = 1
PROPERTY JournalReapplied
CHECK_DEADLOCK FALSE
