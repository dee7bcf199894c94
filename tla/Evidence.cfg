SPECIFICATION RunSpec
CONSTANTS
  callA = callA  k1 = k1  None = None
  c1 = c1  c2 = c2  ann = ann  bob = bob  team = team
  Requests = {callA}  Keys = {k1}  KeyOf <- KeyOne  PrintOf <- PrintOne  ShapeOf <- PrintOne
  Direct = {}  Alias = {}  WithFile = {}
  Reports = {"accepted", "sent", "delivered", "read", "failed", "upsert"}
  Events = {"crash", "lost"}
  Lease = 2  Window = 1  SendLimit = 1  MediaLimit = 0  PendingLife = 2  MaxTime = 4
INVARIANT LateResultDropped
INVARIANT PurgedStaysPurged
INVARIANT ContentIsNeeded
INVARIANT AnswersCanBeTrusted
PROPERTY StatusProgresses
CHECK_DEADLOCK FALSE
