SPECIFICATION RunSpec
CONSTANTS
  Requests = {callA}  Keys = {k1}  KeyOf <- KeyOne  PrintOf <- PrintOne  ShapeOf <- PrintOne
  Direct = {}  Alias = {}  WithFile = {callA}  Reports = {}
  Events = {"crash", "lost"}
  Lease = 2  Window = 1  SendLimit = 2  MediaLimit = 1  PendingLife = 2  MaxTime = 4
  None = None  callA = callA  k1 = k1  c1 = c1  d1 = d1  w1 = w1  w2 = w2  n1 = n1  o1 = o1
  t1 = t1  t2 = t2  asked = asked  other = other  hidden = hidden  x1 = x1  x2 = x2  z1 = z1
PROPERTY WorkIsFinished
CHECK_DEADLOCK FALSE
