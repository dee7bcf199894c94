SPECIFICATION RunSpec
CONSTANTS
  callA = callA  callB = callB  callC = callC
  k1 = k1  k2 = k2  hello = hello  bye = bye  None = None
  Requests = {callA, callB, callC}
  Keys = {k1, k2}  KeyOf <- KeyPart  PrintOf <- PrintPart  ShapeOf <- PrintPart
  Direct = {}  Alias = {}  WithFile = {callA, callC}
  Reports = {}  Events = {"crash"}
  Lease = 1  Window = 1  SendLimit = 2  MediaLimit = 1
  PendingLife = 1  MaxTime = 2
INVARIANT AttemptIsBound
INVARIANT QuotaMatchesObjects
INVARIANT FilesAccounted
PROPERTY ImplementsSendOnce
CHECK_DEADLOCK FALSE
