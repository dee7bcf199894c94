SPECIFICATION RunSpec
CONSTANTS
  Elements <- AllElements
  m1 = m1  m2 = m2  Items = {m1, m2}
  N = 1  ItemsOf <- OneDelivery  Poison = {}  Replayable = {1}
  Events = {"duplicate", "deletion"}  Copies = {1, 2}
  MaxRetries = 1  PageSize = 1  Grace = 1  Expiry = 2
  LastArrival = 1  MaxTime = 2
INVARIANT ItemOnce
INVARIANT GapReachesReceipt
INVARIANT FalseGapOnlyAfterExpiry
INVARIANT ItemsAreTheEvents
CHECK_DEADLOCK FALSE
