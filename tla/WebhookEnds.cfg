SPECIFICATION EndsSpec
CONSTANTS
  Elements <- AllElements
  m1 = m1  m2 = m2  Items = {m1, m2}
  N = 2  ItemsOf <- Twice  Poison = {}  Replayable = {}
  Events = {"sweep"}  Copies = {1}
  MaxRetries = 0  PageSize = 1  Grace = 1  Expiry = 2
  LastArrival = 0  MaxTime = 1
INVARIANT NotStranded
PROPERTY Settled
CHECK_DEADLOCK FALSE
