SPECIFICATION RunSpec
CONSTANTS
  Limit = 4  Declared <- Sizes  Served <- Files
  MetadataLimit = 2  DownloadLimit = 3  MaxRedirects = 3  Crashes = 1
  Environment = prod  RootKey = root
  m1 = m1  m2 = m2  a1 = a1  a2 = a2  c1 = c1  c2 = c2
  w1 = w1  w2 = w2  t1 = t1  t2 = t2
INVARIANT BytesWithinLimit
INVARIANT ReadyIsWhole
INVARIANT MediaAccounted
INVARIANT OnlyWholeFiles
PROPERTY ContentIsLatest
CHECK_DEADLOCK FALSE
