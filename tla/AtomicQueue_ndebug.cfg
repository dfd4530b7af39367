CONSTANTS
  t1 = t1
  t2 = t2
  t3 = t3
  v1 = v1
  v2 = v2
  NoValue = NoValue
  Empty = Empty
  Threads <- TwoThreads
  Values <- TwoValues
  MaxNodes = 4
  NDEBUG = TRUE
SPECIFICATION FairSpec
PROPERTIES CallsReturn
