CONSTANTS
  t1 = t1
  t2 = t2
  t3 = t3
  v1 = v1
  v2 = v2
  NoValue = NoValue
  Empty = Empty
  Threads <- ThreeThreads
  Values <- TwoValues
  MaxNodes = 3
  NDEBUG = FALSE
SPECIFICATION FairSpec
INVARIANTS ChainExact
PROPERTIES ImplementsQueue CallsReturn
