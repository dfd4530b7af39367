CONSTANTS
  t1 = t1
  t2 = t2
  t3 = t3
  k1 = k1
  k2 = k2
  v1 = v1
  v2 = v2
  NoValue = NoValue
  NoOp = NoOp
  Threads <- ThreeThreads
  Keys <- OneKey
  Values <- OneValue
  Hash <- HashOfOne
  SizeModulus = 8
  MaxCalls = 4
SPECIFICATION FairSpec
PROPERTIES CallsReturn
CHECK_DEADLOCK FALSE
