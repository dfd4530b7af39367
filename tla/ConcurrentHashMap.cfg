CONSTANTS
  t1 = t1
  t2 = t2
  t3 = t3
  k1 = k1
  k2 = k2
  v1 = v1
  v2 = v2
  NoValue = NoValue
  NoOp = NoOp
  Threads <- ThreeThreads
  Keys <- TwoKeys
  Values <- TwoValues
  Hash <- HashOfTwo
  SizeModulus = 8
  MaxCalls = 5
SYMMETRY Interchangeable
SPECIFICATION Spec
INVARIANTS RehashExact SizeAccounted
PROPERTIES ImplementsMap
CHECK_DEADLOCK FALSE
