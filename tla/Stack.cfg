CONSTANTS
  t1 = t1
  v1 = v1
  v2 = v2
  a1 = a1
  a2 = a2
  NoValue = NoValue
  nullptr = nullptr
  Threads <- OneThread
  Values <- TwoValues
  Addrs <- TwoAddrs
SPECIFICATION Spec
PROPERTIES PopYieldsItsNode
