CONSTANTS
  t1 = t1
  t2 = t2
  t3 = t3
  v1 = v1
  v2 = v2
  a1 = a1
  a2 = a2
  NoValue = NoValue
  Empty = Empty
  nullptr = nullptr
  Garbage = Garbage
  Threads <- ThreeThreads
  Values <- TwoValues
  Addrs <- TwoAddrs
  MaxPops = 3
SYMMETRY Interchangeable
SPECIFICATION Spec
INVARIANTS NodesExact StaleReadsLose
PROPERTIES ImplementsStack
