CONSTANTS
  o1 = o1
  o2 = o2
  o3 = o3
  d1 = d1
  d2 = d2
  f1 = f1
  f2 = f2
  f3 = f3
  int = int
  string = string
  k1 = k1
  k2 = k2
  k3 = k3
  k4 = k4
  k5 = k5
  nullptr = nullptr
  fifoSize = 4
  Modulus = 8
  Lengths <- MCLengths
  MaxBytes = 20
  SharedPtrs = {s1, s2, s3, s4}
  Blocks = {b1, b2}
  COUNT_SIZE = 8
  UniquePtrs = {u1, u2}
  Owned <- MCOwned
  Deleters <- MCDeleters
  DeleterOf <- MCDeleterOf
  NoPtr = NoPtr
  Places = {pl1, pl2}
  Functors <- MCFunctors
  sizeOf <- MCsizeOf
  BS = 1
  NoFunctor = NoFunctor
  Values = {x, y}
  NoValue = NoValue
  Variants = {va1, va2, va3}
  Ts <- MCTs
  NoVariant = NoVariant
  NoObject = NoObject
  Unusable = Unusable
  Raw = Raw
  MIN_CAPACITY = 4
  MaxSize = 9
  Keys <- MCKeys
  Hash <- MCHash
  MIN_SIZE = 1
  Getters = {t1, t2}
  Futures = {fu1, fu2}
  Internals = {in1, in2}
  NoFuture = NoFuture
  Lockers = {l1, l2, l3}
  Rounds = 2
  Producers = {p1, p2}
  Consumers = {c1, c2}
  Locks <- MCLocks
  MatrixSIZE = 2
  STEP = 2
  MOD = 3
  Numbers = {0, 1}
SPECIFICATION FairSpec
INVARIANTS
  RingExact StreamIntact SharedExactly OwnedOnce FunctorsHeldOnce
  VectorExact TableExact FailsOnlyAtFirst
PROPERTIES
  AllThrough ImplementsVariant ReallocationsApart GettersReturn NothingLost
CHECK_DEADLOCK FALSE
