CONSTANTS
  r1 = r1
  r2 = r2
  w1 = w1
  rw = rw
  Readers <- MCReaders
  Writers <- MCWriters
  HEADCOUNT = 4
  MaxOvertakes = 2
SPECIFICATION FairSpec
INVARIANTS TypeOK CountersExact BoundedBypass BalancedWakesReadersFirst
PROPERTIES ImplementsRWLock SomeoneGetsIn WritersProgress
