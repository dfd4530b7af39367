CONSTANTS
  BIT_PER_CACHE_LINE = 3
  bitMapRange = 2
  HEADER = 2
  CHUNK_SIZE = 8
  Places = 2
SPECIFICATION Spec
INVARIANTS GrantsExact SummariesAgree
PROPERTIES GrowsOnlyWhenFull
CHECK_DEADLOCK FALSE
