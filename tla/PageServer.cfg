CONSTANTS
  daemon = daemon
  t1 = t1
  t2 = t2
  Threads <- DaemonAndTwo
  Daemon <- daemon
  CHUNK_SIZE = 3
  FLOOR = 6
  SPACE = 13
  QUEUE_SIZE = 2
  MaxHeld = 1
SYMMETRY Interchangeable
SPECIFICATION Spec
INVARIANTS PagesExact
