------------------------- MODULE MCReaderWriterLock -------------------------
(* Two threads that only read, one that only writes, one that does both.   *)
EXTENDS ReaderWriterLock

CONSTANTS r1, r2, w1, rw

MCReaders == {r1, r2, rw}
MCWriters == {w1, rw}
=============================================================================
