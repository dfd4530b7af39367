---------------------------- MODULE MCAtomicQueue ----------------------------
(* Threads that may each push and pop at any time, in any order.           *)
EXTENDS AtomicQueue

CONSTANTS t1, t2, t3, v1, v2

TwoThreads   == {t1, t2}
ThreeThreads == {t1, t2, t3}
TwoValues    == {v1, v2}
=============================================================================
