---------------------------- MODULE MCAtomicStack ----------------------------
(* Threads that may each push and pop at any time, and a heap so small     *)
(* that addresses are soon used again.                                     *)
EXTENDS AtomicStack, TLC

CONSTANTS t1, t2, t3, v1, v2, a1, a2

ThreeThreads == {t1, t2, t3}
TwoValues    == {v1, v2}
TwoAddrs     == {a1, a2}

\* Threads, values and addresses are interchangeable.
Interchangeable == Permutations(ThreeThreads) \cup Permutations(TwoValues)
                   \cup Permutations(TwoAddrs)
=============================================================================
