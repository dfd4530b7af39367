---------------------------- MODULE MCComponents ----------------------------
(* Each component on a small instance of its own.                          *)
EXTENDS Components, Sequences, TLC

CONSTANTS o1, o2, o3, d1, d2, f1, f2, f3, int, string, k1, k2, k3, k4, k5

\* Fifo: one byte, more than one, more than the buffer holds.
MCLengths == {1, 3, 5}

\* UniquePtr: two objects with one deleter and one with another.
MCOwned     == {o1, o2, o3}
MCDeleters  == {d1, d2}
MCDeleterOf == o1 :> d1 @@ o2 :> d1 @@ o3 :> d2

\* Function: functors of two types that fit the buffer and one that does not.
MCFunctors == {f1, f2, f3}
MCsizeOf   == f1 :> 1 @@ f2 :> 1 @@ f3 :> 2

MCTs == <<int, string>>

\* HashMap: keys that collide in some of the sizes 1, 2, 4 and not in others.
MCKeys == {k1, k2, k3, k4, k5}
MCHash == k1 :> 0 @@ k2 :> 2 @@ k3 :> 3 @@ k4 :> 4 @@ k5 :> 7

\* bin/rwlock.cc: a ReaderWriterLock, then a mutex.
MCLocks == <<"shared", "exclusive">>
=============================================================================
