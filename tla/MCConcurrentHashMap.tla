------------------------- MODULE MCConcurrentHashMap -------------------------
(* Two keys that collide in tables of one and of two buckets, and not in a *)
(* table of four, so that a rehash moves one entry and leaves another.     *)
EXTENDS ConcurrentHashMap, TLC

CONSTANTS t1, t2, t3, k1, k2, v1, v2

ThreeThreads == {t1, t2, t3}
OneKey       == {k1}
TwoKeys      == {k1, k2}
OneValue     == {v1}
TwoValues    == {v1, v2}

HashOfOne == k1 :> 0
HashOfTwo == (k1 :> 0) @@ (k2 :> 2)

Interchangeable == Permutations(ThreeThreads) \cup Permutations(TwoValues)
=============================================================================
