------------------------------- MODULE HashMap -------------------------------
(***************************************************************************)
(* core2/container/HashMap.h: a hash table whose buckets hold iterators    *)
(* into one list of elements.  emplace_front makes the newest element the  *)
(* first, so a node of the list is named by its age: the name, like the    *)
(* iterator, survives insertions and rehashes.                             *)
(***************************************************************************)
EXTENDS Integers, Sequences, FiniteSets

CONSTANTS
  Keys, Values,
  Hash,         \* the hash of each key
  MIN_SIZE,
  NoValue       \* what get reports by throwing: the key is not there

HashMapAssumption ==
  /\ Hash \in [Keys -> Nat]
  /\ MIN_SIZE \in Nat \ {0}
  /\ NoValue \notin Values

VARIABLES
  elements,      \* <<key, value>> of each node, the oldest first
  bucketLists,   \* the nodes each bucket has iterators of
  map            \* history: what was last written for each key

vars == <<elements, bucketLists, map>>

Buckets(n) == 0 .. n - 1
bucketCount == Cardinality(DOMAIN bucketLists)

Init ==
  /\ elements = <<>>
  /\ bucketLists = [b \in Buckets(MIN_SIZE) |-> {}]
  /\ map = [k \in Keys |-> NoValue]

\* hashKey, in a table of n buckets
hashKey(k, n) == Hash[k] % n

Spread(n, modulus) ==
  [b \in Buckets(n) |->
     {i \in 1 .. Len(elements) : hashKey(elements[i][1], modulus) = b}]

\* faulty variant: the old number of buckets is still used
RehashedByOldSize(n) == Spread(n, n \div 2)

\* The hash of each element is taken after bucketLists was resized.
Rehashed(n) == Spread(n, n)

tryExpand ==
  IF Len(elements) >= bucketCount * 2 THEN Rehashed(bucketCount * 2)
                                      ELSE bucketLists

\* The nodes of key k that a search of its bucket finds.
Found(lists, k) ==
  {i \in lists[hashKey(k, Cardinality(DOMAIN lists))] : elements[i][1] = k}

\* insert: the table grows even if the key turns out to be there already.
Update(k, v) ==
  /\ \E i \in Found(tryExpand, k) : elements' = [elements EXCEPT ![i][2] = v]
  /\ bucketLists' = tryExpand
  /\ map' = [map EXCEPT ![k] = v]

Add(k, v) ==
  LET index == hashKey(k, Cardinality(DOMAIN tryExpand))
  IN  /\ Found(tryExpand, k) = {}
      /\ elements' = Append(elements, <<k, v>>)
      /\ bucketLists' = [tryExpand EXCEPT ![index] = @ \cup {Len(elements')}]
      /\ map' = [map EXCEPT ![k] = v]

\* get, its reference assigned to
Write(k, v) ==
  /\ \E i \in Found(bucketLists, k) : elements' = [elements EXCEPT ![i][2] = v]
  /\ map' = [map EXCEPT ![k] = v]
  /\ UNCHANGED bucketLists

Next == \E k \in Keys, v \in Values : Update(k, v) \/ Add(k, v) \/ Write(k, v)

Spec == Init /\ [][Next]_vars
-----------------------------------------------------------------------------
(* Properties *)

\* Before and after any rehash, get finds for every key what was last written
\* for it and throws for the others, iterating meets each key once, every node
\* is in one bucket, and buckets hold two elements each on average at most.
TableExact ==
  /\ \A k \in Keys :
       {elements[i][2] : i \in Found(bucketLists, k)} = {map[k]} \ {NoValue}
  /\ \A i, j \in 1 .. Len(elements) :
       elements[i][1] = elements[j][1] => i = j
  /\ \A i \in 1 .. Len(elements) :
       Cardinality({b \in DOMAIN bucketLists : i \in bucketLists[b]}) = 1
  /\ Len(elements) <= bucketCount * 2
=============================================================================
