------------------------------- MODULE Vector -------------------------------
(***************************************************************************)
(* core2/container/Vector.h: a growing and shrinking array.  The memory is *)
(* a function from indices to elements, Raw where no element lives, and    *)
(* allocate and deallocate are told how long it is.  The code assigns to   *)
(* raw memory; the elements are of a type for which that makes an object.  *)
(***************************************************************************)
EXTENDS Integers

CONSTANTS
  Values,
  Raw,            \* memory without an object in it
  MIN_CAPACITY,
  MaxSize         \* bound: the caller pushes no further

VectorAssumption ==
  /\ Raw \notin Values
  /\ MIN_CAPACITY \in Nat \ {0} /\ MIN_CAPACITY % 2 = 0
  /\ MaxSize \in Nat

VARIABLES
  data, capacity, size,   \* capacity is 0 while there is no vector
  contents,    \* history: what the caller pushed, wrote and did not pop
  since,       \* history: calls since the last reallocation, capacity at most
  given        \* history: the length deallocate was told last

vars == <<data, capacity, size, contents, since, given>>

Block(n) == 0 .. n - 1
Fresh(n) == [i \in Block(n) |-> Raw]

Init ==
  /\ data = Fresh(0) /\ capacity = 0 /\ size = 0
  /\ contents = Fresh(0) /\ since = 0 /\ given = 0

Construct ==
  /\ capacity = 0
  /\ capacity' = MIN_CAPACITY /\ data' = Fresh(MIN_CAPACITY)
  /\ UNCHANGED <<size, contents, since, given>>

\* faulty variant: the last element is not copied
ReallocatedShort(n) ==
  [i \in Block(n) |-> IF i < size - 1 THEN data[i] ELSE Raw]

\* The elements copied, or moved, to new memory of length n.
Reallocated(n) == [i \in Block(n) |-> IF i < size THEN data[i] ELSE Raw]

\* One more call without a reallocation.
Longer == IF since < capacity THEN since + 1 ELSE since

\* What tryExpand tells deallocate: the size is the old capacity.
ToldByExpand == size

\* The memory after tryExpand
tryExpand == IF size = capacity THEN Reallocated(capacity * 2) ELSE data

\* tryExpand, and the store of the new element behind the others
PushBack(v) ==
  LET full == size = capacity
  IN  /\ 0 < capacity /\ size < MaxSize
      /\ capacity' = IF full THEN capacity * 2 ELSE capacity
      /\ data' = [tryExpand EXCEPT ![size] = v]
      /\ size' = size + 1
      /\ contents' = [i \in 0 .. size |-> IF i = size THEN v ELSE contents[i]]
      /\ since' = IF full THEN 0 ELSE Longer
      /\ given' = IF full THEN ToldByExpand ELSE given

\* operator[], its reference assigned to
Write(i, v) ==
  /\ i < size
  /\ data' = [data EXCEPT ![i] = v]
  /\ contents' = [contents EXCEPT ![i] = v]
  /\ UNCHANGED <<capacity, size, since, given>>

\* faulty variant: the vector shrinks as soon as it is half full
ShrinksAtHalf == size * 2 = capacity /\ capacity > MIN_CAPACITY

Shrinks == size * 4 = capacity /\ capacity > MIN_CAPACITY

ToldByShrink == capacity

\* The memory after tryShrink
tryShrink == IF Shrinks THEN Reallocated(capacity \div 2) ELSE data

\* tryShrink, and the destruction of the last element
PopBack ==
  /\ size > 0
  /\ capacity' = IF Shrinks THEN capacity \div 2 ELSE capacity
  /\ data' = [tryShrink EXCEPT ![size - 1] = Raw]
  /\ size' = size - 1
  /\ contents' = [i \in Block(size - 1) |-> contents[i]]
  /\ since' = IF Shrinks THEN 0 ELSE Longer
  /\ given' = IF Shrinks THEN ToldByShrink ELSE given

Destroy ==
  /\ 0 < capacity
  /\ data' = Fresh(0) /\ capacity' = 0 /\ size' = 0
  /\ contents' = Fresh(0) /\ since' = 0 /\ given' = capacity

Next ==
  \/ Construct \/ PopBack \/ Destroy
  \/ \E v \in Values : PushBack(v) \/ \E i \in Block(size) : Write(i, v)

Spec == Init /\ [][Next]_vars
-----------------------------------------------------------------------------
(* Properties *)

\* However the memory was reallocated, it is as long as capacity says, its
\* first size places hold what the caller put there and no element lives in
\* the others: none is lost, shifted, destroyed twice or left behind.
VectorExact ==
  /\ size <= capacity
  /\ data \in [Block(capacity) -> Values \cup {Raw}]
  /\ contents \in [Block(size) -> Values]
  /\ \A i \in Block(capacity) :
       data[i] = IF i < size THEN contents[i] ELSE Raw

\* Memory goes back with the length it was allocated with, and between two
\* reallocations lie at least a quarter of the capacity of calls, less one: no
\* sequence of pushes and pops makes the vector reallocate at every call.
Reallocates == 0 < capacity /\ capacity' # capacity
ReallocatesRarely ==
  Reallocates => /\ given' = capacity
                 /\ capacity' # 0 => since >= capacity \div 4 - 1
ReallocationsApart == [][ReallocatesRarely]_vars
=============================================================================
