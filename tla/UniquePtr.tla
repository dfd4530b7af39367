------------------------------ MODULE UniquePtr ------------------------------
(***************************************************************************)
(* core2/smart_ptr/UniquePtr.h: who owns an object, and which deleter gets *)
(* it.  A deleter is code of the caller: while it runs, other operations,  *)
(* on the same UniquePtr too, may run and end.  The move assignment names  *)
(* a member that does not exist, so no program that uses it compiles.      *)
(***************************************************************************)
EXTENDS Integers, FiniteSets

CONSTANTS
  Ptrs, Objects, Deleters,
  DeleterOf,     \* the deleter that knows how to delete each object
  nullptr,
  NoPtr          \* no UniquePtr is in the place

UniquePtrAssumption ==
  /\ DeleterOf \in [Objects -> Deleters]
  /\ nullptr \notin Objects /\ NoPtr \notin Objects

VARIABLES
  first, second,   \* the dataPair of each UniquePtr: pointer and deleter
  allocated,       \* the objects that exist
  raw,             \* those the caller has a plain pointer to, and must delete
  deleting         \* the deleters that run, with their objects

vars == <<first, second, allocated, raw, deleting>>

Init ==
  /\ first = [p \in Ptrs |-> NoPtr]
  /\ second = [p \in Ptrs |-> CHOOSE d \in Deleters : TRUE]
  /\ allocated = {} /\ raw = {} /\ deleting = {}

Exists(p) == first[p] # NoPtr

\* What a caller may hand to a UniquePtr with deleter d.
Pointers(d) == {o \in raw : DeleterOf[o] = d} \cup {nullptr}

New(o) ==
  /\ o \notin allocated
  /\ allocated' = allocated \cup {o} /\ raw' = raw \cup {o}
  /\ UNCHANGED <<first, second, deleting>>

Construct(p, d, x) ==
  /\ ~Exists(p) /\ x \in Pointers(d)
  /\ first' = [first EXCEPT ![p] = x]
  /\ second' = [second EXCEPT ![p] = d]
  /\ raw' = raw \ {x}
  /\ UNCHANGED <<allocated, deleting>>

\* faulty variant: release leaves the pointer in its place
LeftInPlace(p) == first[p]

Released(p) == nullptr

release(p) ==
  /\ Exists(p)
  /\ first' = [first EXCEPT ![p] = Released(p)]
  /\ raw' = raw \cup ({first[p]} \ {nullptr})
  /\ UNCHANGED <<second, allocated, deleting>>

MoveConstruct(p, other) ==
  /\ ~Exists(p) /\ Exists(other)
  /\ first' = [first EXCEPT ![p] = first[other], ![other] = Released(other)]
  /\ second' = [second EXCEPT ![p] = second[other]]
  /\ UNCHANGED <<allocated, raw, deleting>>

\* The deleter of p is called if p points to an object.
CallDeleter(p) ==
  deleting' = IF first[p] = nullptr THEN deleting
              ELSE deleting \cup {<<first[p], second[p]>>}

\* reset puts the new pointer in place before it calls the deleter.
reset(p, x) ==
  /\ Exists(p) /\ x \in Pointers(second[p])
  /\ first' = [first EXCEPT ![p] = x]
  /\ raw' = raw \ {x}
  /\ CallDeleter(p)
  /\ UNCHANGED <<second, allocated>>

Destroy(p) ==
  /\ Exists(p)
  /\ first' = [first EXCEPT ![p] = NoPtr]
  /\ CallDeleter(p)
  /\ UNCHANGED <<second, allocated, raw>>

Delete(o, d) ==
  /\ <<o, d>> \in deleting
  /\ deleting' = deleting \ {<<o, d>>}
  /\ allocated' = allocated \ {o}
  /\ UNCHANGED <<first, second, raw>>

DeletersSwap(p, other) ==
  [second EXCEPT ![p] = second[other], ![other] = second[p]]

swap(p, other) ==
  /\ Exists(p) /\ Exists(other)
  /\ first' = [first EXCEPT ![p] = first[other], ![other] = first[p]]
  /\ second' = DeletersSwap(p, other)
  /\ UNCHANGED <<allocated, raw, deleting>>

Next ==
  \/ \E o \in Objects : New(o) \/ \E d \in Deleters : Delete(o, d)
  \/ \E p \in Ptrs :
       \/ release(p) \/ Destroy(p)
       \/ \E x \in Objects \cup {nullptr} :
            reset(p, x) \/ \E d \in Deleters : Construct(p, d, x)
       \/ \E other \in Ptrs : MoveConstruct(p, other) \/ swap(p, other)

Spec == Init /\ [][Next]_vars
-----------------------------------------------------------------------------
(* Properties *)

Holders(o) ==
  Cardinality({p \in Ptrs : first[p] = o})
    + Cardinality({d \in Deleters : <<o, d>> \in deleting})
    + Cardinality(raw \cap {o})

\* An object that exists is owned by one UniquePtr, or is being deleted, once,
\* or belongs to the caller; nothing refers to one that does not exist; and
\* each meets its own deleter, however often it was moved, swapped or
\* released and whatever its deleter does.
OwnedOnce ==
  /\ \A o \in Objects : Holders(o) = IF o \in allocated THEN 1 ELSE 0
  /\ \A p \in Ptrs : first[p] \in Objects => second[p] = DeleterOf[first[p]]
  /\ \A o \in Objects, d \in Deleters :
       <<o, d>> \in deleting => d = DeleterOf[o]
=============================================================================
