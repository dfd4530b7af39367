----------------------------- MODULE VariantSpec -----------------------------
(***************************************************************************)
(* What a Variant promises: it is empty or holds one object, which the     *)
(* operations put in, copy, move, change and destroy.                      *)
(***************************************************************************)
CONSTANTS
  Variants,    \* places for Variant objects
  Objects,     \* what a Variant may hold
  NoVariant,   \* no Variant is in the place
  Nothing,     \* what an empty Variant holds
  Unusable     \* what an assignment whose copy or move throws leaves

VARIABLE held

Init == held = [v \in Variants |-> NoVariant]

Exists(v) == held[v] \notin {NoVariant, Unusable}
Vacant(v) == held[v] = NoVariant

Construct(v, x) ==
  /\ Vacant(v)
  /\ held' = [held EXCEPT ![v] = x]

CopyFrom(v, w) == Exists(w) /\ Construct(v, held[w])

MoveFrom(v, w) ==
  /\ Vacant(v) /\ Exists(w)
  /\ held' = [held EXCEPT ![v] = held[w], ![w] = Nothing]

\* Assigning a Variant to itself empties it.
CopyAssign(v, w) ==
  /\ Exists(v) /\ Exists(w)
  /\ held' = [held EXCEPT ![v] = IF v = w THEN Nothing ELSE held[w]]

MoveAssign(v, w) ==
  /\ Exists(v) /\ Exists(w)
  /\ held' = [held EXCEPT ![v] = held[w], ![w] = Nothing]

AssignThrows(v, w) ==
  /\ v # w /\ Exists(v) /\ Exists(w) /\ held[w] # Nothing
  /\ held' = [held EXCEPT ![v] = Unusable]

\* emplace, and a visitor that changes the object; reset and an emplace whose
\* constructor throws leave nothing.
Become(v, x) ==
  /\ Exists(v)
  /\ held' = [held EXCEPT ![v] = x]

Swap(v, w) ==
  /\ Exists(v) /\ Exists(w)
  /\ held' = [held EXCEPT ![v] = held[w], ![w] = held[v]]

Destroy(v) ==
  /\ Exists(v)
  /\ held' = [held EXCEPT ![v] = NoVariant]

Next == \E v \in Variants :
  \/ \E x \in Objects \cup {Nothing} : Construct(v, x) \/ Become(v, x)
  \/ \E w \in Variants : \/ CopyFrom(v, w) \/ MoveFrom(v, w)
                         \/ CopyAssign(v, w) \/ MoveAssign(v, w)
                         \/ AssignThrows(v, w) \/ Swap(v, w)
  \/ Destroy(v)

Spec == Init /\ [][Next]_held
=============================================================================
