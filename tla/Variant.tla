------------------------------- MODULE Variant -------------------------------
(***************************************************************************)
(* core2/container/Variant.h: an index_ that names the type of the object  *)
(* living in data_, or one past the last type for none.  The operations    *)
(* run one after the other; a constructor of a held object may throw.      *)
(***************************************************************************)
EXTENDS Integers, Sequences, SequencesExt

CONSTANTS
  Variants,              \* places for Variant objects
  Ts,                    \* the types, in order
  Values,
  NoVariant, NoObject,   \* nothing in the place, nothing in data_
  Unusable               \* what the abstraction makes of a broken Variant

Objects == [type : ToSet(Ts), value : Values]

\* The sentinels are none of the values they stand beside.
VariantAssumption ==
  /\ Variants # {} /\ Ts # <<>> /\ Ts \in Seq(ToSet(Ts))
  /\ {NoVariant, Unusable, NoObject} \cap Objects = {}
  /\ NoVariant # Unusable /\ NoObject \notin {NoVariant, Unusable}
  /\ NoVariant \notin [index_ : 0 .. Len(Ts), data_ : Objects \cup {NoObject}]

VARIABLES
  variant,
  broken     \* history: those whose assignment threw; nobody uses them again

vars == <<variant, broken>>

\* sizeof...(Ts), and IndexOfTypeV: the first place of the type
None    == Len(Ts)
IndexOf(type) == SelectInSeq(Ts, LAMBDA t : t = type) - 1

Empty == [index_ |-> None, data_ |-> NoObject]

Init == variant = [v \in Variants |-> NoVariant] /\ broken = {}

Exists(v) == variant[v] # NoVariant /\ v \notin broken
Vacant(v) == variant[v] = NoVariant
Set(v, c) == variant' = [variant EXCEPT ![v] = c] /\ UNCHANGED broken

\* faulty variant: reset destroys the object and keeps its index
IndexKept(c) == [c EXCEPT !.data_ = NoObject]

\* destroy at index_, if there is one
reset(c) == IF c.index_ = None THEN c ELSE Empty

construct(x) == [index_ |-> IndexOf(x.type), data_ |-> x]

\* copyConstructFromVariant and moveConstructFromVariant: visit hands over the
\* object as one of the type that index_ names.
constructFrom(c) ==
  IF c.index_ = None THEN Empty
  ELSE construct([type |-> Ts[c.index_ + 1], value |-> c.data_.value])
-----------------------------------------------------------------------------
Default(v) == Vacant(v) /\ Set(v, Empty)

FromValue(v, x) == Vacant(v) /\ Set(v, construct(x))

FromCopy(v, other) ==
  /\ Vacant(v) /\ Exists(other)
  /\ Set(v, constructFrom(variant[other]))

FromMove(v, other) ==
  /\ Vacant(v) /\ Exists(other)
  /\ variant' = [variant EXCEPT ![v] = constructFrom(variant[other]),
                                ![other] = reset(@)]
  /\ UNCHANGED broken

\* The assignments reset before they look at other, which may be *this.
CopyAssign(v, other) ==
  LET cleared == [variant EXCEPT ![v] = reset(@)]
  IN  /\ Exists(v) /\ Exists(other)
      /\ Set(v, constructFrom(cleared[other]))

MoveAssign(v, other) ==
  LET cleared == [variant EXCEPT ![v] = reset(@)]
      moved == [cleared EXCEPT ![v] = constructFrom(cleared[other])]
  IN  /\ Exists(v) /\ Exists(other)
      /\ variant' = [moved EXCEPT ![other] = reset(@)]
      /\ UNCHANGED broken

\* index_ is that of other already when the constructor throws.
AssignThrows(v, other) ==
  /\ v # other /\ Exists(v) /\ Exists(other)
  /\ variant[other].index_ # None
  /\ variant' = [variant EXCEPT
                   ![v] = [reset(@) EXCEPT !.index_ = variant[other].index_]]
  /\ broken' = broken \cup {v}

Emplace(v, x) == Exists(v) /\ Set(v, construct(x))

\* reset, and an emplace whose constructor throws
Reset(v) == Exists(v) /\ Set(v, reset(variant[v]))

\* visit, with a visitor that writes to the object it is given
Visit(v, x) ==
  /\ Exists(v) /\ variant[v].index_ # None
  /\ Set(v, [variant[v] EXCEPT !.data_.value = x])

\* Three moves; constructFrom is that of temp, and then that from temp.
Swap(v, other) ==
  /\ Exists(v) /\ Exists(other)
  /\ variant' = [variant EXCEPT
       ![other] = constructFrom(variant[v]),
       ![v] = constructFrom(constructFrom(variant[other]))]
  /\ UNCHANGED broken

Destroy(v) == Exists(v) /\ Set(v, NoVariant)

Next == \E v \in Variants :
  \/ Default(v) \/ Reset(v) \/ Destroy(v)
  \/ \E x \in Objects : FromValue(v, x) \/ Emplace(v, x)
  \/ \E x \in Values : Visit(v, x)
  \/ \E other \in Variants :
       \/ FromCopy(v, other) \/ FromMove(v, other)
       \/ CopyAssign(v, other) \/ MoveAssign(v, other)
       \/ AssignThrows(v, other) \/ Swap(v, other)

Spec == Init /\ [][Next]_vars
-----------------------------------------------------------------------------
(* Properties *)

Sound(c) ==
  IF c.index_ = None THEN c.data_ = NoObject
  ELSE c.data_ # NoObject /\ c.data_.type = Ts[c.index_ + 1]

\* index_ names the object that lives in data_ ("it was previously
\* constructed, so destroy it first"): destroying, copying or visiting it never
\* meets memory without an object of that type.
IndexNamesObject ==
  \A v \in Variants : ~Vacant(v) => Sound(variant[v])

\* What a Variant holds can be told from its two fields: nothing that can be
\* used if they disagree.
Held(v) == IF Vacant(v) THEN NoVariant
           ELSE IF Sound(variant[v]) THEN variant[v].data_
           ELSE Unusable

\* The operations copy, move, swap and destroy objects as VariantSpec says,
\* where only an assignment that throws makes a Variant unusable.

Abstract == INSTANCE VariantSpec
              WITH held <- [v \in Variants |-> Held(v)],
                   Nothing <- NoObject
ImplementsVariant == Abstract!Spec
=============================================================================
