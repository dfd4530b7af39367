------------------------------ MODULE Function ------------------------------
(***************************************************************************)
(* core2/trait/Function.h, over the TypeErasedOptimizedBuffer of           *)
(* core2/trait/Memory.h: which functor a Function or an OptimizedFunction  *)
(* calls, and when that functor is destroyed.  A Function stays where it   *)
(* was made; the compiler gives an OptimizedFunction a move that takes the *)
(* callable and copies the buffer bit by bit, and a destructor that knows  *)
(* nothing of the functor in the buffer.                                   *)
(***************************************************************************)
EXTENDS Integers, FiniteSets

CONSTANTS
  Places,        \* where the program keeps a Function or OptimizedFunction
  Functors,
  sizeOf,        \* the size of the type of each
  BS,            \* the size of the buffer
  NoFunctor      \* bits that were never a functor

FunctionAssumption ==
  /\ sizeOf \in [Functors -> Nat \ {0}] /\ BS \in Nat
  /\ NoFunctor \notin Functors

VARIABLES
  kind,       \* what is in each place
  callable,   \* the size of the type its callable deals with, 0 for none
  buffer,     \* the bits: a functor in the buffer, or a pointer to the heap
  live,       \* the functors that were constructed and not destroyed
  leaked,     \* history: those whose last holder went without destroying them
  broken      \* history: places whose assignment threw; only destroyed after

vars == <<kind, callable, buffer, live, leaked, broken>>

Init ==
  /\ kind = [p \in Places |-> "none"]
  /\ callable = [p \in Places |-> 0]
  /\ buffer = [p \in Places |-> <<"heap", NoFunctor>>]
  /\ live = {} /\ leaked = {} /\ broken = {}

\* TypeErasedOptimizedBuffer::construct; a Function always asks for the heap
constructed(f, k) ==
  IF k = "OptimizedFunction" /\ sizeOf[f] <= BS THEN <<"buffer", f>>
                                                ELSE <<"heap", f>>

\* TypeErasedOptimizedBuffer::data: the bits, read as those of such a type
data(bits, size, k) ==
  IF bits[1] = "buffer" <=> k = "OptimizedFunction" /\ size <= BS
    THEN bits[2] ELSE NoFunctor

\* The functor operator() calls, and destroy destroys.
invoked(p) == data(buffer[p], callable[p], kind[p])

\* The functor p holds, as a set.
Held(p) == IF callable[p] # 0 /\ p \notin broken THEN {invoked(p)} ELSE {}

Optimized(p) == kind[p] = "OptimizedFunction" /\ p \notin broken

\* Function(fn), OptimizedFunction(fn): a new functor, made of the one given
Construct(p, k, f) ==
  /\ kind[p] = "none" /\ f \notin live
  /\ kind' = [kind EXCEPT ![p] = k]
  /\ callable' = [callable EXCEPT ![p] = sizeOf[f]]
  /\ buffer' = [buffer EXCEPT ![p] = constructed(f, k)]
  /\ live' = live \cup {f}
  /\ UNCHANGED <<leaked, broken>>

Default(p) ==
  /\ kind[p] = "none"
  /\ kind' = [kind EXCEPT ![p] = "OptimizedFunction"]
  /\ buffer' = [buffer EXCEPT ![p] = <<"heap", NoFunctor>>]
  /\ UNCHANGED <<callable, live, leaked, broken>>

\* faulty variant: the new functor overwrites the old one
Overwritten(p) == {}

\* callable->destroy(buffer)
Destroyed(p) == Held(p)

Assign(p, f) ==
  /\ Optimized(p) /\ f \notin live
  /\ callable' = [callable EXCEPT ![p] = sizeOf[f]]
  /\ buffer' = [buffer EXCEPT ![p] = constructed(f, "OptimizedFunction")]
  /\ live' = (live \ Destroyed(p)) \cup {f}
  /\ UNCHANGED <<kind, leaked, broken>>

\* The callable is there already when the constructor of the functor throws.
AssignThrows(p, f) ==
  /\ Optimized(p)
  /\ callable' = [callable EXCEPT ![p] = sizeOf[f]]
  /\ live' = live \ Destroyed(p)
  /\ broken' = broken \cup {p}
  /\ UNCHANGED <<kind, buffer, leaked>>

\* unique_ptr's move
TakenCallable(p) == 0

MoveConstruct(p, other) ==
  /\ kind[p] = "none" /\ Optimized(other)
  /\ kind' = [kind EXCEPT ![p] = "OptimizedFunction"]
  /\ callable' = [callable EXCEPT ![p] = callable[other],
                                  ![other] = TakenCallable(other)]
  /\ buffer' = [buffer EXCEPT ![p] = buffer[other]]
  /\ UNCHANGED <<live, leaked, broken>>

\* The functor p held stays in no buffer.
MoveAssign(p, other) ==
  /\ p # other /\ Optimized(p) /\ Optimized(other)
  /\ callable' = [callable EXCEPT ![p] = callable[other],
                                  ![other] = TakenCallable(other)]
  /\ buffer' = [buffer EXCEPT ![p] = buffer[other]]
  /\ leaked' = leaked \cup Held(p)
  /\ UNCHANGED <<kind, live, broken>>

\* ~Function destroys its functor, the destructor of OptimizedFunction does not.
Destroy(p) ==
  /\ kind[p] # "none"
  /\ kind' = [kind EXCEPT ![p] = "none"]
  /\ callable' = [callable EXCEPT ![p] = 0]
  /\ IF kind[p] = "Function"
       THEN live' = live \ Held(p) /\ leaked' = leaked
       ELSE live' = live /\ leaked' = leaked \cup Held(p)
  /\ broken' = broken \ {p}
  /\ UNCHANGED buffer

Next == \E p \in Places :
  \/ Default(p) \/ Destroy(p)
  \/ \E f \in Functors :
       Assign(p, f) \/ AssignThrows(p, f)
       \/ \E k \in {"Function", "OptimizedFunction"} : Construct(p, k, f)
  \/ \E other \in Places : MoveConstruct(p, other) \/ MoveAssign(p, other)

Spec == Init /\ [][Next]_vars
-----------------------------------------------------------------------------
(* Properties *)

\* What can be called calls a live functor that nothing else calls, unless an
\* assignment to it threw; and every live functor is held, or was leaked by
\* the destructor or the move assignment of an OptimizedFunction.
FunctorsHeldOnce ==
  /\ \A p \in Places :
       callable[p] # 0 /\ p \notin broken => invoked(p) \in live \ leaked
  /\ \A f \in live \ leaked : Cardinality({p \in Places : f \in Held(p)}) = 1
  /\ leaked \subseteq live
=============================================================================
