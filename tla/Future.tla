------------------------------- MODULE Future -------------------------------
(***************************************************************************)
(* core2/async/Async.h: threads that wait in get for the value another one *)
(* sets, while the Future is moved about.  A call holds mux from its start *)
(* to its end or to the wait inside it, so each such stretch is one        *)
(* action.  wait reads this->data again after every wakeup: the callers    *)
(* move a Future only while nobody is inside get on it.                    *)
(***************************************************************************)
EXTENDS Naturals

CONSTANTS
  Threads,     \* those that call get
  Futures,     \* places for Future objects
  Internals,   \* the FutureInternal blocks operator new may return
  Values,
  nullptr, NoFuture, NoValue

FutureAssumption ==
  /\ Futures # {} /\ nullptr # NoFuture
  /\ nullptr \notin Internals /\ NoFuture \notin Internals
  /\ NoValue \notin Values

VARIABLES
  data,     \* the field of each Future; NoFuture where there is none
  value,    \* the optional in each block
  pc,       \* where each thread is in get
  on,       \* and on which Future
  leaked    \* the blocks no Future refers to any more: nothing deletes them

vars == <<data, value, pc, on, leaked>>

Used == leaked \cup {data[f] : f \in Futures}

Init ==
  /\ data = [f \in Futures |-> NoFuture]
  /\ value = [b \in Internals |-> NoValue]
  /\ pc = [t \in Threads |-> "out"]
  /\ on = [t \in Threads |-> CHOOSE f \in Futures : TRUE]
  /\ leaked = {}

Construct(f) ==
  /\ data[f] = NoFuture
  /\ \E b \in Internals \ Used : data' = [data EXCEPT ![f] = b]
  /\ UNCHANGED <<value, pc, on, leaked>>

Inside(f) == {t \in Threads : on[t] = f /\ pc[t] # "out"}

Move(f, rhs) ==
  /\ data[f] = NoFuture /\ data[rhs] # NoFuture /\ Inside(rhs) = {}
  /\ data' = [data EXCEPT ![f] = data[rhs], ![rhs] = nullptr]
  /\ UNCHANGED <<value, pc, on, leaked>>

Destroy(f) ==
  /\ data[f] # NoFuture /\ Inside(f) = {}
  /\ data' = [data EXCEPT ![f] = NoFuture]
  /\ leaked' = leaked \cup ({data[f]} \ {nullptr})
  /\ UNCHANGED <<value, pc, on>>

Waiters(b) == {t \in Threads : pc[t] = "wait" /\ data[on[t]] = b}

\* faulty variant: notify_one
OneOf(W) == IF W = {} THEN {} ELSE {CHOOSE t \in W : TRUE}

Woken(W) == W

\* set, on a Future that is not moved from and has no value yet (asserted)
Set(f, v) ==
  /\ data[f] \in Internals /\ value[data[f]] = NoValue
  /\ value' = [value EXCEPT ![data[f]] = v]
  /\ pc' = [t \in Threads |->
              IF t \in Woken(Waiters(data[f])) THEN "woken" ELSE pc[t]]
  /\ UNCHANGED <<data, on, leaked>>

\* get returns, or blocks.
Checks(t, f) ==
  pc' = [pc EXCEPT ![t] = IF value[data[f]] # NoValue THEN "out" ELSE "wait"]

get(t, f) ==
  /\ pc[t] = "out" /\ data[f] \in Internals
  /\ on' = [on EXCEPT ![t] = f]
  /\ Checks(t, f)
  /\ UNCHANGED <<data, value, leaked>>

Wake(t) ==
  /\ pc[t] = "woken"
  /\ Checks(t, on[t])
  /\ UNCHANGED <<data, value, on, leaked>>

SpuriousWakeup(t) ==
  /\ pc[t] = "wait"
  /\ pc' = [pc EXCEPT ![t] = "woken"]
  /\ UNCHANGED <<data, value, on, leaked>>

Next ==
  \/ \E f \in Futures : \/ Construct(f) \/ Destroy(f)
                        \/ \E v \in Values : Set(f, v)
                        \/ \E rhs \in Futures : Move(f, rhs)
                        \/ \E t \in Threads : get(t, f)
  \/ \E t \in Threads : Wake(t) \/ SpuriousWakeup(t)

(* A thread that was woken gets mux.                                       *)
FairSpec == Init /\ [][Next]_vars /\ \A t \in Threads : WF_vars(Wake(t))
-----------------------------------------------------------------------------
(* Properties *)

\* Every thread inside get on a Future that has its value, before or after it
\* was moved, returns.
HasValue(t) == data[on[t]] \in Internals /\ value[data[on[t]]] # NoValue
GettersReturn == \A t \in Threads : HasValue(t) ~> pc[t] = "out"
=============================================================================
