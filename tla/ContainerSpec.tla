---------------------------- MODULE ContainerSpec ----------------------------
(***************************************************************************)
(* What AtomicQueue and AtomicStack promise their callers: every push and  *)
(* every pop takes effect at one instant between its call and its return,  *)
(* on a sequence of values that is a queue or a stack.  A pop that takes   *)
(* effect while the container is empty throws (it returns Empty).          *)
(***************************************************************************)
EXTENDS Sequences

CONSTANTS Threads, Values,
          NoValue,     \* the operation has no argument or no result (yet)
          Empty,       \* the result of a pop that throws
          Discipline   \* "FIFO" or "LIFO"

VARIABLES contents,    \* the values in the container, the next to pop first
          phase,       \* how far each thread's operation is
          datum        \* the argument or the result of each operation

vars == <<contents, phase, datum>>

Init ==
  /\ contents = <<>>
  /\ phase = [t \in Threads |-> "idle"]
  /\ datum = [t \in Threads |-> NoValue]

Advance(t, from, to, d) ==
  /\ phase[t] = from
  /\ phase' = [phase EXCEPT ![t] = to]
  /\ datum' = [datum EXCEPT ![t] = d]

CallPush(t, v) == Advance(t, "idle", "push", v) /\ UNCHANGED contents

Push(t) ==
  /\ Advance(t, "push", "pushed", NoValue)
  /\ contents' = IF Discipline = "FIFO" THEN Append(contents, datum[t])
                                        ELSE <<datum[t]>> \o contents

CallPop(t) == Advance(t, "idle", "pop", NoValue) /\ UNCHANGED contents

Pop(t) ==
  \/ /\ contents = <<>>
     /\ Advance(t, "pop", "popped", Empty)
     /\ UNCHANGED contents
  \/ /\ contents # <<>>
     /\ Advance(t, "pop", "popped", Head(contents))
     /\ contents' = Tail(contents)

Return(t) ==
  /\ \/ Advance(t, "pushed", "idle", NoValue)
     \/ Advance(t, "popped", "idle", NoValue)
  /\ UNCHANGED contents

Next == \E t \in Threads :
          \/ \E v \in Values : CallPush(t, v)
          \/ Push(t) \/ CallPop(t) \/ Pop(t) \/ Return(t)

Spec == Init /\ [][Next]_vars
=============================================================================
