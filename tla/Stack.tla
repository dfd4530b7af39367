-------------------------------- MODULE Stack --------------------------------
(***************************************************************************)
(* core2/Stack.h: the linked stack with a plain atomic head pointer.       *)
(*                                                                         *)
(* pop returns std::move(value), a reference to its own local variable:    *)
(* what its caller reads through it is undefined, hence any value here.    *)
(* So is the next field of a node that another pop has deleted.            *)
(***************************************************************************)
EXTENDS Integers, Sequences

CONSTANTS
  Threads,
  Values,
  NoValue,
  Addrs,      \* the addresses the allocator may return
  nullptr

VARIABLES
  live,                     \* the addresses that are allocated
  value, next,              \* the fields of the nodes
  head,
  node, current, newHead,   \* locals
  got,                      \* what the caller of pop reads
  pc,
  popped                    \* history: what the node unlinked by pop held

memory == <<live, value, next>>
vars   == <<memory, head, node, current, newHead, got, pc, popped>>

Pointers == Addrs \cup {nullptr}

Init ==
  /\ live = {}
  /\ value = [a \in Addrs |-> NoValue]
  /\ next = [a \in Addrs |-> nullptr]
  /\ head = nullptr
  /\ node = [t \in Threads |-> nullptr]
  /\ current = [t \in Threads |-> nullptr]
  /\ newHead = [t \in Threads |-> nullptr]
  /\ got = [t \in Threads |-> NoValue]
  /\ popped = [t \in Threads |-> NoValue]
  /\ pc = [t \in Threads |-> "idle"]

Goto(t, from, to) == pc[t] = from /\ pc' = [pc EXCEPT ![t] = to]
-----------------------------------------------------------------------------
CallPush(t) ==
  /\ Goto(t, "idle", "uLoad")
  /\ \E v \in Values, a \in Addrs \ live :
       /\ live' = live \cup {a}
       /\ value' = [value EXCEPT ![a] = v]
       /\ next' = [next EXCEPT ![a] = nullptr]
       /\ node' = [node EXCEPT ![t] = a]
  /\ UNCHANGED <<head, current, newHead, got, popped>>

PushLoadHead(t) ==
  /\ Goto(t, "uLoad", "uSwap")
  /\ current' = [current EXCEPT ![t] = head]
  /\ next' = [next EXCEPT ![node[t]] = head]
  /\ UNCHANGED <<live, value, head, node, newHead, got, popped>>

PushSwap(t) ==
  /\ Goto(t, "uSwap", IF head = current[t] THEN "idle" ELSE "uLoad")
  /\ head' = IF head = current[t] THEN node[t] ELSE head
  /\ UNCHANGED <<memory, node, current, newHead, got, popped>>

CallPop(t) ==
  /\ Goto(t, "idle", "oLoad")
  /\ UNCHANGED <<memory, head, node, current, newHead, got, popped>>

\* An empty stack is asked again.
PopLoadHead(t) ==
  /\ Goto(t, "oLoad", IF head = nullptr THEN "oLoad" ELSE "oNext")
  /\ current' = [current EXCEPT ![t] = head]
  /\ UNCHANGED <<memory, head, node, newHead, got, popped>>

PopReadNext(t) ==
  /\ Goto(t, "oNext", "oSwap")
  /\ \E n \in IF current[t] \in live THEN {next[current[t]]} ELSE Pointers :
       newHead' = [newHead EXCEPT ![t] = n]
  /\ UNCHANGED <<memory, head, node, current, got, popped>>

PopSwap(t) ==
  /\ Goto(t, "oSwap", IF head = current[t] THEN "oDelete" ELSE "oLoad")
  /\ head' = IF head = current[t] THEN newHead[t] ELSE head
  /\ UNCHANGED <<memory, node, current, newHead, got, popped>>

\* The value is moved out of the node, and the node deleted.
PopDelete(t) ==
  /\ Goto(t, "oDelete", "oReturn")
  /\ popped' = [popped EXCEPT ![t] = value[current[t]]]
  /\ live' = live \ {current[t]}
  /\ UNCHANGED <<value, next, head, node, current, newHead, got>>

\* The caller reads the result, after the return.
PopReturn(t) ==
  /\ Goto(t, "oReturn", "idle")
  /\ \E v \in Values : got' = [got EXCEPT ![t] = v]
  /\ UNCHANGED <<memory, head, node, current, newHead, popped>>

Next == \E t \in Threads :
  \/ CallPush(t) \/ PushLoadHead(t) \/ PushSwap(t)
  \/ CallPop(t) \/ PopLoadHead(t) \/ PopReadNext(t) \/ PopSwap(t)
  \/ PopDelete(t) \/ PopReturn(t)

Spec == Init /\ [][Next]_vars
-----------------------------------------------------------------------------
(* Properties *)

\* The caller of pop reads the value of the node that pop unlinked, as the
\* assertion of bin/stack.cc expects.
PopYieldsItsNode ==
  [][\A t \in Threads : pc[t] = "oReturn" /\ pc'[t] = "idle" =>
                          got'[t] = popped[t]]_vars
=============================================================================
