----------------------------- MODULE AtomicStack -----------------------------
(***************************************************************************)
(* core2/async/AtomicStack.h: a linked stack whose top is one 16-byte      *)
(* atomic, the top node together with the number of pops so far.           *)
(*                                                                         *)
(* Nodes come from new and go to delete, so an address can be the node of  *)
(* another value by the time a thread that saw the old one compares with   *)
(* it.  pop reads oldTop.topNode->next while another thread may have       *)
(* deleted that node, or is writing it for a new push: what it reads then  *)
(* is any address, or none.  Every access to top, and every access to a    *)
(* node other threads can reach, is an action.                             *)
(***************************************************************************)
EXTENDS Integers, Sequences

CONSTANTS
  Threads,
  Values,
  NoValue,    \* locals not in use
  Empty,      \* the result of a pop that throws "Empty queue"
  Addrs,      \* the addresses operator new may return
  nullptr,
  Garbage,    \* any other bit pattern a read of a deleted node can return
  MaxPops     \* bound of the model: no push starts once popCount reaches it

ASSUME StackAssumption ==
  /\ nullptr \notin Addrs /\ Garbage \notin Addrs /\ nullptr # Garbage
  /\ NoValue \notin Values /\ Empty \notin Values /\ NoValue # Empty
  /\ MaxPops \in Nat

VARIABLES
  live,             \* the addresses that are allocated
  value, next,      \* the fields of the nodes
  top,              \* the atomic StackTop
  newNode,          \* locals of push and pop
  oldTop, newTop,
  result,
  pc,
  stack             \* history: the linked nodes, the top first

memory == <<live, value, next>>
vars   == <<memory, top, newNode, oldTop, newTop, result, pc, stack>>

PC == {"idle", "uLoad", "uSwap", "uReturn",
       "oLoad", "oNext", "oSwap", "oRead", "oDelete", "oReturn"}

Pointers == Addrs \cup {nullptr}
StackTop == [topNode |-> nullptr, popCount |-> 0]

Init ==
  /\ live = {}
  /\ value = [a \in Addrs |-> NoValue]
  /\ next = [a \in Addrs |-> nullptr]
  /\ top = StackTop
  /\ newNode = [t \in Threads |-> nullptr]
  /\ oldTop = [t \in Threads |-> StackTop]
  /\ newTop = [t \in Threads |-> StackTop]
  /\ result = [t \in Threads |-> NoValue]
  /\ pc = [t \in Threads |-> "idle"]
  /\ stack = <<>>

Goto(t, from, to) == pc[t] = from /\ pc' = [pc EXCEPT ![t] = to]
-----------------------------------------------------------------------------
(* push *)

CallPush(t, v, a) ==
  /\ Goto(t, "idle", "uLoad")
  /\ top.popCount < MaxPops
  /\ a \notin live
  /\ live' = live \cup {a}
  /\ value' = [value EXCEPT ![a] = v]
  /\ next' = [next EXCEPT ![a] = nullptr]
  /\ newNode' = [newNode EXCEPT ![t] = a]
  /\ UNCHANGED <<top, oldTop, newTop, result, stack>>

\* The load of top, and the write of newNode->next that only stale readers
\* can race with.
PushLoadTop(t) ==
  /\ Goto(t, "uLoad", "uSwap")
  /\ oldTop' = [oldTop EXCEPT ![t] = top]
  /\ next' = [next EXCEPT ![newNode[t]] = top.topNode]
  /\ newTop' = [newTop EXCEPT ![t] = [top EXCEPT !.topNode = newNode[t]]]
  /\ UNCHANGED <<live, value, top, newNode, result, stack>>

\* faulty variant: the exchange does not compare
SwapsBlindly(t) == TRUE

Swaps(t) == top = oldTop[t]

PushSwap(t) ==
  /\ Goto(t, "uSwap", "uReturn")
  /\ Swaps(t)
  /\ top' = newTop[t]
  /\ stack' = <<newNode[t]>> \o stack
  /\ UNCHANGED <<memory, newNode, oldTop, newTop, result>>

PushSwapFails(t) ==
  /\ Goto(t, "uSwap", "uLoad")
  /\ ~Swaps(t)
  /\ UNCHANGED <<memory, top, newNode, oldTop, newTop, result, stack>>

PushReturn(t) ==
  /\ Goto(t, "uReturn", "idle")
  /\ newNode' = [newNode EXCEPT ![t] = nullptr]
  /\ oldTop' = [oldTop EXCEPT ![t] = StackTop]
  /\ newTop' = [newTop EXCEPT ![t] = StackTop]
  /\ UNCHANGED <<memory, top, result, stack>>
-----------------------------------------------------------------------------
(* pop *)

CallPop(t) ==
  /\ Goto(t, "idle", "oLoad")
  /\ UNCHANGED <<memory, top, newNode, oldTop, newTop, result, stack>>

PopLoadTop(t) ==
  /\ Goto(t, "oLoad", "oNext")
  /\ top.topNode # nullptr
  /\ oldTop' = [oldTop EXCEPT ![t] = top]
  /\ UNCHANGED <<memory, top, newNode, newTop, result, stack>>

\* throw std::runtime_error("Empty queue")
PopEmpty(t) ==
  /\ Goto(t, "oLoad", "oReturn")
  /\ top.topNode = nullptr
  /\ result' = [result EXCEPT ![t] = Empty]
  /\ UNCHANGED <<memory, top, newNode, oldTop, newTop, stack>>

\* The nodes whose pusher has not published them yet.
Unpublished == {newNode[u] : u \in {w \in Threads : pc[w] \in {"uLoad", "uSwap"}}}

\* What a read of a->next can return.
NextReads(a) == IF a \in live \ Unpublished THEN {next[a]}
                ELSE Pointers \cup {Garbage}

\* faulty variant: the count of pops is left alone
CountKept(t) == oldTop[t].popCount

CountBumped(t) == oldTop[t].popCount + 1

PopReadNext(t) ==
  /\ Goto(t, "oNext", "oSwap")
  /\ \E n \in NextReads(oldTop[t].topNode) :
       newTop' = [newTop EXCEPT
                   ![t] = [topNode |-> n, popCount |-> CountBumped(t)]]
  /\ UNCHANGED <<memory, top, newNode, oldTop, result, stack>>

PopSwap(t) ==
  /\ Goto(t, "oSwap", "oRead")
  /\ Swaps(t)
  /\ top' = newTop[t]
  /\ stack' = Tail(stack)
  /\ UNCHANGED <<memory, newNode, oldTop, newTop, result>>

PopSwapFails(t) ==
  /\ Goto(t, "oSwap", "oLoad")
  /\ ~Swaps(t)
  /\ UNCHANGED <<memory, top, newNode, oldTop, newTop, result, stack>>

PopReadValue(t) ==
  /\ Goto(t, "oRead", "oDelete")
  /\ result' = [result EXCEPT ![t] = value[oldTop[t].topNode]]
  /\ UNCHANGED <<memory, top, newNode, oldTop, newTop, stack>>

PopDelete(t) ==
  /\ Goto(t, "oDelete", "oReturn")
  /\ live' = live \ {oldTop[t].topNode}
  /\ UNCHANGED <<value, next, top, newNode, oldTop, newTop, result, stack>>

PopReturn(t) ==
  /\ Goto(t, "oReturn", "idle")
  /\ oldTop' = [oldTop EXCEPT ![t] = StackTop]
  /\ newTop' = [newTop EXCEPT ![t] = StackTop]
  /\ result' = [result EXCEPT ![t] = NoValue]
  /\ UNCHANGED <<memory, top, newNode, stack>>
-----------------------------------------------------------------------------
PushStep(t) ==
  PushLoadTop(t) \/ PushSwap(t) \/ PushSwapFails(t) \/ PushReturn(t)
PopStep(t) ==
  \/ PopLoadTop(t) \/ PopEmpty(t) \/ PopReadNext(t) \/ PopSwap(t)
  \/ PopSwapFails(t) \/ PopReadValue(t) \/ PopDelete(t) \/ PopReturn(t)

Next == \E t \in Threads :
          \/ \E v \in Values, a \in Addrs : CallPush(t, v, a)
          \/ PushStep(t) \/ CallPop(t) \/ PopStep(t)

Spec == Init /\ [][Next]_vars
-----------------------------------------------------------------------------
(* Properties *)

\* top and the next fields hold the list of the nodes pushed and not popped:
\* whatever a pop reads in a deleted node never reaches top.
ListInMemory ==
  /\ top.topNode = IF stack = <<>> THEN nullptr ELSE Head(stack)
  /\ \A i \in 1 .. Len(stack) :
       next[stack[i]] = IF i = Len(stack) THEN nullptr ELSE stack[i + 1]

Linked  == {stack[i] : i \in 1 .. Len(stack)}
Takers  == {t \in Threads : pc[t] \in {"oRead", "oDelete"}}
Makers  == {t \in Threads : pc[t] \in {"uLoad", "uSwap"}}

\* An allocated node is linked once, or belongs to the one push that has not
\* linked it, or to the one pop that has unlinked it: no node is deleted
\* twice, deleted while linked, or leaked by an operation.
OneOwner ==
  /\ live = Linked \cup {oldTop[t].topNode : t \in Takers}
                   \cup {newNode[t] : t \in Makers}
  /\ \A i, j \in 1 .. Len(stack) : stack[i] = stack[j] => i = j
  /\ \A t \in Takers : oldTop[t].topNode \notin Linked
  /\ \A t \in Makers : newNode[t] \notin Linked
  /\ \A t \in Takers, u \in Makers : oldTop[t].topNode # newNode[u]
  /\ \A t, u \in Takers : oldTop[t].topNode = oldTop[u].topNode => t = u
  /\ \A t, u \in Makers : newNode[t] = newNode[u] => t = u

\* The list is intact, and its nodes and those in the hands of a push or a
\* pop are all the nodes there are.
NodesExact == ListInMemory /\ OneOwner

\* The count of pops makes up for the reuse of addresses: a pop whose
\* comparison would succeed read the successor of the node that is the top
\* now, however often that address was popped, deleted and pushed again.
StaleReadsLose ==
  \A t \in Threads :
    pc[t] = "oSwap" /\ top = oldTop[t] =>
      newTop[t].topNode = next[top.topNode]

\* push and pop are linearizable, in last-in first-out order, and a pop
\* throws only if the stack is empty at some instant of the call.
Contents == [i \in 1 .. Len(stack) |-> value[stack[i]]]

PhaseAt(place) ==
  CASE place = "idle"                            -> "idle"
    [] place \in {"uLoad", "uSwap"}              -> "push"
    [] place = "uReturn"                         -> "pushed"
    [] place \in {"oLoad", "oNext", "oSwap"}     -> "pop"
    [] place \in {"oRead", "oDelete", "oReturn"} -> "popped"

Phase == [t \in Threads |-> PhaseAt(pc[t])]

Datum == [t \in Threads |->
  CASE pc[t] \in {"uLoad", "uSwap"}     -> value[newNode[t]]
    [] pc[t] = "oRead"                  -> value[oldTop[t].topNode]
    [] pc[t] \in {"oDelete", "oReturn"} -> result[t]
    [] OTHER                            -> NoValue]

Abstract == INSTANCE ContainerSpec
  WITH contents <- Contents, phase <- Phase, datum <- Datum,
       Discipline <- "LIFO"
ImplementsStack == Abstract!Spec
=============================================================================
