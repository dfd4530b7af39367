----------------------------- MODULE AtomicQueue -----------------------------
(***************************************************************************)
(* core2/async/AtomicQueue.h: a linked queue whose head, tail and next     *)
(* fields are std::atomic<std::shared_ptr<QueueNode>>.                     *)
(*                                                                         *)
(* Every access to an atomic is one action; they are sequentially          *)
(* consistent, the default the code uses.  A node is never reused while a  *)
(* thread may still compare with it, because the thread holds a shared_ptr *)
(* to it, so each make_shared returns a node never seen before.  The only  *)
(* std::atomic<shared_ptr> the code builds with (libstdc++) has a          *)
(* compare_exchange_weak that does not fail spuriously.                    *)
(***************************************************************************)
EXTENDS Integers, Sequences

CONSTANTS
  Threads,    \* threads that push and pop
  Values,     \* what they push
  NoValue,    \* the value of the dummy node, and of locals not in use
  Empty,      \* the result of a pop that throws "Queue empty"
  MaxNodes,   \* bound of the model: nodes ever allocated, the dummy included
  NDEBUG      \* the build defines NDEBUG: assert(e) does not evaluate e

ASSUME QueueAssumption ==
  /\ MaxNodes \in Nat \ {0}
  /\ NDEBUG \in BOOLEAN
  /\ NoValue \notin Values /\ Empty \notin Values /\ NoValue # Empty

nullptr == 0
Dummy   == 1
Nodes   == 1 .. MaxNodes

VARIABLES
  allocated,                           \* nodes 1 .. allocated exist
  value, next,                         \* the fields of the nodes
  queueHead, queueTail,
  newNode, tailNode, oldHead, newHead, \* the locals of push and pop
  result,                              \* what pop is about to return
  pc,
  chain,                               \* history: nodes in linking order
  headPos                              \* history: queueHead's place in chain

memory  == <<value, next, allocated>>
locals  == <<newNode, tailNode, oldHead, newHead, result>>
history == <<chain, headPos>>
vars    == <<memory, queueHead, queueTail, locals, pc, history>>

PC == {"idle", "pLoad", "pLink", "pSwing",
       "qHead", "qNext", "qTake", "qRead", "qReturn", "aborted"}

Init ==
  /\ allocated = 1
  /\ value = [n \in Nodes |-> NoValue]
  /\ next = [n \in Nodes |-> nullptr]
  /\ queueHead = Dummy
  /\ queueTail = Dummy
  /\ newNode = [t \in Threads |-> nullptr]
  /\ tailNode = [t \in Threads |-> nullptr]
  /\ oldHead = [t \in Threads |-> nullptr]
  /\ newHead = [t \in Threads |-> nullptr]
  /\ result = [t \in Threads |-> NoValue]
  /\ pc = [t \in Threads |-> "idle"]
  /\ chain = <<Dummy>>
  /\ headPos = 1

Goto(t, from, to) == pc[t] = from /\ pc' = [pc EXCEPT ![t] = to]
-----------------------------------------------------------------------------
(* push *)

CallPush(t, v) ==
  /\ Goto(t, "idle", "pLoad")
  /\ allocated < MaxNodes
  /\ allocated' = allocated + 1
  /\ value' = [value EXCEPT ![allocated + 1] = v]
  /\ newNode' = [newNode EXCEPT ![t] = allocated + 1]
  /\ UNCHANGED <<next, queueHead, queueTail, tailNode, oldHead, newHead,
                 result, history>>

PushLoadTail(t) ==
  /\ Goto(t, "pLoad", "pLink")
  /\ tailNode' = [tailNode EXCEPT ![t] = queueTail]
  /\ UNCHANGED <<memory, queueHead, queueTail, newNode, oldHead, newHead,
                 result, history>>

\* faulty variant: the node is stored without the comparison with nullptr
LinkBlindly(t) == TRUE

CanLink(t) == next[tailNode[t]] = nullptr

PushLink(t) ==
  /\ Goto(t, "pLink", "pSwing")
  /\ CanLink(t)
  /\ next' = [next EXCEPT ![tailNode[t]] = newNode[t]]
  /\ chain' = Append(chain, newNode[t])
  /\ UNCHANGED <<value, allocated, queueHead, queueTail, locals, headPos>>

PushLinkFails(t) ==
  /\ Goto(t, "pLink", "pLoad")
  /\ ~CanLink(t)
  /\ UNCHANGED <<memory, queueHead, queueTail, locals, history>>

SwungTail(t) == IF queueTail = tailNode[t] THEN newNode[t] ELSE queueTail

\* The compare_exchange on queueTail is the argument of an assert: it is not
\* even executed with NDEBUG, and without it the process aborts if it fails.
PushSwingTail(t) ==
  /\ pc[t] = "pSwing"
  /\ queueTail' = IF NDEBUG THEN queueTail ELSE SwungTail(t)
  /\ pc' = [pc EXCEPT ![t] = IF ~NDEBUG /\ queueTail # tailNode[t]
                               THEN "aborted" ELSE "idle"]
  /\ newNode' = [newNode EXCEPT ![t] = nullptr]
  /\ tailNode' = [tailNode EXCEPT ![t] = nullptr]
  /\ UNCHANGED <<memory, queueHead, oldHead, newHead, result, history>>
-----------------------------------------------------------------------------
(* pop *)

CallPop(t) ==
  /\ Goto(t, "idle", "qHead")
  /\ UNCHANGED <<memory, queueHead, queueTail, locals, history>>

PopLoadHead(t) ==
  /\ Goto(t, "qHead", "qNext")
  /\ oldHead' = [oldHead EXCEPT ![t] = queueHead]
  /\ UNCHANGED <<memory, queueHead, queueTail, newNode, tailNode, newHead,
                 result, history>>

HasNext(t) == next[oldHead[t]] # nullptr

PopLoadNext(t) ==
  /\ Goto(t, "qNext", "qTake")
  /\ HasNext(t)
  /\ newHead' = [newHead EXCEPT ![t] = next[oldHead[t]]]
  /\ UNCHANGED <<memory, queueHead, queueTail, newNode, tailNode, oldHead,
                 result, history>>

\* throw std::runtime_error("Queue empty")
PopEmpty(t) ==
  /\ Goto(t, "qNext", "qReturn")
  /\ ~HasNext(t)
  /\ result' = [result EXCEPT ![t] = Empty]
  /\ UNCHANGED <<memory, queueHead, queueTail, newNode, tailNode, oldHead,
                 newHead, history>>

\* faulty variant: the head is advanced without the comparison
TakeBlindly(t) == TRUE

CanTake(t) == queueHead = oldHead[t]

PopTake(t) ==
  /\ Goto(t, "qTake", "qRead")
  /\ CanTake(t)
  /\ queueHead' = newHead[t]
  /\ headPos' = headPos + 1
  /\ UNCHANGED <<memory, queueTail, locals, chain>>

\* faulty variant: a pop that lost the race compares with the same head again
PopTakeFailsWithoutReload(t) ==
  /\ Goto(t, "qTake", "qTake")
  /\ ~CanTake(t)
  /\ UNCHANGED <<memory, queueHead, queueTail, locals, history>>

PopTakeFails(t) ==
  /\ Goto(t, "qTake", "qHead")
  /\ ~CanTake(t)
  /\ UNCHANGED <<memory, queueHead, queueTail, locals, history>>

TakenValue(t) == value[newHead[t]]

PopReadValue(t) ==
  /\ Goto(t, "qRead", "qReturn")
  /\ result' = [result EXCEPT ![t] = TakenValue(t)]
  /\ UNCHANGED <<memory, queueHead, queueTail, newNode, tailNode, oldHead,
                 newHead, history>>

PopReturn(t) ==
  /\ Goto(t, "qReturn", "idle")
  /\ oldHead' = [oldHead EXCEPT ![t] = nullptr]
  /\ newHead' = [newHead EXCEPT ![t] = nullptr]
  /\ result' = [result EXCEPT ![t] = NoValue]
  /\ UNCHANGED <<memory, queueHead, queueTail, newNode, tailNode, history>>
-----------------------------------------------------------------------------
PushStep(t) ==
  PushLoadTail(t) \/ PushLink(t) \/ PushLinkFails(t) \/ PushSwingTail(t)
PopStep(t) ==
  \/ PopLoadHead(t) \/ PopLoadNext(t) \/ PopEmpty(t)
  \/ PopTake(t) \/ PopTakeFails(t) \/ PopReadValue(t) \/ PopReturn(t)

Next == \E t \in Threads :
          \/ \E v \in Values : CallPush(t, v)
          \/ PushStep(t) \/ CallPop(t) \/ PopStep(t)

Spec == Init /\ [][Next]_vars

(* A thread inside push or pop keeps being scheduled.                      *)
FairSpec == Spec /\ \A t \in Threads : WF_vars(PushStep(t) \/ PopStep(t))
-----------------------------------------------------------------------------
(* Properties *)

Swinging == {t \in Threads : pc[t] = "pSwing"}

\* The memory holds one list, in linking order, from the first node ever to
\* the last one linked, and queueHead is on it.
ChainInMemory ==
  /\ headPos \in 1 .. Len(chain) /\ queueHead = chain[headPos]
  /\ \A i \in 1 .. Len(chain) :
       next[chain[i]] = IF i = Len(chain) THEN nullptr ELSE chain[i + 1]

\* queueTail lags behind the last node by at most one node, and only while
\* the thread that linked that node is about to move it, so the asserted
\* compare_exchange_weak of push never fails.
TailLagsByOne ==
  ~NDEBUG =>
    \/ Swinging = {} /\ queueTail = chain[Len(chain)]
    \/ \E t \in Threads :
         /\ Swinging = {t}
         /\ Len(chain) > 1
         /\ queueTail = chain[Len(chain) - 1] /\ tailNode[t] = queueTail
         /\ newNode[t] = chain[Len(chain)]

\* Wherever the other threads are, the nodes form one list, and each push
\* finds its end in one step or waits for one other push at most.
ChainExact == ChainInMemory /\ TailLagsByOne

\* push and pop are linearizable: the queue behaves as if each of them took
\* effect at once, in first-in first-out order, and a pop throws only if the
\* queue is empty at some instant of the call.
Contents == [i \in 1 .. Len(chain) - headPos |-> value[chain[headPos + i]]]

PhaseAt(place) ==
  CASE place = "idle"                       -> "idle"
    [] place \in {"pLoad", "pLink"}         -> "push"
    [] place \in {"pSwing", "aborted"}      -> "pushed"
    [] place \in {"qHead", "qNext", "qTake"} -> "pop"
    [] place \in {"qRead", "qReturn"}       -> "popped"

Phase == [t \in Threads |-> PhaseAt(pc[t])]

Datum == [t \in Threads |->
  CASE pc[t] \in {"pLoad", "pLink"} -> value[newNode[t]]
    [] pc[t] = "qRead"              -> value[newHead[t]]
    [] pc[t] = "qReturn"            -> result[t]
    [] OTHER                        -> NoValue]

Abstract == INSTANCE ContainerSpec
  WITH contents <- Contents, phase <- Phase, datum <- Datum,
       Discipline <- "FIFO"
ImplementsQueue == Abstract!Spec

\* Every push returns, and every pop, with a value or by throwing, whatever
\* the other threads do, as long as the pushes of a run are finite in number
\* (MaxNodes).
CallsReturn == \A t \in Threads : pc[t] # "idle" ~> pc[t] = "idle"
=============================================================================
