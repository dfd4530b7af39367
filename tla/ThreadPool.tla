----------------------------- MODULE ThreadPool -----------------------------
(***************************************************************************)
(* core2/async/ThreadPool.h, with an owner that constructs the pool, adds  *)
(* tasks, waits for futures and destroys the pool (as bin/async.cc does),  *)
(* and tasks that may add tasks of their own and wait for them.            *)
(*                                                                         *)
(* taskQueue and stopped are only touched under mux; the code between two  *)
(* points at which mux is free is one action.  A worker asleep in          *)
(* readyToContinue.wait is "asleep"; a notification, or a spurious wake-   *)
(* up, moves it to "ready", where it competes for mux to evaluate the      *)
(* predicate.  A std::packaged_task keeps an exception of its function, so *)
(* a task always comes back to the worker that runs it.                    *)
(***************************************************************************)
EXTENDS Integers, Sequences, FiniteSets

CONSTANTS
  Workers,    \* the threads of the pool
  Tasks,      \* every task that may ever be added
  NoTask,
  Owner,      \* the thread that owns the pool
  Parent,     \* who adds a task: the owner, or the task that runs
  MayWait     \* the tasks that may wait for the futures of those they added

ASSUME PoolAssumption ==
  /\ IsFiniteSet(Workers) /\ Workers # {}
  /\ NoTask \notin Tasks /\ Owner \notin Tasks
  /\ Parent \in [Tasks -> Tasks \cup {Owner}]
  /\ MayWait \subseteq Tasks

VARIABLES
  waits,      \* how the pool is used: the tasks that do wait, and whether
  getsAll,    \* the owner gets every future before it destroys the pool
  taskQueue,
  stopped,
  worker,     \* where each worker is
  func,       \* the task each worker has taken
  owner,      \* where the owner is
  awaited,    \* the task whose future the owner is waiting for
  done,       \* the tasks whose futures are ready
  added,      \* history: tasks in the order they were added
  taken       \* history: tasks in the order they were taken

use  == <<waits, getsAll>>
vars == <<use, taskQueue, stopped, worker, func, owner, awaited, done, added,
          taken>>

Submitted == {added[i] : i \in 1 .. Len(added)}
Children(p) == {c \in Tasks : Parent[c] = p}

Init ==
  /\ waits \in SUBSET MayWait
  /\ getsAll \in BOOLEAN
  /\ taskQueue = <<>>
  /\ stopped = FALSE
  /\ worker = [w \in Workers |-> "unborn"]
  /\ func = [w \in Workers |-> NoTask]
  /\ owner = "constructor"
  /\ awaited = NoTask
  /\ done = {}
  /\ added = <<>>
  /\ taken = <<>>
-----------------------------------------------------------------------------
\* faulty variant: the notification is forgotten
NotifyNobody == worker

NotifyAll ==
  [w \in Workers |-> IF worker[w] = "asleep" THEN "ready" ELSE worker[w]]

\* faulty variant: the newest task goes first
EnqueuedFirst(c) == <<c>> \o taskQueue

Enqueued(c) == Append(taskQueue, c)

\* What addTask does to the shared state, for the owner or for a task.
AddTask(c) ==
  /\ c \notin Submitted
  /\ taskQueue' = Enqueued(c)
  /\ added' = Append(added, c)
  /\ worker' = NotifyAll
  /\ UNCHANGED <<use, stopped, func, awaited, done, taken>>
-----------------------------------------------------------------------------
(* The constructor and its threads                                         *)

StartWorker(w) ==
  /\ owner = "constructor"
  /\ worker[w] = "unborn"
  /\ worker' = [worker EXCEPT ![w] = "ready"]
  /\ owner' = IF \A u \in Workers : worker'[u] # "unborn"
                THEN "using" ELSE "constructor"
  /\ UNCHANGED <<use, taskQueue, stopped, func, awaited, done, added, taken>>

\* faulty variant: a worker does not look at the queue before it leaves
LeavesAtOnce == stopped

MustLeave == stopped /\ taskQueue = <<>>

WorkerExit(w) ==
  /\ worker[w] = "ready"
  /\ MustLeave
  /\ worker' = [worker EXCEPT ![w] = "exited"]
  /\ UNCHANGED <<use, taskQueue, stopped, func, owner, awaited, done, added,
                 taken>>

\* faulty variant: the task stays in the queue
KeepsTask == taskQueue

RestOfQueue == Tail(taskQueue)

WorkerTake(w) ==
  /\ worker[w] = "ready"
  /\ ~MustLeave
  /\ taskQueue # <<>>
  /\ func' = [func EXCEPT ![w] = Head(taskQueue)]
  /\ taken' = Append(taken, Head(taskQueue))
  /\ taskQueue' = RestOfQueue
  /\ worker' = [worker EXCEPT ![w] = "running"]
  /\ UNCHANGED <<use, stopped, owner, awaited, done, added>>

MustSleep == ~stopped /\ taskQueue = <<>>

WorkerSleep(w) ==
  /\ worker[w] = "ready"
  /\ MustSleep
  /\ worker' = [worker EXCEPT ![w] = "asleep"]
  /\ UNCHANGED <<use, taskQueue, stopped, func, owner, awaited, done, added,
                 taken>>

SpuriousWakeup(w) ==
  /\ worker[w] = "asleep"
  /\ worker' = [worker EXCEPT ![w] = "ready"]
  /\ UNCHANGED <<use, taskQueue, stopped, func, owner, awaited, done, added,
                 taken>>

\* func() calls addTask.
TaskAdds(w, c) ==
  /\ worker[w] = "running"
  /\ Parent[c] = func[w]
  /\ AddTask(c)
  /\ UNCHANGED owner

FuncDestroyed(w) == [func EXCEPT ![w] = NoTask]

\* func() returns: it has added its tasks, and waited for them if it does.
TaskReturns(w) ==
  /\ worker[w] = "running"
  /\ Children(func[w]) \subseteq Submitted
  /\ func[w] \in waits => Children(func[w]) \subseteq done
  /\ done' = done \cup {func[w]}
  /\ func' = FuncDestroyed(w)
  /\ worker' = [worker EXCEPT ![w] = "ready"]
  /\ UNCHANGED <<use, taskQueue, stopped, owner, awaited, added, taken>>
-----------------------------------------------------------------------------
(* The owner, in its own code and in the destructor                        *)

OwnerAdds(c) ==
  /\ owner = "using"
  /\ Parent[c] = Owner
  /\ AddTask(c)
  /\ UNCHANGED owner

OwnerCallsGet(c) ==
  /\ owner = "using"
  /\ Parent[c] = Owner /\ c \in Submitted
  /\ owner' = "get"
  /\ awaited' = c
  /\ UNCHANGED <<use, taskQueue, stopped, worker, func, done, added, taken>>

OwnerGets ==
  /\ owner = "get"
  /\ awaited \in done
  /\ owner' = "using"
  /\ awaited' = NoTask
  /\ UNCHANGED <<use, taskQueue, stopped, worker, func, done, added, taken>>

Stop ==
  /\ owner = "using"
  /\ getsAll => \A c \in Submitted : Parent[c] = Owner => c \in done
  /\ owner' = "notify"
  /\ stopped' = TRUE
  /\ UNCHANGED <<use, taskQueue, worker, func, awaited, done, added, taken>>

\* faulty variant: one worker is woken, whichever
NotifyOne == LET asleep == {w \in Workers : worker[w] = "asleep"}
             IN  IF asleep = {} THEN worker
                 ELSE [worker EXCEPT ![CHOOSE w \in asleep : TRUE] = "ready"]

WokenByStop == NotifyAll

\* mux has been released before notify_all is called.
NotifyStop ==
  /\ owner = "notify"
  /\ owner' = "join"
  /\ worker' = WokenByStop
  /\ UNCHANGED <<use, taskQueue, stopped, func, awaited, done, added, taken>>

\* The last of the threads has been joined.
Join ==
  /\ owner = "join"
  /\ \A w \in Workers : worker[w] = "exited"
  /\ owner' = "destroyed"
  /\ UNCHANGED <<use, taskQueue, stopped, worker, func, awaited, done, added,
                 taken>>
-----------------------------------------------------------------------------
WorkerStep(w) ==
  \/ WorkerExit(w) \/ WorkerTake(w) \/ WorkerSleep(w)
  \/ \E c \in Tasks : TaskAdds(w, c)
  \/ TaskReturns(w)

OwnerStep ==
  (\E w \in Workers : StartWorker(w)) \/ OwnerGets \/ NotifyStop \/ Join

Next ==
  \/ \E w \in Workers : WorkerStep(w) \/ SpuriousWakeup(w)
  \/ OwnerStep
  \/ \E c \in Tasks : OwnerAdds(c) \/ OwnerCallsGet(c)
  \/ Stop

Spec == Init /\ [][Next]_vars

(* A thread that competes for mux gets it, a task finishes unless it waits *)
(* for another one, and the constructor, get and the destructor run as far *)
(* as they can.  Nothing obliges the owner to add tasks or to stop.        *)
FairSpec == /\ Spec
            /\ \A w \in Workers : WF_vars(WorkerStep(w))
            /\ WF_vars(OwnerStep)
-----------------------------------------------------------------------------
(* Properties *)

\* Tasks are taken in the order in which they were added, whoever added them.
TakenInOrder == taken \o taskQueue = added

\* A task that was added waits in the queue, or is run by one worker, or has
\* been run: none is lost, and none is run by two workers or a second time.
EachTaskOnce ==
  /\ \A i, j \in 1 .. Len(added) : added[i] = added[j] => i = j
  /\ \A i \in 1 .. Len(taken) :
       \/ taken[i] \in done /\ \A w \in Workers : func[w] # taken[i]
       \/ taken[i] \notin done /\ \E w \in Workers : func[w] = taken[i]
  /\ \A w, u \in Workers : func[w] = func[u] /\ func[w] # NoTask => w = u

\* No worker sleeps while there is something to do, or after the destructor
\* has sent its notification.
NoSleeperLeftBehind ==
  (taskQueue # <<>> \/ owner \in {"join", "destroyed"}) =>
    \A w \in Workers : worker[w] # "asleep"

\* When the destructor returns every task ever added has been run, those
\* that running tasks added after the destructor was called included.
DrainedWhenDestroyed ==
  owner = "destroyed" => taskQueue = <<>> /\ Submitted = done

\* Tasks that wait for tasks they added need a worker more than there are
\* of them, and an owner that has added them and does not destroy the pool
\* meanwhile: idle workers leave once stopped is set, and a task added by a
\* task may be taken when there is one worker left.
Harmless ==
  \/ waits = {}
  \/ /\ IsFiniteSet(waits) /\ Cardinality(waits) < Cardinality(Workers)
     /\ getsAll /\ \A t \in waits : Parent[t] = Owner

\* Every task that is added is run, if the tasks that wait are harmless.
TasksAreRun ==
  \A c \in Tasks : (Harmless /\ c \in Submitted) ~> c \in done

\* The destructor returns, on the same condition.
DestructorReturns == (Harmless /\ owner = "notify") ~> owner = "destroyed"
=============================================================================
