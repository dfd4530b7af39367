-------------------------- MODULE ThreadPool_proofs -------------------------
(***************************************************************************)
(* The safety of the thread pool, for every finite set of workers, every   *)
(* set of tasks and whatever tasks the tasks add.                          *)
(***************************************************************************)
EXTENDS ThreadPool, FiniteSetTheorems, TLAPS

WorkerStates == {"unborn", "ready", "asleep", "running", "exited"}
OwnerStates  ==
  {"constructor", "using", "get", "notify", "join", "destroyed"}

TypeOK ==
  /\ taskQueue \in Seq(Tasks) /\ added \in Seq(Tasks) /\ taken \in Seq(Tasks)
  /\ stopped \in BOOLEAN
  /\ worker \in [Workers -> WorkerStates]
  /\ func \in [Workers -> Tasks \cup {NoTask}]
  /\ owner \in OwnerStates
  /\ done \in SUBSET Tasks

Taken == {taken[i] : i \in 1 .. Len(taken)}

(* What a worker holds and what is done has been taken from the queue.     *)
OnlyTakenTasks ==
  /\ \A w \in Workers : func[w] = NoTask <=> worker[w] # "running"
  /\ \A w \in Workers : func[w] # NoTask => func[w] \in Taken
  /\ done \subseteq Taken

(* stopped is set for good in the destructor, workers leave only then, and *)
(* the last of them leaves an empty queue.                                 *)
Shutdown ==
  /\ stopped <=> owner \in {"notify", "join", "destroyed"}
  /\ ~stopped => \A w \in Workers : worker[w] # "exited"
  /\ (\A w \in Workers : worker[w] = "exited") => taskQueue = <<>>
  /\ owner = "destroyed" => \A w \in Workers : worker[w] = "exited"

IInv == /\ TypeOK
        /\ TakenInOrder
        /\ OnlyTakenTasks
        /\ EachTaskOnce
        /\ Shutdown
        /\ NoSleeperLeftBehind
-----------------------------------------------------------------------------
(* taskQueue.push and taskQueue.pop against the order of all tasks.        *)
LEMMA PushKeepsOrder ==
  ASSUME NEW S, NEW s \in Seq(S), NEW q \in Seq(S), NEW e \in S
  PROVE  s \o Append(q, e) = Append(s \o q, e)
  OBVIOUS

(* The task popped is the one behind all tasks taken before.               *)
LEMMA PopKeepsOrder ==
  ASSUME NEW S, NEW s \in Seq(S), NEW q \in Seq(S), q # <<>>
  PROVE  /\ Head(q) \in S /\ Tail(q) \in Seq(S)
         /\ Append(s, Head(q)) \o Tail(q) = s \o q
         /\ (s \o q)[Len(s) + 1] = Head(q)
         /\ Len(s) + 1 \in 1 .. Len(s \o q)
  OBVIOUS
-----------------------------------------------------------------------------
(* The constructor starts with an empty queue and no worker.               *)
LEMMA InitIInv == Init => IInv
  <1> SUFFICES ASSUME Init PROVE IInv
    OBVIOUS
  <1>1. TypeOK
    <2>1. taskQueue \in Seq(Tasks) /\ added \in Seq(Tasks) /\ taken \in Seq(Tasks)
      BY DEF Init
    <2>2. worker \in [Workers -> WorkerStates]
      BY DEF Init, WorkerStates
    <2>3. func \in [Workers -> Tasks \cup {NoTask}]
      BY DEF Init
    <2>4. stopped \in BOOLEAN /\ owner \in OwnerStates /\ done \in SUBSET Tasks
      BY DEF Init, OwnerStates
    <2> QED
      BY <2>1, <2>2, <2>3, <2>4 DEF TypeOK
  <1>2. TakenInOrder
    BY DEF Init, TakenInOrder
  <1>3. OnlyTakenTasks /\ EachTaskOnce
    BY PoolAssumption DEF Init, OnlyTakenTasks, Taken, EachTaskOnce
  <1>4. Shutdown /\ NoSleeperLeftBehind
    BY DEF Init, Shutdown, NoSleeperLeftBehind
  <1> QED
    BY <1>1, <1>2, <1>3, <1>4 DEF IInv

(* addTask, called by the owner or by a task that runs: the new task goes  *)
(* behind all others, and some thread is there to see it run.              *)
LEMMA AddTaskIInv ==
  ASSUME IInv, NEW c \in Tasks, AddTask(c), UNCHANGED owner,
         owner = "using" \/ \E w \in Workers : worker[w] = "running"
  PROVE  IInv'
  <1>1. TypeOK'
    BY DEF IInv, TypeOK, AddTask, Enqueued, NotifyAll, WorkerStates, use
  <1>2. TakenInOrder'
    BY PushKeepsOrder DEF IInv, TypeOK, TakenInOrder, AddTask, Enqueued
  <1>3. \A w \in Workers :
          \/ worker'[w] = worker[w] /\ worker[w] # "asleep"
          \/ worker'[w] = "ready" /\ worker[w] = "asleep"
    BY DEF IInv, TypeOK, AddTask, NotifyAll
  <1>4. OnlyTakenTasks'
    BY <1>3 DEF IInv, TypeOK, OnlyTakenTasks, Taken, AddTask
  <1>5. EachTaskOnce'
    BY DEF IInv, TypeOK, EachTaskOnce, AddTask, Submitted
  <1>6. Shutdown'
    BY <1>3, PoolAssumption DEF IInv, TypeOK, Shutdown, AddTask
  <1>7. NoSleeperLeftBehind'
    BY <1>3 DEF NoSleeperLeftBehind
  <1> QED
    BY <1>1, <1>2, <1>4, <1>5, <1>6, <1>7 DEF IInv

(* A worker takes the oldest task in the queue, which nobody took before:  *)
(* it stands behind all taken tasks, and no task was added twice.          *)
LEMMA WorkerTakeIInv ==
  ASSUME IInv, NEW w \in Workers, WorkerTake(w)
  PROVE  IInv'
  <1> DEFINE e == Head(taskQueue)
  <1>1. /\ e \in Tasks /\ Tail(taskQueue) \in Seq(Tasks)
        /\ Append(taken, e) \o Tail(taskQueue) = added
        /\ added[Len(taken) + 1] = e
        /\ Len(taken) + 1 \in 1 .. Len(added)
    BY PopKeepsOrder DEF IInv, TypeOK, TakenInOrder, WorkerTake
  <1>2. \A i \in 1 .. Len(taken) :
          taken[i] = added[i] /\ i \in 1 .. Len(added) /\ i # Len(taken) + 1
    BY DEF IInv, TypeOK, TakenInOrder
  <1>3. e \notin Taken
    BY <1>1, <1>2 DEF IInv, EachTaskOnce, Taken
  <1>4. /\ Len(taken') = Len(taken) + 1
        /\ \A i \in 1 .. Len(taken) : taken'[i] = taken[i]
        /\ taken'[Len(taken) + 1] = e
        /\ Taken' = Taken \cup {e}
    <2>1. taken' = Append(taken, e) /\ taken \in Seq(Tasks)
      BY DEF IInv, TypeOK, WorkerTake
    <2> HIDE DEF e
    <2>2. /\ Len(taken') = Len(taken) + 1
          /\ \A i \in 1 .. Len(taken) : taken'[i] = taken[i]
          /\ taken'[Len(taken) + 1] = e
      BY <1>1, <2>1
    <2>3. Taken' = Taken \cup {e}
      BY <2>1, <2>2 DEF Taken
    <2> QED BY <2>2, <2>3
  <1>5. /\ worker' = [worker EXCEPT ![w] = "running"] /\ worker[w] = "ready"
        /\ func' = [func EXCEPT ![w] = e] /\ func[w] = NoTask
        /\ UNCHANGED <<stopped, owner, done, added>>
    BY DEF IInv, OnlyTakenTasks, WorkerTake
  <1>6. TypeOK'
    BY <1>1, <1>5 DEF IInv, TypeOK, WorkerTake, RestOfQueue, WorkerStates
  <1>7. TakenInOrder'
    BY <1>1 DEF TakenInOrder, WorkerTake, RestOfQueue
  <1>8. OnlyTakenTasks'
    BY <1>1, <1>4, <1>5, PoolAssumption DEF IInv, TypeOK, OnlyTakenTasks
  <1>9. EachTaskOnce'
    <2>1. \A v \in Workers : func[v] # e
      BY <1>1, <1>3, PoolAssumption DEF IInv, OnlyTakenTasks
    <2>2. e \notin done
      BY <1>3 DEF IInv, OnlyTakenTasks
    <2>3. \A v \in Workers : func'[v] = IF v = w THEN e ELSE func[v]
      BY <1>5 DEF IInv, TypeOK
    <2>4. \A i \in 1 .. Len(taken) : taken[i] # e /\ taken[i] # NoTask
      <3>1. \A i \in 1 .. Len(taken) : taken[i] \in Tasks
        BY DEF IInv, TypeOK
      <3> QED BY <1>3, <3>1, PoolAssumption DEF Taken
    <2>5. ASSUME NEW i \in 1 .. Len(taken')
          PROVE  \/ taken'[i] \in done' /\ \A v \in Workers : func'[v] # taken'[i]
                 \/ taken'[i] \notin done' /\ \E v \in Workers : func'[v] = taken'[i]
      <3>1. CASE i = Len(taken) + 1
        BY <3>1, <2>2, <2>3, <1>4, <1>5
      <3>2. CASE i \in 1 .. Len(taken)
        BY <3>2, <2>3, <2>4, <1>4, <1>5 DEF IInv, EachTaskOnce
      <3> QED
        BY <3>1, <3>2, <1>4 DEF IInv, TypeOK
    <2>6. \A v, u \in Workers : func'[v] = func'[u] /\ func'[v] # NoTask => v = u
      BY <2>1, <2>3 DEF IInv, EachTaskOnce
    <2> QED
      BY <2>5, <2>6, <1>5 DEF IInv, EachTaskOnce
  <1>10. Shutdown'
    BY <1>5 DEF IInv, TypeOK, Shutdown, WorkerTake
  <1>11. NoSleeperLeftBehind'
    BY <1>5 DEF IInv, TypeOK, NoSleeperLeftBehind, WorkerTake
  <1> QED
    BY <1>6, <1>7, <1>8, <1>9, <1>10, <1>11 DEF IInv
-----------------------------------------------------------------------------
(* The task a worker has run is done, and nobody else holds it.            *)
LEMMA TaskReturnsIInv ==
  ASSUME IInv, NEW w \in Workers, TaskReturns(w)
  PROVE  IInv'
  <1>1. /\ worker[w] = "running" /\ worker' = [worker EXCEPT ![w] = "ready"]
        /\ func' = [func EXCEPT ![w] = NoTask]
        /\ func[w] \in Tasks /\ func[w] \in Taken
        /\ done' = done \cup {func[w]}
        /\ UNCHANGED <<taskQueue, stopped, owner, added, taken>>
    BY DEF IInv, TypeOK, OnlyTakenTasks, TaskReturns, FuncDestroyed
  <1>2. TypeOK' /\ TakenInOrder'
    BY <1>1 DEF IInv, TypeOK, TakenInOrder, WorkerStates
  <1>3. OnlyTakenTasks'
    BY <1>1 DEF IInv, TypeOK, OnlyTakenTasks, Taken
  <1>4. EachTaskOnce'
    <2>1. \A v \in Workers : func'[v] = IF v = w THEN NoTask ELSE func[v]
      BY <1>1 DEF IInv, TypeOK
    <2>2. \A i \in 1 .. Len(taken) : taken[i] \in Tasks /\ taken[i] # NoTask
      BY PoolAssumption DEF IInv, TypeOK
    <2>3. \A v \in Workers : func[v] = func[w] => v = w
      BY <1>1, PoolAssumption DEF IInv, EachTaskOnce
    <2>4. ASSUME NEW i \in 1 .. Len(taken)
          PROVE  \/ taken[i] \in done' /\ \A v \in Workers : func'[v] # taken[i]
                 \/ taken[i] \notin done' /\ \E v \in Workers : func'[v] = taken[i]
      <3>1. CASE taken[i] = func[w]
        BY <3>1, <2>1, <2>2, <2>3, <1>1
      <3>2. CASE taken[i] # func[w]
        BY <3>2, <2>1, <2>2, <1>1 DEF IInv, EachTaskOnce
      <3> QED
        BY <3>1, <3>2
    <2>5. \A v, u \in Workers : func'[v] = func'[u] /\ func'[v] # NoTask => v = u
      BY <2>1 DEF IInv, EachTaskOnce
    <2> QED
      BY <2>4, <2>5, <1>1 DEF IInv, EachTaskOnce
  <1>5. Shutdown' /\ NoSleeperLeftBehind'
    BY <1>1 DEF IInv, TypeOK, Shutdown, NoSleeperLeftBehind
  <1> QED
    BY <1>2, <1>3, <1>4, <1>5 DEF IInv

(* A step that moves no task keeps what is said of the tasks.              *)
LEMMA TasksStay ==
  ASSUME IInv, UNCHANGED <<taskQueue, func, done, added, taken>>,
         \A w \in Workers : worker'[w] = "running" <=> worker[w] = "running"
  PROVE  TakenInOrder' /\ OnlyTakenTasks' /\ EachTaskOnce'
  BY DEF IInv, TakenInOrder, OnlyTakenTasks, Taken, EachTaskOnce

(* A worker that has nothing to run leaves, falls asleep or is woken; the  *)
(* predicate of the wait is evaluated under mux, so it falls asleep only   *)
(* if there is nothing in the queue and the destructor has not yet begun.  *)
LEMMA WorkerIdlesIInv ==
  ASSUME IInv, NEW w \in Workers,
         StartWorker(w) \/ WorkerExit(w) \/ WorkerSleep(w) \/ SpuriousWakeup(w)
  PROVE  IInv'
  <1>1. CASE StartWorker(w)
    <2>1. /\ ~stopped /\ owner' \in {"constructor", "using"}
          /\ owner = "constructor" /\ worker[w] = "unborn"
          /\ worker' = [worker EXCEPT ![w] = "ready"]
          /\ UNCHANGED <<taskQueue, stopped, func, done, added, taken>>
      BY <1>1 DEF IInv, Shutdown, StartWorker
    <2>2. TypeOK'
      BY <2>1 DEF IInv, TypeOK, WorkerStates, OwnerStates
    <2>3. TakenInOrder' /\ OnlyTakenTasks' /\ EachTaskOnce'
      BY <2>1, TasksStay DEF IInv, TypeOK
    <2>4. Shutdown' /\ NoSleeperLeftBehind'
      BY <2>1 DEF IInv, TypeOK, Shutdown, NoSleeperLeftBehind
    <2> QED
      BY <2>2, <2>3, <2>4 DEF IInv
  <1>2. CASE WorkerExit(w)
    <2>1. /\ stopped /\ taskQueue = <<>> /\ worker[w] = "ready"
          /\ worker' = [worker EXCEPT ![w] = "exited"]
          /\ UNCHANGED <<taskQueue, stopped, owner, func, done, added, taken>>
      BY <1>2 DEF WorkerExit, MustLeave
    <2>2. TypeOK'
      BY <2>1 DEF IInv, TypeOK, WorkerStates
    <2>3. TakenInOrder' /\ OnlyTakenTasks' /\ EachTaskOnce'
      BY <2>1, TasksStay DEF IInv, TypeOK
    <2>4. Shutdown' /\ NoSleeperLeftBehind'
      BY <2>1 DEF IInv, TypeOK, Shutdown, NoSleeperLeftBehind
    <2> QED
      BY <2>2, <2>3, <2>4 DEF IInv
  <1>3. CASE WorkerSleep(w)
    <2>1. /\ ~stopped /\ taskQueue = <<>> /\ worker[w] = "ready"
          /\ worker' = [worker EXCEPT ![w] = "asleep"]
          /\ UNCHANGED <<taskQueue, stopped, owner, func, done, added, taken>>
      BY <1>3 DEF WorkerSleep, MustSleep
    <2>2. TypeOK'
      BY <2>1 DEF IInv, TypeOK, WorkerStates
    <2>3. TakenInOrder' /\ OnlyTakenTasks' /\ EachTaskOnce'
      BY <2>1, TasksStay DEF IInv, TypeOK
    <2>4. Shutdown' /\ NoSleeperLeftBehind'
      BY <2>1 DEF IInv, TypeOK, Shutdown, NoSleeperLeftBehind
    <2> QED
      BY <2>2, <2>3, <2>4 DEF IInv
  <1>4. CASE SpuriousWakeup(w)
    <2>1. /\ worker[w] = "asleep" /\ worker' = [worker EXCEPT ![w] = "ready"]
          /\ UNCHANGED <<taskQueue, stopped, owner, func, done, added, taken>>
      BY <1>4 DEF SpuriousWakeup
    <2>2. TypeOK'
      BY <2>1 DEF IInv, TypeOK, WorkerStates
    <2>3. TakenInOrder' /\ OnlyTakenTasks' /\ EachTaskOnce'
      BY <2>1, TasksStay DEF IInv, TypeOK
    <2>4. Shutdown' /\ NoSleeperLeftBehind'
      BY <2>1 DEF IInv, TypeOK, Shutdown, NoSleeperLeftBehind
    <2> QED
      BY <2>2, <2>3, <2>4 DEF IInv
  <1> QED
    BY <1>1, <1>2, <1>3, <1>4
-----------------------------------------------------------------------------
(* The owner gets futures, or goes through the destructor: stopped is set  *)
(* under mux, the sleepers are notified after it has been released, and    *)
(* the threads are joined last.                                            *)
LEMMA OwnerIInv ==
  ASSUME IInv,
         (\E c \in Tasks : OwnerCallsGet(c)) \/ OwnerGets \/ Stop
           \/ NotifyStop \/ Join
  PROVE  IInv'
  <1>1. CASE (\E c \in Tasks : OwnerCallsGet(c)) \/ OwnerGets
    <2>1. /\ owner \in {"using", "get"} /\ owner' \in {"using", "get"}
          /\ UNCHANGED <<taskQueue, stopped, worker, func, done, added, taken>>
      BY <1>1 DEF OwnerCallsGet, OwnerGets
    <2>2. TypeOK'
      BY <2>1 DEF IInv, TypeOK, OwnerStates
    <2>3. TakenInOrder' /\ OnlyTakenTasks' /\ EachTaskOnce'
      BY <2>1, TasksStay
    <2>4. Shutdown' /\ NoSleeperLeftBehind'
      BY <2>1 DEF IInv, Shutdown, NoSleeperLeftBehind
    <2> QED
      BY <2>2, <2>3, <2>4 DEF IInv
  <1>2. CASE Stop
    <2>1. /\ owner = "using" /\ owner' = "notify" /\ stopped' = TRUE
          /\ UNCHANGED <<taskQueue, worker, func, done, added, taken>>
      BY <1>2 DEF Stop
    <2>2. TypeOK'
      BY <2>1 DEF IInv, TypeOK, OwnerStates
    <2>3. TakenInOrder' /\ OnlyTakenTasks' /\ EachTaskOnce'
      BY <2>1, TasksStay
    <2>4. Shutdown' /\ NoSleeperLeftBehind'
      BY <2>1 DEF IInv, Shutdown, NoSleeperLeftBehind
    <2> QED
      BY <2>2, <2>3, <2>4 DEF IInv
  <1>3. CASE NotifyStop
    <2>1. /\ owner = "notify" /\ owner' = "join"
          /\ UNCHANGED <<taskQueue, stopped, func, done, added, taken>>
      BY <1>3 DEF NotifyStop
    <2>2. /\ worker' \in [Workers -> WorkerStates]
          /\ \A w \in Workers :
               \/ worker'[w] = worker[w] /\ worker[w] # "asleep"
               \/ worker'[w] = "ready" /\ worker[w] = "asleep"
      BY <1>3 DEF IInv, TypeOK, NotifyStop, WokenByStop, NotifyAll, WorkerStates
    <2>3. TypeOK'
      BY <2>1, <2>2 DEF IInv, TypeOK, OwnerStates
    <2>4. TakenInOrder' /\ OnlyTakenTasks' /\ EachTaskOnce'
      BY <2>1, <2>2, TasksStay
    <2>5. Shutdown' /\ NoSleeperLeftBehind'
      BY <2>1, <2>2 DEF IInv, Shutdown, NoSleeperLeftBehind
    <2> QED
      BY <2>3, <2>4, <2>5 DEF IInv
  <1>4. CASE Join
    <2>1. /\ owner = "join" /\ owner' = "destroyed"
          /\ \A w \in Workers : worker[w] = "exited"
          /\ UNCHANGED <<taskQueue, stopped, worker, func, done, added, taken>>
      BY <1>4 DEF Join
    <2>2. TypeOK'
      BY <2>1 DEF IInv, TypeOK, OwnerStates
    <2>3. TakenInOrder' /\ OnlyTakenTasks' /\ EachTaskOnce'
      BY <2>1, TasksStay
    <2>4. Shutdown' /\ NoSleeperLeftBehind'
      BY <2>1 DEF IInv, Shutdown, NoSleeperLeftBehind
    <2> QED
      BY <2>2, <2>3, <2>4 DEF IInv
  <1> QED
    BY <1>1, <1>2, <1>3, <1>4

(* Every step of a worker or of the owner keeps the inductive invariant.   *)
LEMMA NextIInv == IInv /\ [Next]_vars => IInv'
  <1> SUFFICES ASSUME IInv, [Next]_vars PROVE IInv'
    OBVIOUS
  <1>1. ASSUME NEW w \in Workers, WorkerStep(w) PROVE IInv'
    <2>1. ASSUME NEW c \in Tasks, TaskAdds(w, c) PROVE IInv'
      BY <2>1, AddTaskIInv DEF TaskAdds
    <2> QED
      BY <1>1, <2>1, WorkerIdlesIInv, WorkerTakeIInv, TaskReturnsIInv
      DEF WorkerStep
  <1>2. ASSUME NEW c \in Tasks, OwnerAdds(c) PROVE IInv'
    BY <1>2, AddTaskIInv DEF OwnerAdds
  <1>3. CASE OwnerStep
    BY <1>3, OwnerIInv, WorkerIdlesIInv DEF OwnerStep
  <1>4. CASE UNCHANGED vars
    <2>1. UNCHANGED <<taskQueue, stopped, worker, func, owner, done, added,
                      taken>>
      BY <1>4 DEF vars
    <2>2. TypeOK'
      BY <2>1 DEF IInv, TypeOK
    <2>3. TakenInOrder' /\ OnlyTakenTasks' /\ EachTaskOnce'
      BY <2>1, TasksStay
    <2>4. Shutdown' /\ NoSleeperLeftBehind'
      BY <2>1 DEF IInv, Shutdown, NoSleeperLeftBehind
    <2> QED
      BY <2>2, <2>3, <2>4 DEF IInv
  <1> QED
    BY <1>1, <1>2, <1>3, <1>4, OwnerIInv, WorkerIdlesIInv DEF Next

(* The inductive invariant holds in every state the pool reaches.          *)
THEOREM Invariance == Spec => []IInv
  BY InitIInv, NextIInv, PTL DEF Spec
-----------------------------------------------------------------------------
(* Workers take the tasks in the order in which addTask got them, from the *)
(* owner or from a task: taskQueue loses and reorders none.                *)
THEOREM TasksTakenInOrder == Spec => []TakenInOrder
  <1>1. IInv => TakenInOrder
    BY DEF IInv
  <1> QED
    BY <1>1, Invariance, PTL

(* The function of ThreadPool's threads runs a task once, in one worker,   *)
(* and no task it has taken disappears before its future is ready.         *)
THEOREM TasksRunOnce == Spec => []EachTaskOnce
  <1>1. IInv => EachTaskOnce
    BY DEF IInv
  <1> QED
    BY <1>1, Invariance, PTL

(* No notification is lost: neither addTask nor the destructor, which      *)
(* notifies after it has released mux, leaves a worker asleep.             *)
THEOREM NoLostNotification == Spec => []NoSleeperLeftBehind
  <1>1. IInv => NoSleeperLeftBehind
    BY DEF IInv
  <1> QED
    BY <1>1, Invariance, PTL

(* ~ThreadPool returns only when every task ever added has been run: the   *)
(* last worker leaves an empty queue, and only workers could refill it.    *)
THEOREM DestructorDrains == Spec => []DrainedWhenDestroyed
  <1>1. ASSUME IInv, owner = "destroyed"
        PROVE  taskQueue = <<>> /\ Submitted = done
    <2>1. taskQueue = <<>> /\ \A w \in Workers : func[w] = NoTask
      BY <1>1 DEF IInv, Shutdown, OnlyTakenTasks
    <2>2. added = taken
      BY <1>1, <2>1 DEF IInv, TypeOK, TakenInOrder
    <2>3. \A i \in 1 .. Len(taken) : taken[i] \in Tasks /\ taken[i] # NoTask
      BY <1>1, PoolAssumption DEF IInv, TypeOK
    <2>4. \A i \in 1 .. Len(taken) : taken[i] \in done
      BY <1>1, <2>1, <2>3 DEF IInv, EachTaskOnce
    <2> QED
      BY <1>1, <2>1, <2>2, <2>4 DEF IInv, OnlyTakenTasks, Taken, Submitted
  <1>2. IInv => DrainedWhenDestroyed
    BY <1>1 DEF DrainedWhenDestroyed
  <1> QED
    BY <1>2, Invariance, PTL
-----------------------------------------------------------------------------
(* Tasks that wait for others.  The constructor ends when all workers are  *)
(* there, and nothing is added before; an owner that gets all its futures  *)
(* has none of its own tasks left when it stops the pool.                  *)
Phases ==
  /\ \A w \in Workers : worker[w] = "unborn" => owner = "constructor"
  /\ owner = "constructor" => added = <<>>
  /\ stopped /\ getsAll =>
       \A c \in Submitted : Parent[c] = Owner => c \in done

\* The task that w runs has something left to do but to wait.
Busy(w) ==
  /\ worker[w] = "running"
  /\ \/ ~(Children(func[w]) \subseteq Submitted)
     \/ func[w] \in waits => Children(func[w]) \subseteq done

\* As long as a task is not done, a worker runs one or can take one: tasks
\* do not wait for each other, nor for workers that have left.
SomeWorkerProceeds ==
  Harmless /\ ~(Submitted \subseteq done) =>
    \E w \in Workers : Busy(w) \/ (worker[w] = "ready" /\ taskQueue # <<>>)

LEMMA InitPhases == Init => Phases
  BY DEF Init, Phases

(* Who adds a task after stop is a task, and not the owner.                *)
LEMMA AddTaskPhases ==
  ASSUME IInv, Phases, NEW c \in Tasks,
         OwnerAdds(c) \/ \E w \in Workers : TaskAdds(w, c)
  PROVE  Phases'
  <1>1. /\ AddTask(c) /\ owner' = owner
        /\ added' = Append(added, c) /\ added \in Seq(Tasks)
        /\ stopped' = stopped /\ getsAll' = getsAll /\ done' = done
    BY DEF OwnerAdds, TaskAdds, AddTask, use, IInv, TypeOK
  <1>2. owner # "constructor"
    <2>1. CASE OwnerAdds(c)
      BY <2>1 DEF OwnerAdds
    <2>2. ASSUME NEW w \in Workers, TaskAdds(w, c) PROVE added # <<>>
      <3>1. func[w] \in Taken
        BY <2>2 DEF TaskAdds, IInv, OnlyTakenTasks
      <3>2. taken # <<>> /\ taken \o taskQueue = added
            /\ taken \in Seq(Tasks) /\ taskQueue \in Seq(Tasks)
        BY <3>1 DEF Taken, IInv, TypeOK, TakenInOrder
      <3> QED BY <3>2
    <2> QED BY <2>1, <2>2 DEF Phases
  <1>3. stopped => Parent[c] # Owner
    <2>1. CASE OwnerAdds(c)
      BY <2>1 DEF OwnerAdds, IInv, Shutdown
    <2>2. ASSUME NEW w \in Workers, TaskAdds(w, c) PROVE Parent[c] # Owner
      <3>1. func[w] \in Tasks /\ Parent[c] = func[w]
        BY <2>2 DEF TaskAdds, IInv, TypeOK, OnlyTakenTasks
      <3> QED BY <3>1, PoolAssumption
    <2> QED BY <2>1, <2>2
  <1>4. \A w \in Workers : worker'[w] = "unborn" => worker[w] = "unborn"
    BY <1>1 DEF AddTask, NotifyAll
  <1>5. Submitted' = Submitted \cup {c}
    BY <1>1 DEF Submitted
  <1> QED BY <1>1, <1>2, <1>3, <1>4, <1>5 DEF Phases

(* No other step adds a task, and only the owner moves the owner.          *)
LEMMA OthersKeepPhases ==
  ASSUME IInv, Phases,
         \/ \E w \in Workers : \/ WorkerExit(w) \/ WorkerTake(w)
                               \/ WorkerSleep(w) \/ TaskReturns(w)
                               \/ SpuriousWakeup(w)
         \/ OwnerStep \/ (\E c \in Tasks : OwnerCallsGet(c)) \/ Stop
  PROVE  Phases'
  <1>1. added' = added /\ getsAll' = getsAll /\ done \subseteq done'
    BY DEF WorkerExit, WorkerTake, WorkerSleep, TaskReturns, SpuriousWakeup,
           OwnerStep, StartWorker, OwnerGets, NotifyStop, Join,
           OwnerCallsGet, Stop, use
  <1>2. Submitted' = Submitted
    BY <1>1 DEF Submitted
  <1>3. \A w \in Workers : worker'[w] = "unborn" => worker[w] = "unborn"
    BY DEF WorkerExit, WorkerTake, WorkerSleep, TaskReturns, SpuriousWakeup,
           OwnerStep, StartWorker, OwnerGets, NotifyStop, WokenByStop,
           NotifyAll, Join, OwnerCallsGet, Stop, IInv, TypeOK
  <1>4. \/ owner' = owner
        \/ owner # "constructor" /\ owner' # "constructor"
        \/ \A w \in Workers : worker'[w] # "unborn"
    BY DEF WorkerExit, WorkerTake, WorkerSleep, TaskReturns, SpuriousWakeup,
           OwnerStep, StartWorker, OwnerGets, NotifyStop, Join,
           OwnerCallsGet, Stop
  <1>5. owner' = "constructor" => owner = "constructor"
    BY DEF WorkerExit, WorkerTake, WorkerSleep, TaskReturns, SpuriousWakeup,
           OwnerStep, StartWorker, OwnerGets, NotifyStop, Join,
           OwnerCallsGet, Stop
  <1>6. stopped' /\ getsAll' =>
          \A c \in Submitted' : Parent[c] = Owner => c \in done'
    <2>1. CASE Stop
      BY <1>2, <2>1 DEF Stop, use
    <2>2. CASE ~Stop
      <3>1. stopped' = stopped
        BY <2>2
        DEF WorkerExit, WorkerTake, WorkerSleep, TaskReturns,
            SpuriousWakeup, OwnerStep, StartWorker, OwnerGets, NotifyStop,
            Join, OwnerCallsGet
      <3> QED BY <1>1, <1>2, <3>1 DEF Phases
    <2> QED BY <2>1, <2>2
  <1> QED BY <1>1, <1>3, <1>4, <1>5, <1>6 DEF Phases

LEMMA NextPhases == IInv /\ Phases /\ [Next]_vars => Phases'
  <1> SUFFICES ASSUME IInv, Phases, [Next]_vars PROVE Phases'
    OBVIOUS
  <1>1. CASE UNCHANGED vars
    BY <1>1 DEF vars, use, Phases, Submitted
  <1> QED
    BY <1>1, AddTaskPhases, OthersKeepPhases DEF Next, WorkerStep

(* A task that was added is in the queue, is run or is done.               *)
LEMMA WhereTasksAre ==
  ASSUME IInv, NEW c \in Submitted, c \notin done, taskQueue = <<>>
  PROVE  \E w \in Workers : worker[w] = "running" /\ func[w] = c
  <1>1. added = taken
    BY DEF IInv, TypeOK, TakenInOrder
  <1>2. PICK i \in 1 .. Len(taken) : taken[i] = c
    BY <1>1 DEF Submitted
  <1>3. PICK w \in Workers : func[w] = c
    BY <1>2 DEF IInv, EachTaskOnce
  <1>4. c # NoTask
    BY <1>2, PoolAssumption DEF IInv, TypeOK
  <1> QED BY <1>3, <1>4 DEF IInv, OnlyTakenTasks

(* The task a worker runs was added, and is not done.                      *)
LEMMA WhatWorkersRun ==
  ASSUME IInv, NEW w \in Workers, worker[w] = "running"
  PROVE  func[w] \in Tasks /\ func[w] \in Submitted /\ func[w] \notin done
  <1>1. func[w] \in Taken /\ func[w] \in Tasks
    BY DEF IInv, TypeOK, OnlyTakenTasks
  <1>2. PICK i \in 1 .. Len(taken) : taken[i] = func[w]
    BY <1>1 DEF Taken
  <1>3. func[w] \notin done
    BY <1>2 DEF IInv, EachTaskOnce
  <1>4. /\ taken \in Seq(Tasks) /\ taskQueue \in Seq(Tasks)
        /\ taken \o taskQueue = added
    BY DEF IInv, TypeOK, TakenInOrder
  <1>5. i \in 1 .. Len(added) /\ added[i] = taken[i]
    BY <1>2, <1>4
  <1> QED BY <1>1, <1>2, <1>3, <1>5 DEF Submitted

(* Fewer tasks wait than there are workers: one worker does not run a task *)
(* that waits.                                                             *)
LEMMA OneIsFree ==
  ASSUME IInv, IsFiniteSet(waits), Cardinality(waits) < Cardinality(Workers)
  PROVE  \E w \in Workers : ~(worker[w] = "running" /\ func[w] \in waits)
  <1> SUFFICES ASSUME \A w \in Workers :
                        worker[w] = "running" /\ func[w] \in waits
               PROVE  FALSE
    OBVIOUS
  <1>1. func \in [Workers -> waits]
    BY DEF IInv, TypeOK
  <1>2. PICK w \in Workers, u \in Workers : w # u /\ func[w] = func[u]
    BY <1>1, PoolAssumption, FS_PigeonHole
  <1>3. func[w] # NoTask
    BY DEF IInv, OnlyTakenTasks
  <1> QED BY <1>2, <1>3 DEF IInv, EachTaskOnce

(* The safety half of TasksAreRun.                                         *)
LEMMA PhasesPromise == IInv /\ Phases => SomeWorkerProceeds
  <1> SUFFICES ASSUME IInv, Phases, Harmless, NEW c \in Submitted,
                      c \notin done, \A w \in Workers : ~Busy(w)
               PROVE  \E w \in Workers :
                        worker[w] = "ready" /\ taskQueue # <<>>
    BY DEF SomeWorkerProceeds
  <1>1. \A w \in Workers : worker[w] = "running" =>
          func[w] \in waits /\ \E d \in Children(func[w]) :
                                 d \in Submitted /\ d \notin done
    BY DEF Busy
  <1>2. \A w \in Workers : worker[w] = "running" =>
          /\ getsAll /\ Parent[func[w]] = Owner /\ ~stopped
          /\ IsFiniteSet(waits) /\ Cardinality(waits) < Cardinality(Workers)
    BY <1>1, WhatWorkersRun DEF Harmless, Phases
  <1>3. taskQueue # <<>>
    <2> SUFFICES ASSUME taskQueue = <<>> PROVE FALSE
      OBVIOUS
    <2>1. PICK w \in Workers : worker[w] = "running" /\ func[w] = c
      BY WhereTasksAre
    <2>2. PICK d \in Children(c) : d \in Submitted /\ d \notin done
      BY <1>1, <2>1
    <2>3. PICK u \in Workers : worker[u] = "running" /\ func[u] = d
      BY <2>2, WhereTasksAre
    <2>4. Parent[d] = c /\ Parent[d] = Owner /\ c \in Tasks
      BY <1>2, <2>1, <2>2, <2>3, WhatWorkersRun DEF Children
    <2> QED BY <2>4, PoolAssumption
  <1>4. \E w \in Workers : worker[w] \notin {"running", "exited"}
    <2>1. CASE \E w \in Workers : worker[w] = "running"
      <3>1. /\ ~stopped /\ IsFiniteSet(waits)
            /\ Cardinality(waits) < Cardinality(Workers)
        BY <1>2, <2>1
      <3>2. \E w \in Workers : worker[w] # "running"
        BY <1>1, <3>1, OneIsFree
      <3> QED BY <3>1, <3>2 DEF IInv, Shutdown
    <2>2. CASE \A w \in Workers : worker[w] # "running"
      BY <1>3, <2>2 DEF IInv, Shutdown
    <2> QED BY <2>1, <2>2
  <1>5. PICK w \in Workers : worker[w] \notin {"running", "exited"}
    BY <1>4
  <1>6. worker[w] # "asleep"
    BY <1>3 DEF IInv, NoSleeperLeftBehind
  <1>7. worker[w] # "unborn"
    BY DEF Phases, Submitted
  <1> QED BY <1>3, <1>5, <1>6, <1>7 DEF IInv, TypeOK, WorkerStates

(* The pool does not wait for itself: while a task is not done, one that   *)
(* runs has something to do or a worker is free to take the next.          *)
THEOREM TasksDoNotDeadlock == Spec => []SomeWorkerProceeds
  <1>1. Spec => []Phases
    BY InitPhases, NextPhases, Invariance, PTL DEF Spec
  <1> QED BY <1>1, PhasesPromise, Invariance, PTL
=============================================================================
