------------------------------ MODULE SpinLock ------------------------------
(***************************************************************************)
(* core2/async/Lock.h under test/async/spin_lock_test: each thread makes   *)
(* SIZE increments of an ordinary variable, taking the lock for each.      *)
(***************************************************************************)
EXTENDS Integers, FiniteSets

CONSTANTS Threads, SIZE

SpinLockAssumption == IsFiniteSet(Threads) /\ SIZE \in Nat

VARIABLES
  flag,
  pc,
  count,     \* the variable the lock protects
  loaded,    \* count++: the value each thread has loaded
  rounds     \* increments each thread has made

vars == <<flag, pc, count, loaded, rounds>>

Init ==
  /\ flag = FALSE
  /\ pc = [t \in Threads |-> "loop"]
  /\ count = 0
  /\ loaded = [t \in Threads |-> 0]
  /\ rounds = [t \in Threads |-> 0]

Goto(t, from, to) == pc[t] = from /\ pc' = [pc EXCEPT ![t] = to]

\* faulty variant: the test and the set are not one step
SetBlindly == TRUE

\* test_and_set() returned false
WasClear == ~flag

\* lock: a test_and_set that finds the flag set changes nothing.
Lock(t) ==
  /\ Goto(t, "loop", "load")
  /\ rounds[t] < SIZE
  /\ WasClear
  /\ flag' = TRUE
  /\ UNCHANGED <<count, loaded, rounds>>

Load(t) ==
  /\ Goto(t, "load", "store")
  /\ loaded' = [loaded EXCEPT ![t] = count]
  /\ UNCHANGED <<flag, count, rounds>>

Store(t) ==
  /\ Goto(t, "store", "unlock")
  /\ count' = loaded[t] + 1
  /\ rounds' = [rounds EXCEPT ![t] = @ + 1]
  /\ UNCHANGED <<flag, loaded>>

Unlock(t) ==
  /\ Goto(t, "unlock", "loop")
  /\ flag' = FALSE
  /\ loaded' = [loaded EXCEPT ![t] = 0]
  /\ UNCHANGED <<count, rounds>>

Step(t) == Lock(t) \/ Load(t) \/ Store(t) \/ Unlock(t)

Next == \E t \in Threads : Step(t)

(* Every thread runs to its end.  Nobody takes turns on the lock, but the  *)
(* others run out of rounds.                                               *)
FairSpec == Init /\ [][Next]_vars /\ \A t \in Threads : WF_vars(Step(t))
-----------------------------------------------------------------------------
(* Properties *)

\* The threads end, and the test finds every increment in count.
NothingLost ==
  <>(/\ \A t \in Threads : pc[t] = "loop" /\ rounds[t] = SIZE
     /\ count = SIZE * Cardinality(Threads))
=============================================================================
