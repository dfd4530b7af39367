-------------------------- MODULE ReaderWriterLock --------------------------
(***************************************************************************)
(* core2/async/ReaderWriterLock.h.                                         *)
(*                                                                         *)
(* Every method runs under `mux` from its first line to its last, except   *)
(* while it sleeps in a condition variable, so the code between two points *)
(* at which `mux` is free is one action.  A thread that is asleep is in    *)
(* state "rWait" or "wWait"; a notification, or a spurious wake-up, moves  *)
(* it to "rTry" or "wTry", where it competes for `mux` again before it     *)
(* re-evaluates the predicate of its wait.                                 *)
(***************************************************************************)
EXTENDS Integers, FiniteSets

CONSTANTS
  Readers,     \* threads that call readerLock / readerUnlock
  Writers,     \* threads that call writerLock / writerUnlock
  HEADCOUNT,   \* 1 << 6 in the code
  MaxOvertakes \* bound: how many writers may overtake one that is judged

Threads == Readers \cup Writers
Modes   == {"READER_FIRST", "WRITER_FIRST", "BALANCED"}

ASSUME LockAssumption ==
  /\ IsFiniteSet(Threads)
  /\ HEADCOUNT \in Nat \ {0}
  /\ MaxOvertakes \in Nat

VARIABLES
  mode,              \* the ReaderWriterLockMode, a constant of the lock
  readerCount,       \* threads holding the lock for reading
  writing,           \* somebody holds it for writing
  readerHeadcount,   \* BALANCED: readers that may still be admitted
  queueingWriter,    \* writers inside writerLock that do not hold the lock
  pc,                \* where each thread is
  wakeOrder,         \* history: the lambda the last writerUnlock ran
  bypass,            \* history: readers admitted since this writer queues
  overtaken          \* history: writers admitted since this writer queues

vars == <<mode, readerCount, writing, readerHeadcount, queueingWriter, pc,
          wakeOrder, bypass, overtaken>>

histories == <<bypass, overtaken>>

PC == {"idle", "rTry", "rWait", "reading",
       "wCall", "wTry", "wWait", "writing"}

\* The histories saturate: nothing bounds the writers that overtake one, nor
\* the readers, in mode READER_FIRST.
BypassCap == HEADCOUNT * MaxOvertakes + 1

Init ==
  /\ mode \in Modes
  /\ readerCount = 0
  /\ writing = FALSE
  /\ readerHeadcount = HEADCOUNT
  /\ queueingWriter = 0
  /\ pc = [t \in Threads |-> "idle"]
  /\ wakeOrder = "none"
  /\ bypass = [w \in Writers |-> 0]
  /\ overtaken = [w \in Writers |-> 0]
-----------------------------------------------------------------------------
(* Condition variables: the states a notification can leave the threads in *)

\* faulty variant: the notification is forgotten
WakeNobody(p) == {p}

\* readyToWrite.notify_one(): one sleeping writer, whichever, if there is one.
WakeOneWriter(p) ==
  LET asleep == {w \in Writers : p[w] = "wWait"}
  IN  IF asleep = {} THEN {p}
      ELSE {[p EXCEPT ![w] = "wTry"] : w \in asleep}

\* readyToRead.notify_all()
WakeAllReaders(p) ==
  [t \in Threads |-> IF p[t] = "rWait" THEN "rTry" ELSE p[t]]

(* The predicate readerLock waits for, and its side effect *)

\* faulty variant: the headcount is refilled while writers are queueing
RefilledAlways == IF mode = "BALANCED" THEN HEADCOUNT ELSE readerHeadcount

Refilled ==
  IF mode = "BALANCED" /\ queueingWriter = 0
    THEN HEADCOUNT ELSE readerHeadcount

\* faulty variant: a reader does not look at the writers that wait
MayReadIgnoringQueue == ~writing

MayRead ==
  /\ ~writing
  /\ mode = "WRITER_FIRST" => queueingWriter = 0
  /\ mode = "BALANCED"     => Refilled > 0
-----------------------------------------------------------------------------
(* The histories of the writers that queue, when somebody gets in *)

Queues(w) == pc[w] \in {"wTry", "wWait"}

CountedUpTo(cap, n) == IF n = cap THEN n ELSE n + 1

PassedByReader ==
  [w \in Writers |-> IF Queues(w) THEN CountedUpTo(BypassCap, bypass[w])
                                  ELSE bypass[w]]

OvertakenByWriter(t) ==
  [w \in Writers |->
     IF w = t THEN 0
     ELSE IF Queues(w) THEN CountedUpTo(MaxOvertakes, overtaken[w])
                       ELSE overtaken[w]]
-----------------------------------------------------------------------------
(* readerLock *)

CallReaderLock(t) ==
  /\ pc[t] = "idle"
  /\ pc' = [pc EXCEPT ![t] = "rTry"]
  /\ UNCHANGED <<mode, readerCount, writing, readerHeadcount, queueingWriter,
                 wakeOrder, histories>>

ReaderAdmit(t) ==
  /\ pc[t] = "rTry"
  /\ MayRead
  /\ pc' = [pc EXCEPT ![t] = "reading"]
  /\ readerCount' = readerCount + 1
  /\ readerHeadcount' = IF mode = "BALANCED" THEN Refilled - 1
                                             ELSE readerHeadcount
  /\ bypass' = PassedByReader
  /\ UNCHANGED <<mode, writing, queueingWriter, wakeOrder, overtaken>>

\* The predicate is false, but evaluating it may still refill the headcount.
ReaderBlock(t) ==
  /\ pc[t] = "rTry"
  /\ ~MayRead
  /\ pc' = [pc EXCEPT ![t] = "rWait"]
  /\ readerHeadcount' = Refilled
  /\ UNCHANGED <<mode, readerCount, writing, queueingWriter, wakeOrder,
                 histories>>

ReaderUnlock(t) ==
  /\ pc[t] = "reading"
  /\ readerCount' = readerCount - 1
  /\ LET unlocked == [pc EXCEPT ![t] = "idle"]
     IN  pc' \in IF readerCount' = 0 THEN WakeOneWriter(unlocked)
                                     ELSE {unlocked}
  /\ UNCHANGED <<mode, writing, readerHeadcount, queueingWriter, wakeOrder,
                 histories>>
-----------------------------------------------------------------------------
(* writerLock *)

\* faulty variant: a writer does not look at the readers inside
MayWriteDuringRead == ~writing

MayWrite == readerCount = 0 /\ ~writing

CallWriterLock(t) ==
  /\ pc[t] = "idle"
  /\ pc' = [pc EXCEPT ![t] = "wCall"]
  /\ UNCHANGED <<mode, readerCount, writing, readerHeadcount, queueingWriter,
                 wakeOrder, histories>>

\* mux is taken for the first time: the writer joins the queue, then either
\* its predicate holds at once, or it goes to sleep.
WriterArrive(t) ==
  /\ pc[t] = "wCall"
  /\ ~MayWrite
  /\ queueingWriter' = queueingWriter + 1
  /\ pc' = [pc EXCEPT ![t] = "wWait"]
  /\ UNCHANGED <<mode, readerCount, writing, readerHeadcount, wakeOrder,
                 histories>>

\* faulty variant: the headcount is left as the readers spent it
HeadcountKept == readerHeadcount

\* The headcount writerLock leaves behind.
HeadcountReset == HEADCOUNT

WriterAdmit(t) ==
  /\ pc[t] \in {"wCall", "wTry"}
  /\ MayWrite
  /\ queueingWriter' = IF pc[t] = "wTry" THEN queueingWriter - 1
                                         ELSE queueingWriter
  /\ readerHeadcount' = HeadcountReset
  /\ writing' = TRUE
  /\ pc' = [pc EXCEPT ![t] = "writing"]
  /\ bypass' = [bypass EXCEPT ![t] = 0]
  /\ overtaken' = OvertakenByWriter(t)
  /\ UNCHANGED <<mode, readerCount, wakeOrder>>

\* faulty variant: a writer that goes back to sleep counts itself again
WriterBlockTwice(t) ==
  /\ pc[t] = "wTry"
  /\ ~MayWrite
  /\ pc' = [pc EXCEPT ![t] = "wWait"]
  /\ queueingWriter' = queueingWriter + 1
  /\ UNCHANGED <<mode, readerCount, writing, readerHeadcount, wakeOrder,
                 histories>>

WriterBlock(t) ==
  /\ pc[t] = "wTry"
  /\ ~MayWrite
  /\ pc' = [pc EXCEPT ![t] = "wWait"]
  /\ UNCHANGED <<mode, readerCount, writing, readerHeadcount, queueingWriter,
                 wakeOrder, histories>>

\* Which of the two notification lambdas writerUnlock picks.
NotificationOrder ==
  CASE mode = "READER_FIRST" -> "readersFirst"
    [] mode = "WRITER_FIRST" -> "writerFirst"
    [] mode = "BALANCED"     ->
         IF readerHeadcount < HEADCOUNT \div 4 THEN "writerFirst"
                                               ELSE "readersFirst"

\* Both lambdas notify the same threads while mux is held, in another order.
WriterUnlock(t) ==
  /\ pc[t] = "writing"
  /\ writing' = FALSE
  /\ wakeOrder' = NotificationOrder
  /\ pc' \in WakeOneWriter(WakeAllReaders([pc EXCEPT ![t] = "idle"]))
  /\ UNCHANGED <<mode, readerCount, readerHeadcount, queueingWriter,
                 histories>>
-----------------------------------------------------------------------------
\* A condition variable may wake a sleeper that nobody notified.
SpuriousWakeup(t) ==
  /\ pc[t] \in {"rWait", "wWait"}
  /\ pc' = [pc EXCEPT ![t] = IF @ = "rWait" THEN "rTry" ELSE "wTry"]
  /\ UNCHANGED <<mode, readerCount, writing, readerHeadcount, queueingWriter,
                 wakeOrder, histories>>

ReaderStep(t) == ReaderAdmit(t) \/ ReaderBlock(t) \/ ReaderUnlock(t)
WriterStep(t) ==
  WriterArrive(t) \/ WriterAdmit(t) \/ WriterBlock(t) \/ WriterUnlock(t)

Next ==
  \/ \E t \in Readers : CallReaderLock(t) \/ ReaderStep(t)
  \/ \E t \in Writers : CallWriterLock(t) \/ WriterStep(t)
  \/ \E t \in Threads : SpuriousWakeup(t)

Spec == Init /\ [][Next]_vars

(* mux is granted to every thread that competes for it, and a thread that  *)
(* holds the lock releases it.  Nothing obliges a thread to call the lock, *)
(* and no spurious wake-up is ever promised.                               *)
Fairness == /\ \A t \in Readers : WF_vars(ReaderStep(t))
            /\ \A t \in Writers : WF_vars(WriterStep(t))

FairSpec == Spec /\ Fairness
-----------------------------------------------------------------------------
(* Properties *)

ReadingThreads == {t \in Threads : pc[t] = "reading"}
WritingThreads == {t \in Threads : pc[t] = "writing"}
QueueingThreads == {t \in Threads : Queues(t)}

\* The unsigned counters never wrap: readerCount--, readerHeadcount-- and
\* queueingWriter-- are only reached with a positive counter.
TypeOK ==
  /\ mode \in Modes
  /\ readerCount \in Nat
  /\ writing \in BOOLEAN
  /\ readerHeadcount \in 0 .. HEADCOUNT
  /\ queueingWriter \in Nat
  /\ pc \in [Threads -> PC]
  /\ wakeOrder \in {"none", "readersFirst", "writerFirst"}
  /\ bypass \in [Writers -> 0 .. BypassCap]
  /\ overtaken \in [Writers -> 0 .. MaxOvertakes]

\* The counters are exact: what the predicates test is the set of threads
\* really inside, or really queueing, in spite of every sleep and wake-up.
CountersExact ==
  /\ readerCount = Cardinality(ReadingThreads)
  /\ queueingWriter = Cardinality(QueueingThreads)
  /\ writing <=> WritingThreads # {}

\* The lock implements the abstract one, so its two kinds of holders exclude
\* each other and writers exclude writers.
Abstract == INSTANCE RWLockSpec WITH readers <- ReadingThreads,
                                     writers <- WritingThreads
ImplementsRWLock == Abstract!Spec

\* What BALANCED grants the readers while n writers overtake one.
ReadersAllowed(n) == HEADCOUNT * (n + 1)

\* BALANCED admits at most HEADCOUNT readers past a queueing writer for each
\* writer that gets in: itself, and every one that overtook it.  Nothing
\* bounds the latter, because notify_one may choose another writer and a new
\* one may find the lock free; each refills the headcount.
BoundedBypass ==
  \A w \in Writers :
    mode = "BALANCED" /\ Queues(w) /\ overtaken[w] < MaxOvertakes =>
      bypass[w] <= ReadersAllowed(overtaken[w])

\* writerUnlock runs in a state where the headcount was reset by this very
\* writer and no reader got in since: the branch of BALANCED that notifies
\* the writer first (readerHeadcount < HEADCOUNT / 4) is never taken.
BalancedWakesReadersFirst ==
  mode = "BALANCED" => wakeOrder # "writerFirst"

\* No lost wake-up: if a thread is trying to get the lock, some thread
\* eventually holds it, even if no other call is ever made.
SomeoneGetsIn ==
  (\E t \in Threads : pc[t] \in {"rTry", "rWait", "wCall", "wTry", "wWait"})
    ~> (ReadingThreads \cup WritingThreads # {})

\* An endless stream of readers does not keep the writers out, except in
\* mode READER_FIRST.
WritersProgress == (mode # "READER_FIRST" /\ queueingWriter > 0) ~> writing
=============================================================================
