----------------------- MODULE ReaderWriterLock_proofs ----------------------
(***************************************************************************)
(* The counters, the exclusion and the bypass bound of ReaderWriterLock,   *)
(* for every finite set of threads, every mode and every HEADCOUNT.        *)
(***************************************************************************)
EXTENDS ReaderWriterLock, FiniteSetTheorems, TLAPS

(* Holders exclude each other.                                             *)
Exclusion ==
  /\ \A t \in Threads : pc[t] = "writing" => writing /\ readerCount = 0
  /\ \A t, u \in Threads : pc[t] = "writing" /\ pc[u] = "writing" => t = u

(* What is left of the headcount adds up with the readers that have passed *)
(* a queueing writer.                                                      *)
Headcounts ==
  /\ mode = "BALANCED" /\ writing => readerHeadcount = HEADCOUNT
  /\ \A w \in Writers : ~Queues(w) => bypass[w] = 0 /\ overtaken[w] = 0
  /\ \A w \in Writers :
       mode = "BALANCED" /\ Queues(w) /\ overtaken[w] < MaxOvertakes =>
         bypass[w] + readerHeadcount <= ReadersAllowed(overtaken[w])

IInv == /\ TypeOK
        /\ CountersExact
        /\ Exclusion
        /\ Headcounts
        /\ BalancedWakesReadersFirst
-----------------------------------------------------------------------------
(* Sets of threads are finite, and a thread that joins or leaves one       *)
(* changes its cardinality by one: readerCount++ and readerCount--.        *)
LEMMA ThreadSets ==
  ASSUME NEW S \in SUBSET Threads, NEW t \in Threads
  PROVE  /\ Cardinality(S) \in Nat
         /\ Cardinality(S) = 0 <=> S = {}
         /\ t \notin S => Cardinality(S \cup {t}) = Cardinality(S) + 1
         /\ t \in S => Cardinality(S \ {t}) = Cardinality(S) - 1
  <1>1. IsFiniteSet(S)
    BY FS_Subset, LockAssumption
  <1> QED
    BY <1>1, FS_CardinalityType, FS_EmptySet, FS_AddElement, FS_RemoveElement

(* Every writer that gets in adds one headcount to the allowance.          *)
LEMMA Allowance ==
  /\ ReadersAllowed(0) = HEADCOUNT
  /\ \A n \in Nat : /\ ReadersAllowed(n) \in Nat
                    /\ ReadersAllowed(n + 1) = ReadersAllowed(n) + HEADCOUNT
  BY LockAssumption DEF ReadersAllowed

(* The histories saturate within their ranges.                             *)
LEMMA Histories ==
  ASSUME TypeOK
  PROVE  /\ BypassCap \in Nat
         /\ PassedByReader \in [Writers -> 0 .. BypassCap]
         /\ \A t \in Writers :
              OvertakenByWriter(t) \in [Writers -> 0 .. MaxOvertakes]
  <1>1. BypassCap \in Nat
    BY LockAssumption DEF BypassCap
  <1> QED
    BY <1>1, LockAssumption
    DEF TypeOK, PassedByReader, OvertakenByWriter, CountedUpTo

(* Queues, of every thread, from the set of those that queue.              *)
LEMMA SameQueue ==
  QueueingThreads' = QueueingThreads =>
    \A w \in Writers : Queues(w)' <=> Queues(w)
  BY DEF QueueingThreads, Threads

(* notify_one and notify_all only move sleeping threads to the state in    *)
(* which they compete for mux: nobody joins or leaves a set of holders.    *)
LEMMA WakeOne ==
  ASSUME NEW p \in [Threads -> PC], NEW q \in WakeOneWriter(p)
  PROVE  /\ q \in [Threads -> PC]
         /\ \A u \in Threads : q[u] # p[u] => p[u] = "wWait" /\ q[u] = "wTry"
  BY DEF WakeOneWriter, PC, Threads

LEMMA WakeAll ==
  ASSUME NEW p \in [Threads -> PC]
  PROVE  /\ WakeAllReaders(p) \in [Threads -> PC]
         /\ \A u \in Threads :
              WakeAllReaders(p)[u] # p[u] =>
                p[u] = "rWait" /\ WakeAllReaders(p)[u] = "rTry"
  BY DEF WakeAllReaders, PC
-----------------------------------------------------------------------------
(* How the three sets of threads change in a step of the reader.           *)
LEMMA ReaderUnlockEffect ==
  ASSUME IInv, NEW t \in Readers, ReaderUnlock(t)
  PROVE  /\ pc' \in [Threads -> PC]
         /\ t \in ReadingThreads
         /\ ReadingThreads' = ReadingThreads \ {t}
         /\ WritingThreads' = WritingThreads
         /\ QueueingThreads' = QueueingThreads
  <1> DEFINE unlocked == [pc EXCEPT ![t] = "idle"]
  <1>1. t \in Threads /\ pc \in [Threads -> PC] /\ pc[t] = "reading"
    BY DEF IInv, TypeOK, ReaderUnlock, Threads
  <1>2. unlocked \in [Threads -> PC]
    BY <1>1 DEF PC
  <1>3. pc' \in WakeOneWriter(unlocked) \/ pc' = unlocked
    BY DEF ReaderUnlock
  <1>4. /\ pc' \in [Threads -> PC]
        /\ \A u \in Threads : pc'[u] # unlocked[u] =>
             unlocked[u] = "wWait" /\ pc'[u] = "wTry"
    <2> HIDE DEF unlocked
    <2> QED BY <1>2, <1>3, WakeOne
  <1>5. /\ pc'[t] = "idle"
        /\ \A u \in Threads \ {t} :
             pc'[u] = pc[u] \/ (pc[u] = "wWait" /\ pc'[u] = "wTry")
    BY <1>1, <1>4
  <1> QED
    BY <1>1, <1>4, <1>5
    DEF ReadingThreads, WritingThreads, QueueingThreads, Queues

LEMMA WriterUnlockEffect ==
  ASSUME IInv, NEW t \in Writers, WriterUnlock(t)
  PROVE  /\ pc' \in [Threads -> PC]
         /\ t \in WritingThreads
         /\ ReadingThreads' = ReadingThreads
         /\ WritingThreads' = WritingThreads \ {t}
         /\ QueueingThreads' = QueueingThreads
  <1> DEFINE unlocked == [pc EXCEPT ![t] = "idle"]
             woken == WakeAllReaders(unlocked)
  <1>1. t \in Threads /\ pc \in [Threads -> PC] /\ pc[t] = "writing"
    BY DEF IInv, TypeOK, WriterUnlock, Threads
  <1>2. unlocked \in [Threads -> PC]
    BY <1>1 DEF PC
  <1>3. /\ woken \in [Threads -> PC]
        /\ \A u \in Threads : woken[u] # unlocked[u] =>
             unlocked[u] = "rWait" /\ woken[u] = "rTry"
    <2> HIDE DEF unlocked
    <2> QED BY <1>2, WakeAll
  <1>4. pc' \in WakeOneWriter(woken)
    BY DEF WriterUnlock
  <1>5. /\ pc' \in [Threads -> PC]
        /\ \A u \in Threads : pc'[u] # woken[u] =>
             woken[u] = "wWait" /\ pc'[u] = "wTry"
    <2> HIDE DEF woken
    <2> QED BY <1>3, <1>4, WakeOne
  <1> HIDE DEF woken
  <1>6. /\ pc'[t] = "idle"
        /\ \A u \in Threads \ {t} :
             \/ pc'[u] = pc[u]
             \/ pc[u] = "wWait" /\ pc'[u] = "wTry"
             \/ pc[u] = "rWait" /\ pc'[u] = "rTry"
    BY <1>1, <1>3, <1>5
  <1> QED
    BY <1>1, <1>5, <1>6
    DEF ReadingThreads, WritingThreads, QueueingThreads, Queues
-----------------------------------------------------------------------------
LEMMA NobodyQueues ==
  ASSUME TypeOK, CountersExact, queueingWriter = 0
  PROVE  \A w \in Writers : ~Queues(w)
  <1>1. QueueingThreads \in SUBSET Threads /\ IsFiniteSet(QueueingThreads)
    BY FS_Subset, LockAssumption DEF QueueingThreads
  <1>2. QueueingThreads = {}
    BY <1>1, FS_EmptySet DEF CountersExact
  <1> QED BY <1>2 DEF QueueingThreads, Threads

(* A step keeps the invariant, one lemma per kind of action.               *)
LEMMA InitHolds == Init => IInv
<1> SUFFICES ASSUME Init PROVE IInv
  OBVIOUS
<1>1. ReadingThreads = {} /\ WritingThreads = {} /\ QueueingThreads = {}
  BY DEF Init, ReadingThreads, WritingThreads, QueueingThreads, Queues
<1>2. TypeOK
  <2>1. pc \in [Threads -> PC]
    BY DEF Init, PC
  <2>2. /\ readerCount \in Nat /\ queueingWriter \in Nat
        /\ readerHeadcount \in 0 .. HEADCOUNT
        /\ bypass \in [Writers -> 0 .. BypassCap]
        /\ overtaken \in [Writers -> 0 .. MaxOvertakes]
    <3>1. BypassCap \in Nat
      BY LockAssumption DEF BypassCap
    <3> QED BY <3>1, LockAssumption DEF Init
  <2>3. /\ mode \in Modes /\ writing \in BOOLEAN
        /\ wakeOrder \in {"none", "readersFirst", "writerFirst"}
    BY DEF Init
  <2> QED
    BY <2>1, <2>2, <2>3 DEF TypeOK
<1>3. Exclusion
  BY DEF Init, Exclusion
<1>4. Headcounts /\ BalancedWakesReadersFirst
  BY DEF Init, Headcounts, BalancedWakesReadersFirst, Queues, Threads
<1> QED
  BY <1>1, <1>2, <1>3, <1>4, FS_EmptySet DEF Init, IInv, CountersExact

(* Steps that move one thread between states that count for nothing.       *)
LEMMA MoveKeeps ==
  ASSUME IInv, NEW t \in Threads,
         \/ CallReaderLock(t) \/ CallWriterLock(t)
         \/ ReaderBlock(t) \/ WriterBlock(t) \/ SpuriousWakeup(t)
  PROVE  IInv' /\ ReadingThreads' = ReadingThreads
               /\ WritingThreads' = WritingThreads
<1> USE DEF IInv
<1>1. /\ pc' \in [Threads -> PC]
      /\ ReadingThreads' = ReadingThreads
      /\ WritingThreads' = WritingThreads
      /\ QueueingThreads' = QueueingThreads
  BY DEF TypeOK, PC, ReadingThreads, WritingThreads, QueueingThreads, Queues,
         CallReaderLock, CallWriterLock, ReaderBlock, WriterBlock,
         SpuriousWakeup
<1>2. /\ UNCHANGED <<mode, readerCount, writing, queueingWriter, wakeOrder,
                     bypass, overtaken>>
      /\ \/ readerHeadcount' = readerHeadcount
         \/ /\ mode = "BALANCED" /\ queueingWriter = 0
            /\ readerHeadcount' = HEADCOUNT
  BY DEF CallReaderLock, CallWriterLock, ReaderBlock, WriterBlock,
         SpuriousWakeup, Refilled, histories
<1>3. TypeOK' /\ BalancedWakesReadersFirst'
  BY <1>1, <1>2, LockAssumption
  DEF TypeOK, BalancedWakesReadersFirst, BypassCap
<1>4. CountersExact'
  BY <1>1, <1>2 DEF CountersExact
<1>5. Exclusion'
  BY <1>1, <1>2 DEF Exclusion, WritingThreads
<1>6. Headcounts'
  <2>1. queueingWriter = 0 => \A w \in Writers : ~Queues(w)
    BY NobodyQueues
  <2>2. \A w \in Writers : Queues(w)' <=> Queues(w)
    BY <1>1, SameQueue
  <2>3. (mode = "BALANCED" /\ writing => readerHeadcount = HEADCOUNT)'
    BY <1>2 DEF Headcounts
  <2> QED BY <1>2, <2>1, <2>2, <2>3 DEF Headcounts
<1> QED BY <1>1, <1>3, <1>4, <1>5, <1>6

LEMMA ReaderAdmitKeeps ==
  ASSUME IInv, NEW t \in Readers, ReaderAdmit(t)
  PROVE  /\ IInv'
         /\ t \notin ReadingThreads /\ WritingThreads = {}
         /\ ReadingThreads' = ReadingThreads \cup {t}
         /\ WritingThreads' = WritingThreads
<1> USE DEF IInv
<1>1. /\ t \in Threads /\ t \notin ReadingThreads
      /\ pc' \in [Threads -> PC]
      /\ ReadingThreads' = ReadingThreads \cup {t}
      /\ WritingThreads' = WritingThreads
      /\ QueueingThreads' = QueueingThreads
  BY DEF TypeOK, PC, Threads, ReadingThreads, WritingThreads,
         QueueingThreads, Queues, ReaderAdmit
<1>2. ~writing /\ WritingThreads = {}
  BY DEF ReaderAdmit, MayRead, CountersExact
<1>3. mode = "BALANCED" => /\ Refilled \in 1 .. HEADCOUNT
                           /\ readerHeadcount' = Refilled - 1
  BY LockAssumption
  DEF ReaderAdmit, MayRead, Refilled, TypeOK
<1>4. mode # "BALANCED" => readerHeadcount' = readerHeadcount
  BY DEF ReaderAdmit
<1>5. \A w \in Writers : Queues(w) => Refilled = readerHeadcount
  BY NobodyQueues DEF Refilled
<1>6. TypeOK' /\ BalancedWakesReadersFirst'
  <2>1. /\ bypass' \in [Writers -> 0 .. BypassCap]
        /\ BypassCap' = BypassCap
    BY Histories DEF ReaderAdmit, BypassCap
  <2> QED
    BY <1>1, <1>3, <1>4, <2>1, LockAssumption
    DEF ReaderAdmit, TypeOK, BalancedWakesReadersFirst
<1>7. CountersExact'
  BY <1>1, ThreadSets, ReadingThreads \subseteq Threads
  DEF ReaderAdmit, CountersExact, ReadingThreads
<1>8. Exclusion'
  BY <1>1, <1>2 DEF ReaderAdmit, Exclusion, WritingThreads
<1>9. Headcounts'
  <2>1. \A w \in Writers :
          /\ Queues(w)' <=> Queues(w)
          /\ ~Queues(w) => bypass'[w] = bypass[w]
          /\ Queues(w) => bypass'[w] <= bypass[w] + 1
    BY <1>1, SameQueue, Histories
    DEF ReaderAdmit, TypeOK, PassedByReader, CountedUpTo
  <2>2. (mode = "BALANCED" /\ writing => readerHeadcount = HEADCOUNT)'
    BY <1>2 DEF ReaderAdmit
  <2>3. \A w \in Writers : (~Queues(w) => bypass[w] = 0 /\ overtaken[w] = 0)'
    BY <2>1 DEF ReaderAdmit, Headcounts
  <2>4. ASSUME NEW w \in Writers, mode = "BALANCED", Queues(w),
               overtaken[w] < MaxOvertakes
        PROVE  bypass'[w] + readerHeadcount' <= ReadersAllowed(overtaken[w])
    <3>1. bypass[w] + readerHeadcount <= ReadersAllowed(overtaken[w])
      BY <2>4 DEF Headcounts
    <3>2. readerHeadcount' = readerHeadcount - 1
      BY <1>3, <1>5, <2>4
    <3>3. /\ bypass[w] \in Int /\ bypass'[w] \in Int
          /\ readerHeadcount \in Int
          /\ ReadersAllowed(overtaken[w]) \in Int
      BY <1>6, LockAssumption, Allowance DEF TypeOK
    <3> QED BY <2>1, <2>4, <3>1, <3>2, <3>3
  <2> QED
    BY <2>1, <2>2, <2>3, <2>4 DEF ReaderAdmit, Headcounts
<1> QED BY <1>1, <1>2, <1>6, <1>7, <1>8, <1>9

LEMMA ReaderUnlockKeeps ==
  ASSUME IInv, NEW t \in Readers, ReaderUnlock(t)
  PROVE  IInv'
<1> USE DEF IInv
<1>1. /\ t \in Threads
      /\ UNCHANGED <<mode, writing, readerHeadcount, queueingWriter, wakeOrder,
                     bypass, overtaken>>
      /\ readerCount' = readerCount - 1
  BY DEF ReaderUnlock, Threads, histories
<1>2. readerCount' = Cardinality(ReadingThreads') /\ readerCount' \in Nat
  <2>1. /\ ReadingThreads \in SUBSET Threads
        /\ ReadingThreads \ {t} \in SUBSET Threads
    BY DEF ReadingThreads
  <2>2. t \in ReadingThreads /\ ReadingThreads' = ReadingThreads \ {t}
    BY ReaderUnlockEffect
  <2>3. /\ Cardinality(ReadingThreads \ {t}) = Cardinality(ReadingThreads) - 1
        /\ Cardinality(ReadingThreads \ {t}) \in Nat
    BY <1>1, <2>1, <2>2, ThreadSets
  <2> QED
    BY <1>1, <2>2, <2>3 DEF CountersExact
<1>3. TypeOK' /\ CountersExact' /\ BalancedWakesReadersFirst'
  BY <1>1, <1>2, ReaderUnlockEffect
  DEF TypeOK, BypassCap, CountersExact, BalancedWakesReadersFirst
<1>4. Exclusion'
  <2>1. \A u \in Threads : pc'[u] = "writing" <=> pc[u] = "writing"
    BY ReaderUnlockEffect DEF WritingThreads
  <2>2. \A u \in Threads : pc[u] # "writing"
    BY <1>1, <2>1, ReaderUnlockEffect, ThreadSets, ReadingThreads \subseteq Threads
    DEF Exclusion, CountersExact, ReadingThreads
  <2> QED BY <2>1, <2>2 DEF Exclusion
<1>5. Headcounts'
  BY <1>1, ReaderUnlockEffect, SameQueue DEF Headcounts
<1> QED BY <1>3, <1>4, <1>5

LEMMA WriterArriveKeeps ==
  ASSUME IInv, NEW t \in Writers, WriterArrive(t)
  PROVE  /\ IInv'
         /\ ReadingThreads' = ReadingThreads
         /\ WritingThreads' = WritingThreads
<1> USE DEF IInv
<1>1. /\ t \in Threads /\ t \notin QueueingThreads
      /\ pc' \in [Threads -> PC]
      /\ ReadingThreads' = ReadingThreads
      /\ WritingThreads' = WritingThreads
      /\ QueueingThreads' = QueueingThreads \cup {t}
  BY DEF TypeOK, PC, Threads, ReadingThreads, WritingThreads,
         QueueingThreads, Queues, WriterArrive
<1>2. TypeOK' /\ BalancedWakesReadersFirst'
  BY <1>1
  DEF WriterArrive, TypeOK, BypassCap, BalancedWakesReadersFirst, histories
<1>3. CountersExact'
  BY <1>1, ThreadSets, QueueingThreads \subseteq Threads
  DEF WriterArrive, CountersExact, QueueingThreads
<1>4. Exclusion'
  BY <1>1 DEF WriterArrive, Exclusion, WritingThreads
<1>5. Headcounts'
  <2>1. ~Queues(t) /\ bypass[t] = 0 /\ overtaken[t] = 0
    BY DEF WriterArrive, Queues, Headcounts
  <2>2. \A w \in Writers \ {t} : Queues(w)' <=> Queues(w)
    BY <1>1 DEF WriterArrive, Queues, TypeOK
  <2>3. bypass[t] + readerHeadcount <= ReadersAllowed(overtaken[t])
    BY <2>1, Allowance, LockAssumption DEF TypeOK
  <2>4. Queues(t)'
    BY <1>1 DEF WriterArrive, Queues, TypeOK
  <2> QED
    BY <2>1, <2>2, <2>3, <2>4 DEF WriterArrive, Headcounts, histories
<1> QED BY <1>1, <1>2, <1>3, <1>4, <1>5

LEMMA WriterAdmitKeeps ==
  ASSUME IInv, NEW t \in Writers, WriterAdmit(t)
  PROVE  /\ IInv'
         /\ ReadingThreads = {} /\ WritingThreads = {}
         /\ ReadingThreads' = {} /\ WritingThreads' = {t}
<1> USE DEF IInv
<1>1. /\ t \in Threads
      /\ ReadingThreads \in SUBSET Threads
      /\ QueueingThreads \in SUBSET Threads
  BY DEF Threads, ReadingThreads, QueueingThreads
<1>2. ~writing /\ readerCount = 0 /\ ReadingThreads = {} /\ WritingThreads = {}
  BY <1>1, ThreadSets DEF WriterAdmit, MayWrite, CountersExact
<1>3. /\ pc' \in [Threads -> PC]
      /\ ReadingThreads' = {} /\ WritingThreads' = {t}
      /\ QueueingThreads' = QueueingThreads \ {t}
      /\ t \in QueueingThreads <=> pc[t] = "wTry"
  BY <1>1, <1>2
  DEF WriterAdmit, TypeOK, PC, ReadingThreads, WritingThreads, QueueingThreads,
      Queues
<1>4. queueingWriter' = Cardinality(QueueingThreads') /\ queueingWriter' \in Nat
  <2>1. queueingWriter = Cardinality(QueueingThreads) /\ queueingWriter \in Nat
    BY DEF CountersExact, TypeOK
  <2>2. CASE pc[t] = "wTry"
    <3>1. queueingWriter' = queueingWriter - 1
      BY <2>2 DEF WriterAdmit
    <3>2. Cardinality(QueueingThreads \ {t}) = Cardinality(QueueingThreads) - 1
      BY <1>1, <1>3, <2>2, ThreadSets
    <3>3. Cardinality(QueueingThreads \ {t}) \in Nat
      BY <1>1, ThreadSets, QueueingThreads \ {t} \in SUBSET Threads
    <3> QED BY <1>3, <2>1, <3>1, <3>2, <3>3
  <2>3. CASE pc[t] # "wTry"
    BY <1>3, <2>1, <2>3, QueueingThreads \ {t} = QueueingThreads DEF WriterAdmit
  <2> QED BY <2>2, <2>3
<1>5. TypeOK' /\ BalancedWakesReadersFirst'
  <2>1. /\ bypass' \in [Writers -> 0 .. BypassCap]
        /\ overtaken' \in [Writers -> 0 .. MaxOvertakes]
        /\ BypassCap' = BypassCap
    BY Histories DEF WriterAdmit, TypeOK, BypassCap
  <2> QED
    BY <1>3, <1>4, <2>1, LockAssumption
    DEF WriterAdmit, HeadcountReset, TypeOK, BalancedWakesReadersFirst
<1>6. CountersExact'
  BY <1>2, <1>3, <1>4, FS_EmptySet DEF WriterAdmit, CountersExact
<1>7. Exclusion'
  BY <1>2, <1>3 DEF WriterAdmit, Exclusion, WritingThreads
<1>8. Headcounts'
  <2>1. \A w \in Writers : Queues(w)' <=> Queues(w) /\ w # t
    BY <1>1, <1>3 DEF WriterAdmit, Queues, TypeOK, Threads
  <2>2. /\ bypass'[t] = 0 /\ overtaken'[t] = 0
        /\ \A w \in Writers \ {t} :
             /\ bypass'[w] = bypass[w]
             /\ ~Queues(w) => overtaken'[w] = overtaken[w]
    BY DEF WriterAdmit, OvertakenByWriter, TypeOK
  <2>3. readerHeadcount' = HEADCOUNT
    BY DEF WriterAdmit, HeadcountReset
  <2>4. ASSUME NEW w \in Writers, mode = "BALANCED", Queues(w), w # t,
               overtaken'[w] < MaxOvertakes
        PROVE  bypass'[w] + HEADCOUNT <= ReadersAllowed(overtaken'[w])
    <3>1. /\ overtaken[w] \in Nat /\ overtaken[w] < MaxOvertakes
          /\ overtaken'[w] = overtaken[w] + 1
      BY <2>4, LockAssumption
      DEF WriterAdmit, OvertakenByWriter, CountedUpTo, TypeOK
    <3>2. bypass[w] + readerHeadcount <= ReadersAllowed(overtaken[w])
      BY <2>4, <3>1 DEF Headcounts
    <3>3. ReadersAllowed(overtaken'[w])
            = ReadersAllowed(overtaken[w]) + HEADCOUNT
      BY <3>1, Allowance
    <3>4. /\ bypass[w] \in Int /\ readerHeadcount \in Nat
          /\ HEADCOUNT \in Int /\ ReadersAllowed(overtaken[w]) \in Int
      BY <3>1, LockAssumption, Allowance DEF TypeOK
    <3>5. bypass'[w] = bypass[w]
      BY <2>2, <2>4
    <3> QED BY <3>2, <3>3, <3>4, <3>5
  <2> QED
    BY <2>1, <2>2, <2>3, <2>4 DEF WriterAdmit, Headcounts
<1> QED BY <1>2, <1>3, <1>5, <1>6, <1>7, <1>8

LEMMA WriterUnlockKeeps ==
  ASSUME IInv, NEW t \in Writers, WriterUnlock(t)
  PROVE  IInv'
<1> USE DEF IInv
<1>1. /\ UNCHANGED <<mode, readerCount, readerHeadcount, queueingWriter,
                     bypass, overtaken>>
      /\ writing' = FALSE
      /\ wakeOrder' = NotificationOrder
  BY DEF WriterUnlock, histories
<1>2. writing /\ WritingThreads = {t}
  BY WriterUnlockEffect DEF CountersExact, Exclusion, WritingThreads
<1>3. mode = "BALANCED" => NotificationOrder = "readersFirst"
  BY <1>2, LockAssumption DEF NotificationOrder, Headcounts
<1>4. NotificationOrder \in {"readersFirst", "writerFirst"}
  BY DEF NotificationOrder, TypeOK, Modes
<1>5. TypeOK' /\ BalancedWakesReadersFirst'
  BY <1>1, <1>3, <1>4, WriterUnlockEffect
  DEF TypeOK, BypassCap, BalancedWakesReadersFirst
<1>6. WritingThreads' = {}
  BY <1>2, WriterUnlockEffect
<1>7. CountersExact'
  BY <1>1, <1>6, WriterUnlockEffect DEF CountersExact
<1>8. Exclusion'
  BY <1>6 DEF Exclusion, WritingThreads
<1>9. Headcounts'
  BY <1>1, WriterUnlockEffect, SameQueue DEF Headcounts
<1> QED BY <1>5, <1>7, <1>8, <1>9
-----------------------------------------------------------------------------
LEMMA StepKeeps == IInv /\ [Next]_vars => IInv'
<1> SUFFICES ASSUME IInv, [Next]_vars PROVE IInv'
  OBVIOUS
<1> Threads = Readers \cup Writers
  BY DEF Threads
<1>1. ASSUME NEW t \in Readers, CallReaderLock(t) \/ ReaderStep(t)
      PROVE  IInv'
  BY <1>1, MoveKeeps, ReaderAdmitKeeps, ReaderUnlockKeeps DEF ReaderStep
<1>2. ASSUME NEW t \in Writers, CallWriterLock(t) \/ WriterStep(t)
      PROVE  IInv'
  BY <1>2, MoveKeeps, WriterArriveKeeps, WriterAdmitKeeps, WriterUnlockKeeps
  DEF WriterStep
<1>3. ASSUME NEW t \in Threads, SpuriousWakeup(t)
      PROVE  IInv'
  BY <1>3, MoveKeeps
<1>4. CASE UNCHANGED vars
  BY <1>4
  DEF vars, IInv, TypeOK, CountersExact, Exclusion, Headcounts,
      BalancedWakesReadersFirst, ReadingThreads, WritingThreads,
      QueueingThreads, Queues, Threads
<1> QED BY <1>1, <1>2, <1>3, <1>4 DEF Next

(* The inductive invariant holds in every reachable state.                 *)
THEOREM Invariance == Spec => []IInv
<1> QED BY InitHolds, StepKeeps, PTL DEF Spec

(* The unsigned counters of the lock never wrap, and every one of its      *)
(* fields keeps its range.                                                 *)
THEOREM TypeCorrect == Spec => []TypeOK
<1>1. IInv => TypeOK
  BY DEF IInv
<1> QED BY <1>1, Invariance, PTL

(* readerCount, queueingWriter and writing always agree with the threads   *)
(* that are inside the lock or queue for it.                               *)
THEOREM CountersAreExact == Spec => []CountersExact
<1>1. IInv => CountersExact
  BY DEF IInv
<1> QED BY <1>1, Invariance, PTL

(* BALANCED admits past a queueing writer at most HEADCOUNT readers for    *)
(* each writer that gets in, itself included.                              *)
THEOREM BypassIsBounded == Spec => []BoundedBypass
<1>1. IInv => BoundedBypass
  <2> SUFFICES ASSUME IInv, NEW w \in Writers, mode = "BALANCED", Queues(w),
                      overtaken[w] < MaxOvertakes
               PROVE  bypass[w] <= ReadersAllowed(overtaken[w])
    BY DEF BoundedBypass
  <2>1. bypass[w] + readerHeadcount <= ReadersAllowed(overtaken[w])
    BY DEF IInv, Headcounts
  <2>2. /\ bypass[w] \in Int /\ readerHeadcount \in Nat
        /\ ReadersAllowed(overtaken[w]) \in Int
    BY LockAssumption, Allowance DEF IInv, TypeOK
  <2> QED BY <2>1, <2>2
<1> QED BY <1>1, Invariance, PTL

(* BALANCED never takes the branch of writerUnlock that wakes a writer     *)
(* before the readers.                                                     *)
THEOREM ReadersAreWokenFirst == Spec => []BalancedWakesReadersFirst
<1>1. IInv => BalancedWakesReadersFirst
  BY DEF IInv
<1> QED BY <1>1, Invariance, PTL

(* ReaderWriterLock implements the abstract lock: readers share it, a      *)
(* writer has it alone.                                                    *)
THEOREM Refinement == Spec => ImplementsRWLock
<1>1. Init => Abstract!Init
  BY DEF Init, Abstract!Init, ReadingThreads, WritingThreads
<1>2. IInv /\ [Next]_vars => [Abstract!Next]_(Abstract!vars)
  <2> SUFFICES ASSUME IInv, [Next]_vars
               PROVE  Abstract!Next \/ UNCHANGED Abstract!vars
    OBVIOUS
  <2> Threads = Readers \cup Writers
    BY DEF Threads
  <2> USE DEF Abstract!vars
  <2>1. ASSUME NEW t \in Threads,
               \/ CallReaderLock(t) \/ CallWriterLock(t)
               \/ ReaderBlock(t) \/ WriterBlock(t) \/ SpuriousWakeup(t)
        PROVE  UNCHANGED Abstract!vars
    BY <2>1, MoveKeeps
  <2>2. ASSUME NEW t \in Readers, ReaderAdmit(t)
        PROVE  Abstract!BeginRead(t)
    BY <2>2, ReaderAdmitKeeps DEF Abstract!BeginRead
  <2>3. ASSUME NEW t \in Readers, ReaderUnlock(t)
        PROVE  Abstract!EndRead(t)
    BY <2>3, ReaderUnlockEffect DEF Abstract!EndRead
  <2>4. ASSUME NEW t \in Writers, WriterArrive(t)
        PROVE  UNCHANGED Abstract!vars
    BY <2>4, WriterArriveKeeps
  <2>5. ASSUME NEW t \in Writers, WriterAdmit(t)
        PROVE  Abstract!BeginWrite(t)
    BY <2>5, WriterAdmitKeeps DEF Abstract!BeginWrite
  <2>6. ASSUME NEW t \in Writers, WriterUnlock(t)
        PROVE  Abstract!EndWrite(t)
    BY <2>6, WriterUnlockEffect DEF Abstract!EndWrite
  <2>7. CASE UNCHANGED vars
    BY <2>7 DEF vars, ReadingThreads, WritingThreads
  <2> QED
    BY <2>1, <2>2, <2>3, <2>4, <2>5, <2>6, <2>7
    DEF Next, ReaderStep, WriterStep, Abstract!Next
<1> QED
  BY <1>1, <1>2, Invariance, PTL DEF Spec, ImplementsRWLock, Abstract!Spec
-----------------------------------------------------------------------------
(* Lost wake-ups.  Only writers sleep in readyToWrite; a reader sleeps     *)
(* while there is a writer it waits for, and a writer while somebody is    *)
(* inside or a writer competes for mux, who will find nobody inside.       *)
Sleepers ==
  /\ \A t \in Threads : pc[t] = "wWait" => t \in Writers
  /\ \A t \in Threads : pc[t] = "rWait" =>
       writing \/ (mode # "READER_FIRST" /\ queueingWriter > 0)
  /\ \A t \in Threads : pc[t] = "wWait" =>
       writing \/ readerCount > 0 \/ \E u \in Threads : pc[u] = "wTry"

\* While the lock is free, a thread that sleeps has a writer awake, whose
\* predicate holds.
FreeLockIsTaken ==
  /\ ~writing /\ readerCount = 0
  /\ \E t \in Threads : pc[t] \in {"rWait", "wWait"}
  => \E u \in Threads : pc[u] = "wTry"

(* A notification leaves no writer asleep, or has woken one.               *)
LEMMA OneIsAwake ==
  ASSUME NEW p \in [Threads -> PC], NEW q \in WakeOneWriter(p),
         \A t \in Threads : p[t] = "wWait" => t \in Writers
  PROVE  \/ \A t \in Threads : q[t] # "wWait"
         \/ \E u \in Threads : q[u] = "wTry"
  <1> DEFINE asleep == {w \in Writers : p[w] = "wWait"}
  <1>1. CASE asleep = {}
    BY <1>1 DEF WakeOneWriter
  <1>2. CASE asleep # {}
    <2>1. PICK w \in asleep : q = [p EXCEPT ![w] = "wTry"]
      BY <1>2 DEF WakeOneWriter
    <2> QED BY <2>1 DEF Threads
  <1> QED BY <1>1, <1>2

(* Calls, the sleep and the spurious wake-up of a thread.                  *)
LEMMA MoveKeepsSleepers ==
  ASSUME IInv, Sleepers, NEW t \in Threads,
         \/ CallReaderLock(t) \/ CallWriterLock(t) \/ ReaderBlock(t)
         \/ t \in Writers /\ (WriterBlock(t) \/ WriterArrive(t))
         \/ SpuriousWakeup(t)
  PROVE  Sleepers'
  <1> USE LockAssumption DEF IInv, TypeOK, Sleepers
  <1>1. CASE CallReaderLock(t) \/ CallWriterLock(t) \/ SpuriousWakeup(t)
    BY <1>1 DEF CallReaderLock, CallWriterLock, SpuriousWakeup
  <1>2. CASE ReaderBlock(t)
    <2>1. writing \/ (mode # "READER_FIRST" /\ queueingWriter > 0)
      BY <1>2 DEF ReaderBlock, MayRead, Refilled
    <2> QED BY <1>2, <2>1 DEF ReaderBlock
  <1>3. CASE t \in Writers /\ (WriterBlock(t) \/ WriterArrive(t))
    <2>1. writing \/ readerCount > 0
      BY <1>3 DEF WriterBlock, WriterArrive, MayWrite
    <2> QED BY <1>3, <2>1 DEF WriterBlock, WriterArrive
  <1> QED BY <1>1, <1>2, <1>3

(* Who gets in is inside.                                                  *)
LEMMA AdmitKeepsSleepers ==
  ASSUME IInv, Sleepers, NEW t \in Threads, ReaderAdmit(t) \/ WriterAdmit(t)
  PROVE  Sleepers'
  BY DEF IInv, TypeOK, Sleepers, ReaderAdmit, WriterAdmit

(* Who gets out notifies those who wait for it.                            *)
LEMMA UnlockKeepsSleepers ==
  ASSUME IInv, IInv', Sleepers, NEW t \in Threads,
         ReaderUnlock(t) \/ WriterUnlock(t)
  PROVE  Sleepers'
  <1> DEFINE unlocked == [pc EXCEPT ![t] = "idle"]
             woken == WakeAllReaders(unlocked)
  <1>1. unlocked \in [Threads -> PC]
    BY DEF IInv, TypeOK, PC
  <1>2. \A u \in Threads : unlocked[u] = IF u = t THEN "idle" ELSE pc[u]
    BY DEF IInv, TypeOK
  <1> HIDE DEF unlocked
  <1>3. CASE ReaderUnlock(t)
    <2>1. CASE readerCount' = 0
      <3>1. pc' \in WakeOneWriter(unlocked)
        BY <1>3, <2>1 DEF ReaderUnlock, unlocked
      <3>2. \A u \in Threads : pc'[u] # unlocked[u] =>
              unlocked[u] = "wWait" /\ pc'[u] = "wTry"
        BY <1>1, <3>1, WakeOne
      <3>3. \/ \A u \in Threads : pc'[u] # "wWait"
            \/ \E u \in Threads : pc'[u] = "wTry"
        BY <1>1, <1>2, <3>1, OneIsAwake DEF Sleepers
      <3> QED BY <1>2, <1>3, <3>2, <3>3 DEF ReaderUnlock, Sleepers
    <2>2. CASE readerCount' # 0
      <3>1. pc' = unlocked
        BY <1>3, <2>2 DEF ReaderUnlock, unlocked
      <3>2. readerCount' > 0
        BY <2>2 DEF IInv, TypeOK
      <3> QED BY <1>2, <1>3, <3>1, <3>2 DEF ReaderUnlock, Sleepers
    <2> QED BY <2>1, <2>2
  <1>4. CASE WriterUnlock(t)
    <2>1. /\ woken \in [Threads -> PC]
          /\ \A u \in Threads :
               /\ woken[u] # "rWait"
               /\ woken[u] # unlocked[u] => woken[u] = "rTry"
      BY <1>1 DEF WakeAllReaders, PC
    <2>2. pc' \in WakeOneWriter(woken)
      BY <1>4 DEF WriterUnlock, unlocked
    <2> HIDE DEF woken
    <2>3. \A u \in Threads : pc'[u] # woken[u] =>
            woken[u] = "wWait" /\ pc'[u] = "wTry"
      BY <2>1, <2>2, WakeOne
    <2>4. \A u \in Threads : woken[u] = "wWait" => u \in Writers
      BY <1>2, <2>1 DEF Sleepers
    <2>5. \/ \A u \in Threads : pc'[u] # "wWait"
          \/ \E u \in Threads : pc'[u] = "wTry"
      BY <2>1, <2>2, <2>4, OneIsAwake
    <2> QED BY <2>1, <2>3, <2>4, <2>5 DEF Sleepers
  <1> QED BY <1>3, <1>4

LEMMA StepKeepsSleepers ==
  IInv /\ IInv' /\ Sleepers /\ [Next]_vars => Sleepers'
  <1> SUFFICES ASSUME IInv, IInv', Sleepers, [Next]_vars PROVE Sleepers'
    OBVIOUS
  <1> Threads = Readers \cup Writers
    BY DEF Threads
  <1>1. ASSUME NEW t \in Readers, CallReaderLock(t) \/ ReaderStep(t)
        PROVE  Sleepers'
    BY <1>1, MoveKeepsSleepers, AdmitKeepsSleepers, UnlockKeepsSleepers
    DEF ReaderStep
  <1>2. ASSUME NEW t \in Writers, CallWriterLock(t) \/ WriterStep(t)
        PROVE  Sleepers'
    BY <1>2, MoveKeepsSleepers, AdmitKeepsSleepers, UnlockKeepsSleepers
    DEF WriterStep
  <1>3. ASSUME NEW t \in Threads, SpuriousWakeup(t)
        PROVE  Sleepers'
    BY <1>3, MoveKeepsSleepers
  <1>4. CASE UNCHANGED vars
    BY <1>4 DEF vars, Sleepers
  <1> QED BY <1>1, <1>2, <1>3, <1>4 DEF Next

(* No wake-up is lost, the safety half of SomeoneGetsIn: when nobody is    *)
(* inside and a thread sleeps, a writer has been notified and will find    *)
(* that it may write.                                                      *)
THEOREM NoLostWakeup == Spec => []FreeLockIsTaken
  <1>1. Init => Sleepers
    BY DEF Init, Sleepers
  <1>2. Spec => []Sleepers
    BY <1>1, Invariance, StepKeepsSleepers, PTL DEF Spec
  <1>3. IInv /\ Sleepers => FreeLockIsTaken
    <2> SUFFICES ASSUME IInv, Sleepers, ~writing, readerCount = 0,
                        NEW t \in Threads, pc[t] \in {"rWait", "wWait"}
                 PROVE  \E u \in Threads : pc[u] = "wTry"
      BY DEF FreeLockIsTaken
    <2>1. CASE pc[t] = "wWait"
      BY <2>1 DEF Sleepers
    <2>2. CASE pc[t] = "rWait"
      <3>1. queueingWriter > 0
        BY <2>2 DEF Sleepers
      <3>2. QueueingThreads # {}
        BY <3>1, FS_EmptySet DEF IInv, CountersExact
      <3> QED BY <3>2 DEF QueueingThreads, Queues, Sleepers
    <2> QED BY <2>1, <2>2
  <1> QED BY <1>2, <1>3, Invariance, PTL
=============================================================================
