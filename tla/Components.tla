----------------------------- MODULE Components -----------------------------
(***************************************************************************)
(* The components that call no other one, side by side.  A program uses    *)
(* them independently of each other, so each behaviour is that of one of   *)
(* them, named by part, while the others stay as they were initialised.    *)
(* The variables are those of the modules; where two of them use a name,   *)
(* all but one of the variables are named for their component.  Vector is  *)
(* extended and not instantiated, so that its properties are checked here  *)
(* under the names by which they are proved.                               *)
(***************************************************************************)
EXTENDS Vector

CONSTANTS
  fifoSize, Modulus, Lengths, MaxBytes,                       \* Fifo
  nullptr,
  SharedPtrs, Blocks, COUNT_SIZE,                             \* SharedPtr
  UniquePtrs, Owned, Deleters, DeleterOf, NoPtr,              \* UniquePtr
  Places, Functors, sizeOf, BS, NoFunctor,                    \* Function
  NoValue,
  Variants, Ts, NoVariant, NoObject, Unusable,                \* Variant
  Keys, Hash, MIN_SIZE,                                       \* HashMap
  Getters, Futures, Internals, NoFuture,                      \* Future
  Lockers, Rounds,                                            \* SpinLock
  Producers, Consumers, Locks, MatrixSIZE, STEP, MOD, Numbers \* rwlock.cc

VARIABLES
  part,
  fifoBuffer, begin, end, pPc, pLength, cPc, cLength, fifoData, sent, received,
  allocated, sharedCount, weakCount, deleted, ctrlBlock, source, sharedPc,
  first, second, uniqueAllocated, raw, deleting,
  kind, callable, functionBuffer, live, functionLeaked, functionBroken,
  variant, variantBroken,
  elements, bucketLists, map,
  futureData, value, futurePc, on, futureLeaked,
  flag, lockPc, count, loaded, rounds,
  readers, writers, numbers, checkSum, pc, i, step, sum, benchmark,
  generated, failed

fifoVars == <<fifoBuffer, begin, end, pPc, pLength, cPc, cLength, fifoData,
  sent, received>>
sharedVars == <<allocated, sharedCount, weakCount, deleted, ctrlBlock, source,
  sharedPc>>
uniqueVars == <<first, second, uniqueAllocated, raw, deleting>>
functionVars == <<kind, callable, functionBuffer, live, functionLeaked,
  functionBroken>>
variantVars == <<variant, variantBroken>>
vectorVars == <<data, capacity, size, contents, since, given>>
hashMapVars == <<elements, bucketLists, map>>
futureVars == <<futureData, value, futurePc, on, futureLeaked>>
spinLockVars == <<flag, lockPc, count, loaded, rounds>>
matrixVars == <<readers, writers, numbers, checkSum, pc, i, step, sum,
  benchmark, generated, failed>>

Q == INSTANCE Fifo
       WITH size <- fifoSize, buffer <- fifoBuffer, data <- fifoData
S == INSTANCE SharedPtr WITH Ptrs <- SharedPtrs, pc <- sharedPc
U == INSTANCE UniquePtr
       WITH Ptrs <- UniquePtrs, Objects <- Owned, allocated <- uniqueAllocated
F == INSTANCE Function
       WITH buffer <- functionBuffer, leaked <- functionLeaked,
            broken <- functionBroken
A == INSTANCE Variant WITH broken <- variantBroken
H == INSTANCE HashMap
P == INSTANCE Future
       WITH Threads <- Getters, data <- futureData, pc <- futurePc,
            leaked <- futureLeaked
L == INSTANCE SpinLock WITH Threads <- Lockers, SIZE <- Rounds, pc <- lockPc
M == INSTANCE MatrixBenchmark WITH SIZE <- MatrixSIZE

ASSUME ComponentsAssumption ==
  /\ Q!FifoAssumption /\ S!SharedPtrAssumption /\ U!UniquePtrAssumption
  /\ F!FunctionAssumption /\ A!VariantAssumption /\ VectorAssumption
  /\ H!HashMapAssumption /\ P!FutureAssumption /\ L!SpinLockAssumption
  /\ M!MatrixAssumption

allVars == <<part, fifoVars, sharedVars, uniqueVars, functionVars, variantVars,
             vectorVars, hashMapVars, futureVars, spinLockVars, matrixVars>>

Parts == {"Fifo", "SharedPtr", "UniquePtr", "Function", "Variant", "Vector",
          "HashMap", "Future", "SpinLock", "MatrixBenchmark"}

\* The matrix of a program that does not run is of no interest.
NoMatrix == checkSum = 0 /\ \A n \in DOMAIN numbers : numbers[n] = 0

InitAll ==
  /\ part \in Parts
  /\ Q!Init /\ S!Init /\ U!Init /\ F!Init /\ A!Init /\ Init /\ H!Init
  /\ P!Init /\ L!Init /\ M!Init
  /\ part # "MatrixBenchmark" => NoMatrix

\* A step of component p leaves the others alone.
Only(p) ==
  /\ part = p /\ UNCHANGED part
  /\ IF p = "Fifo" THEN TRUE ELSE UNCHANGED fifoVars
  /\ IF p = "SharedPtr" THEN TRUE ELSE UNCHANGED sharedVars
  /\ IF p = "UniquePtr" THEN TRUE ELSE UNCHANGED uniqueVars
  /\ IF p = "Function" THEN TRUE ELSE UNCHANGED functionVars
  /\ IF p = "Variant" THEN TRUE ELSE UNCHANGED variantVars
  /\ IF p = "Vector" THEN TRUE ELSE UNCHANGED vectorVars
  /\ IF p = "HashMap" THEN TRUE ELSE UNCHANGED hashMapVars
  /\ IF p = "Future" THEN TRUE ELSE UNCHANGED futureVars
  /\ IF p = "SpinLock" THEN TRUE ELSE UNCHANGED spinLockVars
  /\ IF p = "MatrixBenchmark" THEN TRUE ELSE UNCHANGED matrixVars

NextOfOne ==
  \/ Only("Fifo") /\ Q!Next
  \/ Only("SharedPtr") /\ S!Next
  \/ Only("UniquePtr") /\ U!Next
  \/ Only("Function") /\ F!Next
  \/ Only("Variant") /\ A!Next
  \/ Only("Vector") /\ Next
  \/ Only("HashMap") /\ H!Next
  \/ Only("Future") /\ P!Next
  \/ Only("SpinLock") /\ L!Next
  \/ Only("MatrixBenchmark") /\ M!Next

(* The fairness of the three components that promise progress, as stated   *)
(* and justified in their modules.                                         *)
FairSpec ==
  /\ InitAll /\ [][NextOfOne]_allVars
  /\ WF_allVars(Only("Fifo") /\ Q!ProducerRuns)
  /\ WF_allVars(Only("Fifo") /\ Q!ConsumerRuns)
  /\ \A t \in Getters : WF_allVars(Only("Future") /\ P!Wake(t))
  /\ \A t \in Lockers : WF_allVars(Only("SpinLock") /\ L!Step(t))
-----------------------------------------------------------------------------
(* Properties: those of the components, which are explained there, besides *)
(* VectorExact and ReallocationsApart of Vector                            *)

\* Fifo: neither enqueue nor dequeue is misled by a counter that the other
\* one moves, or that has wrapped around, into cells the other one is at.
RingExact == Q!RingExact

\* Fifo: dequeue hands out the bytes of the stream, each once and in order.
StreamIntact == Q!StreamIntact

\* Fifo: all bytes the producer offers come out.
AllThrough == part = "Fifo" => Q!AllThrough

\* SharedPtr: whoever shares an object keeps it, and the last one releases it.
SharedExactly == S!SharedExactly

\* UniquePtr: an object has one owner, and is deleted once, by its own deleter.
OwnedOnce == U!OwnedOnce

\* Function, OptimizedFunction: what can be called is alive and held once.
FunctorsHeldOnce == F!FunctorsHeldOnce

\* Variant: it holds what was put, copied, moved or swapped into it, and only
\* an assignment that throws leaves one whose index_ names no object.
ImplementsVariant == A!ImplementsVariant

\* HashMap: across rehashes every key is found, once, with its last value.
TableExact == H!TableExact

\* Future: every get on a Future that has its value returns.
GettersReturn == P!GettersReturn

\* SpinLock: the threads of its test end, with no increment lost.
NothingLost == part = "SpinLock" => L!NothingLost

\* bin/rwlock.cc: a verification fails only before the first matrix was made.
FailsOnlyAtFirst == M!FailsOnlyAtFirst
=============================================================================
