--------------------------- MODULE MatrixBenchmark ---------------------------
(***************************************************************************)
(* bin/rwlock.cc: producers rewrite a matrix under a lock while consumers  *)
(* verify its checksum.  main runs the benchmark once for each lock, on    *)
(* the same matrix, which nothing initialises.  Of a lock the model keeps  *)
(* what RWLockSpec says: ReaderWriterLock implements it in its three modes *)
(* (ReaderWriterLock_proofs), std::shared_mutex and, for a consumer that   *)
(* locks it like a producer, std::mutex.                                   *)
(***************************************************************************)
EXTENDS Integers, Sequences

CONSTANTS
  Producers, Consumers,
  Locks,     \* for each benchmark whether its consumers lock "shared" or not
  SIZE, STEP, MOD,
  Numbers    \* what randInt may return

MatrixAssumption ==
  /\ Producers \cap Consumers = {}
  /\ SIZE \in Nat /\ STEP \in Nat /\ MOD \in Nat \ {0}
  /\ Numbers \subseteq 0 .. MOD - 1

VARIABLES
  readers, writers,    \* the lock
  numbers, checkSum,   \* the fields of the Matrix
  pc, i, step,         \* of each thread, with its local variables
  sum,                 \* checkSum in verify
  benchmark,           \* which of them runs
  generated,           \* history: a generate has ended
  failed               \* "Verification failed", and exit

lock   == <<readers, writers>>
matrix == <<numbers, checkSum>>
locals == <<pc, i, step, sum>>
vars   == <<readers, writers, numbers, checkSum, pc, i, step, sum, benchmark,
            generated, failed>>

Threads == Producers \cup Consumers

L == INSTANCE RWLockSpec WITH Readers <- Consumers, Writers <- Threads

Init ==
  /\ L!Init
  /\ numbers \in [0 .. SIZE - 1 -> Numbers] /\ checkSum \in 0 .. MOD - 1
  /\ pc = [t \in Threads |-> "loop"]
  /\ i = [t \in Threads |-> 0]
  /\ step = [t \in Threads |-> 0]
  /\ sum = [t \in Threads |-> 0]
  /\ benchmark = 1
  /\ generated = FALSE /\ failed = FALSE

Goto(t, from, to) == pc[t] = from /\ pc' = [pc EXCEPT ![t] = to]
-----------------------------------------------------------------------------
(* The producers: generate between writerLock and writerUnlock *)

StartGenerate(t) ==
  /\ Goto(t, "loop", "generate")
  /\ step[t] < STEP
  /\ L!BeginWrite(t)
  /\ checkSum' = 0
  /\ UNCHANGED <<numbers, i, step, sum, benchmark, generated, failed>>

GenerateNext(t, n) ==
  /\ pc[t] = "generate" /\ i[t] < SIZE
  /\ numbers' = [numbers EXCEPT ![i[t]] = n]
  /\ checkSum' = (checkSum + n) % MOD
  /\ i' = [i EXCEPT ![t] = @ + 1]
  /\ UNCHANGED <<lock, pc, step, sum, benchmark, generated, failed>>

EndGenerate(t) ==
  /\ Goto(t, "generate", "loop")
  /\ i[t] = SIZE
  /\ L!EndWrite(t)
  /\ i' = [i EXCEPT ![t] = 0]
  /\ step' = [step EXCEPT ![t] = @ + 1]
  /\ generated' = TRUE
  /\ UNCHANGED <<matrix, sum, benchmark, failed>>
-----------------------------------------------------------------------------
(* The consumers: verify between readerLock and readerUnlock *)

\* faulty variant: the consumer does not lock
ConsumerIn(t) == UNCHANGED lock

ConsumerLock(t) ==
  IF Locks[benchmark] = "shared" THEN L!BeginRead(t) ELSE L!BeginWrite(t)

ConsumerUnlock(t) ==
  IF Locks[benchmark] = "shared" THEN L!EndRead(t) ELSE L!EndWrite(t)

StartVerify(t) ==
  /\ Goto(t, "loop", "verify")
  /\ step[t] < STEP
  /\ ConsumerLock(t)
  /\ UNCHANGED <<matrix, i, step, sum, benchmark, generated, failed>>

VerifyNext(t) ==
  /\ pc[t] = "verify" /\ i[t] < SIZE
  /\ sum' = [sum EXCEPT ![t] = (@ + numbers[i[t]]) % MOD]
  /\ i' = [i EXCEPT ![t] = @ + 1]
  /\ UNCHANGED <<lock, matrix, pc, step, benchmark, generated, failed>>

Verified(t) ==
  /\ Goto(t, "verify", "loop")
  /\ i[t] = SIZE /\ sum[t] = checkSum
  /\ ConsumerUnlock(t)
  /\ i' = [i EXCEPT ![t] = 0]
  /\ sum' = [sum EXCEPT ![t] = 0]
  /\ step' = [step EXCEPT ![t] = @ + 1]
  /\ UNCHANGED <<matrix, benchmark, generated, failed>>

\* exit(1) ends the program, whatever the other threads do.
VerificationFailed(t) ==
  /\ pc[t] = "verify" /\ i[t] = SIZE /\ sum[t] # checkSum
  /\ failed' = TRUE
  /\ UNCHANGED <<lock, matrix, locals, benchmark, generated>>
-----------------------------------------------------------------------------
\* waitThreads, and the next benchmark of main with its own lock
NextBenchmark ==
  /\ \A t \in Threads : pc[t] = "loop" /\ step[t] = STEP
  /\ benchmark < Len(Locks)
  /\ benchmark' = benchmark + 1
  /\ step' = [t \in Threads |-> 0]
  /\ UNCHANGED <<lock, matrix, pc, i, sum, generated, failed>>

Next ==
  /\ ~failed
  /\ \/ \E t \in Producers : \/ StartGenerate(t) \/ EndGenerate(t)
                             \/ \E n \in Numbers : GenerateNext(t, n)
     \/ \E t \in Consumers : \/ StartVerify(t) \/ VerifyNext(t)
                             \/ Verified(t) \/ VerificationFailed(t)
     \/ NextBenchmark

Spec == Init /\ [][Next]_vars
-----------------------------------------------------------------------------
(* Properties *)

\* Once a producer has filled the matrix every verification succeeds, in this
\* benchmark and the next: no consumer ever sees half of a new matrix.
FailsOnlyAtFirst == failed => ~generated
=============================================================================
