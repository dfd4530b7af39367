-------------------------------- MODULE Fifo --------------------------------
(***************************************************************************)
(* core2/container/Fifo.h: a ring buffer between one thread that enqueues  *)
(* and one that dequeues, without a lock.                                  *)
(*                                                                         *)
(* begin is written by the consumer and read by the producer, end the      *)
(* other way round, as plain size_t fields.  On the x86-64 the project is  *)
(* built for such an access is not torn, and the seq_cst fences keep each  *)
(* of them on its side of the copies, so an access to the other thread's   *)
(* counter is one action and a memcpy is another.  What the bytes are is   *)
(* abstracted to their place in the stream.                                *)
(***************************************************************************)
EXTENDS Integers, Sequences

CONSTANTS
  size,        \* the capacity, a power of two
  Modulus,     \* 2^64, the range of size_t
  Lengths,     \* the lengths the callers ask for
  MaxBytes     \* bound of the model: bytes ever enqueued

FifoAssumption ==
  /\ size \in Nat \ {0} /\ Modulus \in Nat \ {0}
  /\ Modulus % size = 0 /\ Modulus > size
  /\ Lengths \subseteq Nat
  /\ MaxBytes \in Nat

VARIABLES
  buffer, begin, end,
  pPc, pLength,     \* enqueue: where it is, and its local length
  cPc, cLength,     \* dequeue
  data,             \* what dequeue has copied to its caller so far
  sent, received    \* history: bytes enqueued, bytes dequeued

vars == <<buffer, begin, end, pPc, pLength, cPc, cLength, data, sent, received>>

Cells == 0 .. size - 1

Init ==
  /\ buffer = [i \in Cells |-> 0]
  /\ begin = 0 /\ end = 0
  /\ pPc = "idle" /\ pLength = 0
  /\ cPc = "idle" /\ cLength = 0
  /\ data = <<>>
  /\ sent = 0
  /\ received = 0

Least(a, b) == IF a < b THEN a ELSE b

\* std::min(length, size - (counter & (size - 1))): what fits before the
\* end of the buffer.
FirstPart(length, counter) == Least(length, size - (counter % size))
-----------------------------------------------------------------------------
(* enqueue *)

\* faulty variant: the subtraction of the counters is not taken modulo 2^64
FreeUnwrapped == size + begin - end

Free == (size + begin - end) % Modulus

\* The caller offers the bytes sent + 1, sent + 2, ...
EnqueueStart(length) ==
  /\ pPc = "idle"
  /\ sent < MaxBytes
  /\ pLength' = Least(length, Free)
  /\ pPc' = "first"
  /\ UNCHANGED <<buffer, begin, end, cPc, cLength, data, sent, received>>

EnqueueCopyFirst ==
  LET n == FirstPart(pLength, end)
      at == end % size
  IN  /\ pPc = "first"
      /\ buffer' = [i \in Cells |->
                      IF i >= at /\ i < at + n THEN sent + 1 + (i - at)
                                               ELSE buffer[i]]
      /\ pPc' = "second"
      /\ UNCHANGED <<begin, end, pLength, cPc, cLength, data, sent, received>>

EnqueueCopySecond ==
  LET n == FirstPart(pLength, end)
  IN  /\ pPc = "second"
      /\ buffer' = [i \in Cells |->
                      IF i < pLength - n THEN sent + 1 + n + i ELSE buffer[i]]
      /\ pPc' = "publish"
      /\ UNCHANGED <<begin, end, pLength, cPc, cLength, data, sent, received>>

EnqueueReturn ==
  /\ pPc = "publish"
  /\ end' = (end + pLength) % Modulus
  /\ sent' = sent + pLength
  /\ pLength' = 0
  /\ pPc' = "idle"
  /\ UNCHANGED <<buffer, begin, cPc, cLength, data, received>>
-----------------------------------------------------------------------------
(* dequeue *)

\* faulty variant: the counters are compared as if they never wrapped
AvailableUnwrapped == IF end > begin THEN end - begin ELSE 0

Available == (end - begin) % Modulus

DequeueStart(length) ==
  /\ cPc = "idle"
  /\ cLength' = Least(length, Available)
  /\ cPc' = "first"
  /\ UNCHANGED <<buffer, begin, end, pPc, pLength, data, sent, received>>

\* The bytes of n cells, from cell at on.
Bytes(at, n) == [i \in 1 .. n |-> buffer[at + i - 1]]

DequeueCopyFirst ==
  /\ cPc = "first"
  /\ data' = Bytes(begin % size, FirstPart(cLength, begin))
  /\ cPc' = "second"
  /\ UNCHANGED <<buffer, begin, end, pPc, pLength, cLength, sent, received>>

\* faulty variant: the second part is not copied from the start of the buffer
SecondPartMisplaced(n) == Bytes(size - n, n)

SecondPart(n) == Bytes(0, n)

DequeueCopySecond ==
  /\ cPc = "second"
  /\ data' = data \o SecondPart(cLength - FirstPart(cLength, begin))
  /\ cPc' = "publish"
  /\ UNCHANGED <<buffer, begin, end, pPc, pLength, cLength, sent, received>>

DequeueReturn ==
  /\ cPc = "publish"
  /\ begin' = (begin + cLength) % Modulus
  /\ received' = received + cLength
  /\ cLength' = 0
  /\ data' = <<>>
  /\ cPc' = "idle"
  /\ UNCHANGED <<buffer, end, pPc, pLength, sent>>
-----------------------------------------------------------------------------
Producer == EnqueueCopyFirst \/ EnqueueCopySecond \/ EnqueueReturn
Consumer == DequeueCopyFirst \/ DequeueCopySecond \/ DequeueReturn

Next == \/ \E length \in Lengths : EnqueueStart(length) \/ DequeueStart(length)
        \/ Producer
        \/ Consumer

Spec == Init /\ [][Next]_vars

(* Both threads call again and again, as those of FifoTest.cc, and neither *)
(* is stopped for ever inside a call.                                      *)
ProducerRuns == Producer \/ \E length \in Lengths : EnqueueStart(length)
ConsumerRuns == Consumer \/ \E length \in Lengths : DequeueStart(length)
FairSpec == Spec /\ WF_vars(ProducerRuns) /\ WF_vars(ConsumerRuns)
-----------------------------------------------------------------------------
(* Properties *)

\* The counters describe the stream even when they have wrapped around:
\* what dequeue may take is what was enqueued and not dequeued, and the
\* capacity is never exceeded.
CountersTrackStream ==
  /\ begin = received % Modulus /\ end = sent % Modulus
  /\ sent - received \in 0 .. size
  /\ Available = sent - received

\* The cells the producer writes and those the consumer reads are disjoint,
\* so neither thread ever sees half of the other's copy.
WriteCells == IF pPc = "idle" THEN {}
              ELSE {(end + i) % size : i \in 0 .. pLength - 1}
ReadCells == IF cPc = "idle" THEN {}
             ELSE {(begin + i) % size : i \in 0 .. cLength - 1}
CopiesDisjoint == WriteCells \cap ReadCells = {}

\* Neither thread is misled by a counter that the other one moves, or that has
\* wrapped around, into cells the other one is at.
RingExact == CountersTrackStream /\ CopiesDisjoint

\* The bytes dequeue hands out are the next ones of the stream, each once
\* and in order.
StreamIntact ==
  cPc = "publish" => data = [i \in 1 .. cLength |-> received + i]

\* All bytes of the producer come out (the threads of FifoTest.cc terminate),
\* if the callers never ask for zero bytes (0 \notin Lengths): neither a full
\* buffer nor an empty one stays as it is.
AllThrough == <>(received >= MaxBytes)
=============================================================================
