-------------------------- MODULE Components_proofs --------------------------
(***************************************************************************)
(* What the components promise, for every value of the constants.  Each    *)
(* has a section of its own, with its inductive invariant; every behaviour *)
(* of Components is one of each of them, which the last section says.      *)
(***************************************************************************)
EXTENDS Components, FiniteSetTheorems, SequenceTheorems,
        WellFoundedInduction, TLAPS
-----------------------------------------------------------------------------
(* Arithmetic and sizes *)

(* Division with remainder.                                                *)
LEMMA Division ==
  ASSUME NEW n \in Nat \ {0}, NEW k \in Int
  PROVE  /\ k \div n \in Int /\ k % n \in 0 .. n - 1
         /\ k = n * (k \div n) + (k % n)
  OBVIOUS

(* It is the only one.                                                     *)
LEMMA Remainder ==
  ASSUME NEW n \in Nat \ {0}, NEW k \in Int, NEW q \in Int,
         NEW c \in 0 .. n - 1, k = n * q + c
  PROVE  k % n = c
  <1> DEFINE p == k \div n
             d == k % n
  <1>1. p \in Int /\ d \in 0 .. n - 1 /\ k = n * p + d
    BY Division
  <1> HIDE DEF p, d
  <1>2. n * (q - p) = d - c
    BY <1>1
  <1>3. q - p = 0
    <2>1. ASSUME NEW m \in Int, n * m < n PROVE m < 1
      BY <2>1
    <2>2. ASSUME NEW m \in Int, n * m > 0 - n PROVE m > 0 - 1
      BY <2>2
    <2>3. n * (q - p) < n /\ n * (q - p) > 0 - n
      BY <1>1, <1>2
    <2>4. q - p \in Int
      BY <1>1
    <2> QED BY <2>1, <2>2, <2>3, <2>4
  <1>4. p = q
    BY <1>1, <1>3
  <1>5. d = c
    BY <1>1, <1>4
  <1> QED BY <1>5 DEF d

(* Numbers less than n apart have different remainders.                    *)
LEMMA Apart ==
  ASSUME NEW n \in Nat \ {0}, NEW k \in Int, NEW l \in Int,
         k < l, l < k + n
  PROVE  k % n # l % n
  <1> SUFFICES ASSUME k % n = l % n PROVE FALSE
    OBVIOUS
  <1> DEFINE c == k % n
             p == k \div n
             q == l \div n
  <1>1. p \in Int /\ q \in Int /\ c \in Int /\ k = n * p + c /\ l = n * q + c
    BY Division
  <1> HIDE DEF c, p, q
  <1>2. n * (q - p) > 0 /\ n * (q - p) < n
    BY <1>1
  <1>3. ASSUME NEW m \in Int, n * m > 0 PROVE n * m >= n
    BY <1>3
  <1> QED BY <1>1, <1>2, <1>3

(* The modules have FiniteSets of their own, which are all the same.       *)
LEMMA SameSizes ==
  ASSUME NEW T
  PROVE  /\ S!IsFiniteSet(T) <=> IsFiniteSet(T)
         /\ S!Cardinality(T) = Cardinality(T)
  <1>1. \A X : S!IsFiniteSet(X) <=> IsFiniteSet(X)
    BY DEF IsFiniteSet, S!IsFiniteSet
  <1>2. S!Cardinality(T) = Cardinality(T)
    BY <1>1, Zenon DEF Cardinality, S!Cardinality
  <1> QED BY <1>1, <1>2
-----------------------------------------------------------------------------
(* Fifo *)

(* The counters are wider than the buffer is long.                         *)
LEMMA FifoConstants ==
  /\ fifoSize \in Nat \ {0} /\ Modulus \in Nat \ {0}
  /\ Modulus > fifoSize /\ Lengths \subseteq Nat /\ MaxBytes \in Nat
  BY ComponentsAssumption DEF ComponentsAssumption, Q!FifoAssumption

(* They wrap around together with its index.                               *)
LEMMA WholeRounds == \E m \in Int : Modulus = fifoSize * m
  <1>1. /\ fifoSize \in Nat \ {0} /\ Modulus \in Nat \ {0}
        /\ Modulus % fifoSize = 0
    BY ComponentsAssumption DEF ComponentsAssumption, Q!FifoAssumption
  <1>2. Modulus = fifoSize * (Modulus \div fifoSize) + 0
        /\ Modulus \div fifoSize \in Int
    BY <1>1, Division
  <1> QED BY <1>1, <1>2

(* Wrapping around a multiple of n leaves the remainder by n.               *)
LEMMA Multiples ==
  ASSUME NEW n \in Nat \ {0}, NEW N \in Nat \ {0},
         NEW k \in Int, NEW j \in Int
  PROVE  (\E m \in Int : N = n * m) => ((k % N) + j) % n = (k + j) % n
  <1>0. k \div N \in Int /\ k % N \in Int /\ k = N * (k \div N) + (k % N)
    BY Division
  <1> DEFINE r == k % N
             q == k \div N
             p == (r + j) \div n
             c == (r + j) % n
  <1>1. q \in Int /\ r \in Int /\ k = N * q + r
    BY <1>0
  <1>2. p \in Int /\ c \in 0 .. n - 1 /\ r + j = n * p + c
    <2> HIDE DEF r, q
    <2>1. r + j \in Int
      BY <1>1
    <2> HIDE DEF p, c
    <2> QED BY <2>1, Division DEF p, c
  <1> HIDE DEF r, q, p, c
  <1> SUFFICES ASSUME NEW m \in Int, N = n * m PROVE (r + j) % n = (k + j) % n
    BY DEF r
  <1>3. k + j = n * (m * q + p) + c
    <2>1. N * q = n * (m * q)
      BY <1>1
    <2>2. n * (m * q + p) = n * (m * q) + n * p
      BY <1>1, <1>2
    <2> QED BY <1>1, <1>2, <2>1, <2>2
  <1>4. (k + j) % n = c
    <2>1. m * q + p \in Int /\ k + j \in Int
      BY <1>1, <1>2
    <2> QED BY <1>2, <1>3, <2>1, Remainder
  <1> QED BY <1>4 DEF c, r

(* A counter that has wrapped around names the same cell, and counts on.   *)
LEMMA Wrapped ==
  ASSUME NEW k \in Int, NEW j \in Int
  PROVE  /\ ((k % Modulus) + j) % fifoSize = (k + j) % fifoSize
         /\ ((k % Modulus) + j) % Modulus = (k + j) % Modulus
  <1>1. /\ fifoSize \in Nat \ {0} /\ Modulus \in Nat \ {0}
        /\ \E m \in Int : Modulus = fifoSize * m
    BY FifoConstants, WholeRounds
  <1>2. \E m \in Int : Modulus = Modulus * m
    <2>1. Modulus = Modulus * 1
      BY <1>1
    <2> QED BY <2>1
  <1>3. ((k % Modulus) + j) % fifoSize = (k + j) % fifoSize
    BY <1>1, Multiples
  <1>4. ((k % Modulus) + j) % Modulus = (k + j) % Modulus
    BY <1>1, <1>2, Multiples
  <1> QED BY <1>3, <1>4

(* The difference of two counters, modulo their range.                     *)
LEMMA Difference ==
  ASSUME NEW k \in Int, NEW l \in Int, NEW d \in Int,
         d + k - l \in 0 .. Modulus - 1
  PROVE  (d + (k % Modulus) - (l % Modulus)) % Modulus = d + k - l
  <1> DEFINE r == k % Modulus
             s == l % Modulus
             p == k \div Modulus
             q == l \div Modulus
  <1>1. /\ p \in Int /\ r \in Int /\ k = Modulus * p + r
        /\ q \in Int /\ s \in Int /\ l = Modulus * q + s
    BY FifoConstants, Division
  <1> HIDE DEF r, s, p, q
  <1>2. d + r - s = Modulus * (q - p) + (d + k - l)
    BY <1>1, FifoConstants
  <1>3. (d + r - s) % Modulus = d + k - l
    <2>1. /\ d + r - s \in Int /\ q - p \in Int /\ d + k - l \in Int
          /\ Modulus \in Nat \ {0}
      BY <1>1, FifoConstants
    <2> DEFINE x == d + r - s
               y == q - p
               z == d + k - l
    <2>2. /\ x \in Int /\ y \in Int /\ z \in 0 .. Modulus - 1
          /\ x = Modulus * y + z
      BY <1>2, <2>1
    <2> HIDE DEF x, y, z
    <2>3. x % Modulus = z
      BY <2>1, <2>2, Remainder
    <2> QED BY <2>3 DEF x, z
  <1> QED BY <1>3 DEF r, s

FifoTypeOK ==
  /\ fifoBuffer \in [Q!Cells -> Nat]
  /\ sent \in Nat /\ received \in Nat /\ pLength \in Nat /\ cLength \in Nat
  /\ pPc \in {"idle", "first", "second", "publish"}
  /\ cPc \in {"idle", "first", "second", "publish"}

\* The counters, and how far each call may go.
WithinBounds ==
  /\ begin = received % Modulus /\ end = sent % Modulus
  /\ received + cLength <= sent /\ sent + pLength <= received + fifoSize

\* What enqueue has copied and not published, and dequeue copied.
Written == IF pPc = "second" THEN Q!FirstPart(pLength, end)
           ELSE IF pPc = "publish" THEN pLength ELSE 0
Copied  == IF cPc = "second" THEN Q!FirstPart(cLength, begin) ELSE cLength

\* The byte after the first k of the stream is in the buffer.
Stored(k) == fifoBuffer[k % fifoSize] = k + 1

BytesInPlace ==
  /\ \A k \in received .. sent + Written - 1 : Stored(k)
  /\ cPc \in {"second", "publish"} =>
       fifoData = [j \in 1 .. Copied |-> received + j]

FifoInv == FifoTypeOK /\ WithinBounds /\ BytesInPlace

(* The two parts of a copy of n bytes, from place x of the stream on.      *)
LEMMA TwoParts ==
  ASSUME NEW x \in Nat, NEW n \in Nat,
         NEW c, NEW m, NEW a,
         c = x % Modulus, m = Q!FirstPart(n, c), a = c % fifoSize
  PROVE  /\ m \in 0 .. n /\ a \in 0 .. fifoSize - 1
         /\ a + m <= fifoSize
         /\ m < n => a + m = fifoSize
         /\ \A j \in 0 .. m - 1 : (x + j) % fifoSize = a + j
         /\ n <= fifoSize =>
              \A j \in 0 .. n - m - 1 : (x + m + j) % fifoSize = j
  <1> DEFINE q == x \div fifoSize
  <1>1. fifoSize \in Nat \ {0} /\ Modulus \in Nat \ {0}
    BY FifoConstants
  <1>2. a = x % fifoSize
    <2>1. ((x % Modulus) + 0) % fifoSize = (x + 0) % fifoSize
      BY Wrapped
    <2>2. x % Modulus \in Int
      BY <1>1, Division
    <2>3. (x % Modulus) + 0 = x % Modulus /\ x + 0 = x
      BY <2>2
    <2> QED BY <2>1, <2>3
  <1>3. q \in Int /\ a \in 0 .. fifoSize - 1 /\ x = fifoSize * q + a
    BY <1>1, <1>2, Division
  <1> HIDE DEF q
  <1>4. m = IF n < fifoSize - a THEN n ELSE fifoSize - a
    BY DEF Q!FirstPart, Q!Least
  <1>5. /\ m \in 0 .. n /\ a + m <= fifoSize /\ (m < n => a + m = fifoSize)
    BY <1>1, <1>3, <1>4
  <1>6. ASSUME NEW j \in 0 .. m - 1 PROVE (x + j) % fifoSize = a + j
    <2> DEFINE l == a + j
               y == x + j
    <2>1. /\ y = fifoSize * q + l /\ l \in 0 .. fifoSize - 1 /\ y \in Int
          /\ q \in Int /\ fifoSize \in Nat \ {0}
      BY <1>1, <1>3, <1>5
    <2> HIDE DEF l, y
    <2>2. y % fifoSize = l
      BY <2>1, Remainder
    <2> QED BY <2>2 DEF l, y
  <1>7. ASSUME n <= fifoSize, NEW j \in 0 .. n - m - 1
        PROVE  (x + m + j) % fifoSize = j
    <2>1. a + m = fifoSize /\ j \in 0 .. fifoSize - 1
      BY <1>1, <1>5, <1>7
    <2>2. fifoSize * (q + 1) = fifoSize * q + fifoSize
      BY <1>1, <1>3
    <2>3. x + m = fifoSize * (q + 1)
      <3> DEFINE w == fifoSize * q
      <3>1. w \in Int /\ x = w + a
        BY <1>1, <1>3
      <3>2. fifoSize * (q + 1) = w + fifoSize
        BY <2>2
      <3> HIDE DEF w
      <3>3. a \in Int /\ m \in Int /\ a + m = fifoSize
        BY <1>1, <1>3, <1>5, <2>1
      <3>4. x + m = w + fifoSize
        BY <3>1, <3>3
      <3> QED BY <3>2, <3>4
    <2>4. q + 1 \in Int /\ x + m + j \in Int
      BY <1>3, <1>5, <1>7
    <2> QED BY <1>1, <2>1, <2>3, <2>4, Remainder
  <1> QED BY <1>3, <1>5, <1>6, <1>7

(* Nothing is sent yet.                                                    *)
LEMMA FifoInit == Q!Init => FifoInv
  <1> SUFFICES ASSUME Q!Init PROVE FifoInv
    OBVIOUS
  <1>1. fifoSize \in Nat \ {0} /\ Modulus \in Nat \ {0}
    BY FifoConstants
  <1>2. 0 % Modulus = 0
    BY <1>1, Remainder
  <1>3. FifoTypeOK /\ WithinBounds
    BY <1>1, <1>2 DEF Q!Init, FifoTypeOK, WithinBounds
  <1>4. BytesInPlace
    BY <1>3 DEF Q!Init, BytesInPlace, Written
  <1> QED BY <1>3, <1>4 DEF FifoInv

(* What can be written and what can be read.                               *)
LEMMA Room ==
  ASSUME FifoTypeOK, WithinBounds
  PROVE  /\ Q!Free = fifoSize - (sent - received)
         /\ Q!Available = sent - received
         /\ sent - received \in 0 .. fifoSize
  <1>1. sent - received \in 0 .. fifoSize /\ fifoSize < Modulus
        /\ fifoSize \in Nat /\ Modulus \in Nat
    BY FifoConstants DEF FifoTypeOK, WithinBounds
  <1>2. (fifoSize + (received % Modulus) - (sent % Modulus)) % Modulus =
          fifoSize + received - sent
    <2>1. fifoSize + received - sent \in 0 .. Modulus - 1
      BY <1>1 DEF FifoTypeOK
    <2> QED BY <1>1, <2>1, Difference DEF FifoTypeOK
  <1>3. (0 + (sent % Modulus) - (received % Modulus)) % Modulus =
          0 + sent - received
    <2>1. \A d \in Int : d + sent - received \in 0 .. Modulus - 1 =>
            (d + (sent % Modulus) - (received % Modulus)) % Modulus =
              d + sent - received
      BY Difference DEF FifoTypeOK
    <2>2. 0 + sent - received \in 0 .. Modulus - 1
      BY <1>1 DEF FifoTypeOK
    <2> QED BY <2>1, <2>2
  <1>4. (sent % Modulus) \in Int /\ (received % Modulus) \in Int
    BY FifoConstants, Division DEF FifoTypeOK
  <1>5. Q!Free = fifoSize - (sent - received)
    BY <1>1, <1>2 DEF Q!Free, WithinBounds, FifoTypeOK
  <1>6. Q!Available = sent - received
    BY <1>1, <1>3, <1>4 DEF Q!Available, WithinBounds, FifoTypeOK
  <1> QED BY <1>1, <1>5, <1>6
(* The producer takes what fits.                                           *)
LEMMA EnqueueStartKeepsFifo ==
  ASSUME FifoInv, NEW length \in Lengths, Q!EnqueueStart(length)
  PROVE  FifoInv'
  <1> USE DEF Q!EnqueueStart
  <1>1. /\ Q!Free = fifoSize - (sent - received)
        /\ sent - received \in 0 .. fifoSize /\ length \in Nat
        /\ fifoSize \in Nat
    BY Room, FifoConstants DEF FifoInv
  <1>2. pLength' \in Nat /\ pLength' <= fifoSize - (sent - received)
    BY <1>1 DEF Q!Least
  <1>3. FifoTypeOK'
    BY <1>2 DEF FifoInv, FifoTypeOK
  <1>4. WithinBounds'
    BY <1>1, <1>2 DEF FifoInv, FifoTypeOK, WithinBounds
  <1>5. BytesInPlace'
    BY DEF FifoInv, BytesInPlace, Written, Copied, Stored
  <1> QED BY <1>3, <1>4, <1>5 DEF FifoInv

(* What is enqueued and not dequeued is in the buffer.                     *)
LEMMA Waiting ==
  ASSUME FifoInv
  PROVE  /\ Written \in 0 .. pLength
         /\ \A k \in received .. sent - 1 : Stored(k)
         /\ \A k \in Int : k % fifoSize \in Q!Cells
  <1>1. /\ sent \in Nat /\ received \in Nat /\ pLength \in Nat
        /\ end = sent % Modulus /\ fifoSize \in Nat \ {0}
    BY FifoConstants DEF FifoInv, FifoTypeOK, WithinBounds
  <1>2. Written \in 0 .. pLength
    <2>1. Q!FirstPart(pLength, end) \in 0 .. pLength
      BY <1>1, TwoParts
    <2> QED BY <1>1, <2>1 DEF Written
  <1>3. \A k \in received .. sent - 1 : Stored(k)
    BY <1>1, <1>2 DEF FifoInv, BytesInPlace
  <1>4. \A k \in Int : k % fifoSize \in Q!Cells
    BY <1>1, Division DEF Q!Cells
  <1> QED BY <1>2, <1>3, <1>4

(* Up to the end of the buffer.                                            *)
LEMMA EnqueueCopyFirstKeepsFifo ==
  ASSUME FifoInv, Q!EnqueueCopyFirst, NEW m, NEW a,
         m = Q!FirstPart(pLength, end), a = end % fifoSize
  PROVE  FifoInv'
  <1>1. /\ sent \in Nat /\ received \in Nat /\ pLength \in Nat
        /\ end = sent % Modulus /\ sent + pLength <= received + fifoSize
        /\ fifoSize \in Nat \ {0} /\ fifoBuffer \in [Q!Cells -> Nat]
    BY FifoConstants DEF FifoInv, FifoTypeOK, WithinBounds
  <1>2. /\ m \in 0 .. pLength /\ a \in 0 .. fifoSize - 1
        /\ a + m <= fifoSize
        /\ \A j \in 0 .. m - 1 : (sent + j) % fifoSize = a + j
    BY <1>1, TwoParts
  <1>3. /\ pPc = "first" /\ pPc' = "second"
        /\ UNCHANGED <<begin, end, pLength, cPc, cLength, fifoData, sent,
                       received>>
        /\ fifoBuffer' = [c \in Q!Cells |-> IF c >= a /\ c < a + m
                                             THEN sent + 1 + (c - a)
                                             ELSE fifoBuffer[c]]
    BY DEF Q!EnqueueCopyFirst
  <1>4. FifoTypeOK'
    <2>1. ASSUME NEW c \in Q!Cells
          PROVE (IF c >= a /\ c < a + m THEN sent + 1 + (c - a)
                                         ELSE fifoBuffer[c]) \in Nat
      <3>1. c \in Int /\ a \in Int
        BY <1>1, <1>2 DEF Q!Cells
      <3> QED BY <1>1, <3>1
    <2>2. fifoBuffer' \in [Q!Cells -> Nat]
      BY <1>3, <2>1
    <2> QED BY <1>3, <2>2 DEF FifoInv, FifoTypeOK
  <1>5. WithinBounds'
    BY <1>3 DEF FifoInv, WithinBounds
  <1>6. ASSUME NEW k \in received .. sent - 1
        PROVE  fifoBuffer'[k % fifoSize] = k + 1
    <2> DEFINE c == k % fifoSize
    <2>1. c \in Q!Cells /\ fifoBuffer[c] = k + 1
      <3>1. k \in Int /\ Stored(k)
        BY <1>1, Waiting
      <3> QED BY <3>1, Waiting DEF Stored
    <2>2. ASSUME NEW j \in 0 .. m - 1 PROVE c # a + j
      <3>1. /\ k \in Int /\ sent + j \in Int
            /\ k < sent + j /\ sent + j < k + fifoSize
        BY <1>1, <1>2
      <3>2. c # (sent + j) % fifoSize
        BY <1>1, <3>1, Apart
      <3> QED BY <1>2, <3>2
    <2> HIDE DEF c
    <2>3. ~ (c >= a /\ c < a + m)
      <3>1. c \in Int /\ a \in Int /\ m \in Int
        BY <1>1, <1>2, <2>1 DEF Q!Cells
      <3>2. c = a + (c - a)
        BY <3>1
      <3>3. c >= a /\ c < a + m => c - a \in 0 .. m - 1
        BY <3>1
      <3> QED BY <2>2, <3>2, <3>3
    <2>4. fifoBuffer'[c] = k + 1
      BY <1>3, <2>1, <2>3
    <2> QED BY <2>4 DEF c
  <1>7. ASSUME NEW k \in sent .. sent + m - 1
        PROVE  fifoBuffer'[k % fifoSize] = k + 1
    <2> DEFINE j == k - sent
               c == k % fifoSize
    <2>1. j \in 0 .. m - 1 /\ k = sent + j
      BY <1>1, <1>2
    <2>2. c \in Q!Cells
      BY <1>1, Waiting
    <2> HIDE DEF j
    <2>3. c = a + j
      BY <1>2, <2>1
    <2> HIDE DEF c
    <2>4. c >= a /\ c < a + m /\ sent + 1 + (c - a) = k + 1
      BY <1>1, <1>2, <2>1, <2>3
    <2>5. fifoBuffer'[c] = k + 1
      BY <1>3, <2>2, <2>4
    <2> QED BY <2>5 DEF c
  <1>8. ASSUME NEW k \in (received .. sent + Written - 1)'
        PROVE  Stored(k)'
    <2>1. Written' = m
      BY <1>3 DEF Written
    <2>2. k \in received .. sent - 1 \/ k \in sent .. sent + m - 1
      BY <1>1, <1>2, <1>3, <2>1
    <2> QED BY <1>6, <1>7, <2>2 DEF Stored
  <1>9. BytesInPlace'
    BY <1>3, <1>8 DEF FifoInv, BytesInPlace, Copied
  <1> QED BY <1>4, <1>5, <1>9 DEF FifoInv

(* From the start of the buffer.                                           *)
LEMMA EnqueueCopySecondKeepsFifo ==
  ASSUME FifoInv, Q!EnqueueCopySecond, NEW m, m = Q!FirstPart(pLength, end)
  PROVE  FifoInv'
  <1>1. /\ sent \in Nat /\ received \in Nat /\ pLength \in Nat
        /\ end = sent % Modulus /\ sent + pLength <= received + fifoSize
        /\ received <= sent
        /\ fifoSize \in Nat \ {0} /\ fifoBuffer \in [Q!Cells -> Nat]
    BY FifoConstants DEF FifoInv, FifoTypeOK, WithinBounds
  <1>2. m \in 0 .. pLength
    BY <1>1, TwoParts
  <1>3. \A j \in 0 .. pLength - m - 1 : (sent + m + j) % fifoSize = j
    <2>1. pLength <= fifoSize
      BY <1>1
    <2> QED BY <1>1, <2>1, TwoParts
  <1>4. /\ pPc = "second" /\ pPc' = "publish"
        /\ UNCHANGED <<begin, end, pLength, cPc, cLength, fifoData, sent,
                       received>>
        /\ fifoBuffer' = [c \in Q!Cells |-> IF c < pLength - m
                                             THEN sent + 1 + m + c
                                             ELSE fifoBuffer[c]]
    BY DEF Q!EnqueueCopySecond
  <1>5. FifoTypeOK'
    <2>1. ASSUME NEW c \in Q!Cells
          PROVE  (IF c < pLength - m THEN sent + 1 + m + c
                                     ELSE fifoBuffer[c]) \in Nat
      <3>1. c \in Nat
        BY <1>1 DEF Q!Cells
      <3> QED BY <1>1, <1>2, <3>1
    <2>2. fifoBuffer' \in [Q!Cells -> Nat]
      BY <1>4, <2>1
    <2> QED BY <1>4, <2>2 DEF FifoInv, FifoTypeOK
  <1>6. WithinBounds'
    BY <1>4 DEF FifoInv, WithinBounds
  <1>7. ASSUME NEW k \in received .. sent + m - 1
        PROVE  fifoBuffer'[k % fifoSize] = k + 1
    <2> DEFINE c == k % fifoSize
    <2>1. c \in Q!Cells /\ fifoBuffer[c] = k + 1
      <3>1. Written = m
        BY <1>4 DEF Written
      <3>2. k \in Int /\ Stored(k)
        BY <1>1, <1>2, <3>1 DEF FifoInv, BytesInPlace
      <3> QED BY <3>2, Waiting DEF Stored
    <2>2. ASSUME NEW j \in 0 .. pLength - m - 1 PROVE c # j
      <3>1. /\ k \in Int /\ sent + m + j \in Int
            /\ k < sent + m + j /\ sent + m + j < k + fifoSize
        BY <1>1, <1>2
      <3>2. c # (sent + m + j) % fifoSize
        BY <1>1, <3>1, Apart
      <3> QED BY <1>3, <3>2
    <2> HIDE DEF c
    <2>3. ~ (c < pLength - m)
      <3>1. c \in Nat
        BY <1>1, <2>1 DEF Q!Cells
      <3>2. c < pLength - m => c \in 0 .. pLength - m - 1
        BY <1>1, <1>2, <3>1
      <3> QED BY <2>2, <3>2
    <2>4. fifoBuffer'[c] = k + 1
      BY <1>4, <2>1, <2>3
    <2> QED BY <2>4 DEF c
  <1>8. ASSUME NEW k \in sent + m .. sent + pLength - 1
        PROVE  fifoBuffer'[k % fifoSize] = k + 1
    <2> DEFINE j == k - sent - m
               c == k % fifoSize
    <2>1. j \in 0 .. pLength - m - 1 /\ k = sent + m + j
      BY <1>1, <1>2
    <2>2. c \in Q!Cells
      <3>1. k \in Int
        BY <1>1, <1>2
      <3> QED BY <3>1, Waiting
    <2> HIDE DEF j
    <2>3. c = j
      BY <1>3, <2>1
    <2> HIDE DEF c
    <2>4. c < pLength - m /\ sent + 1 + m + c = k + 1
      BY <1>1, <1>2, <2>1, <2>3
    <2>5. fifoBuffer'[c] = k + 1
      BY <1>4, <2>2, <2>4
    <2> QED BY <2>5 DEF c
  <1>9. ASSUME NEW k \in (received .. sent + Written - 1)'
        PROVE  Stored(k)'
    <2>1. Written' = pLength
      BY <1>4 DEF Written
    <2>2. \/ k \in received .. sent + m - 1
          \/ k \in sent + m .. sent + pLength - 1
      BY <1>1, <1>2, <1>4, <2>1
    <2> QED BY <1>7, <1>8, <2>2 DEF Stored
  <1>10. BytesInPlace'
    BY <1>4, <1>9 DEF FifoInv, BytesInPlace, Copied
  <1> QED BY <1>5, <1>6, <1>10 DEF FifoInv

(* end moves over what was copied.                                         *)
LEMMA EnqueueReturnKeepsFifo ==
  ASSUME FifoInv, Q!EnqueueReturn PROVE FifoInv'
  <1>1. /\ sent \in Nat /\ received \in Nat /\ pLength \in Nat
        /\ end = sent % Modulus
    BY DEF FifoInv, FifoTypeOK, WithinBounds
  <1>2. /\ pPc = "publish" /\ pPc' = "idle" /\ pLength' = 0
        /\ sent' = sent + pLength /\ end' = (end + pLength) % Modulus
        /\ UNCHANGED <<fifoBuffer, begin, cPc, cLength, fifoData, received>>
    BY DEF Q!EnqueueReturn
  <1>3. end' = sent' % Modulus
    BY <1>1, <1>2, Wrapped
  <1>4. FifoTypeOK'
    BY <1>1, <1>2 DEF FifoInv, FifoTypeOK
  <1>5. WithinBounds'
    BY <1>1, <1>2, <1>3, FifoConstants DEF FifoInv, FifoTypeOK, WithinBounds
  <1>6. BytesInPlace'
    <2>1. Written = pLength /\ Written' = 0
      BY <1>2 DEF Written
    <2>2. (sent + Written - 1)' = sent + Written - 1
      BY <1>1, <1>2, <2>1
    <2> QED BY <1>2, <2>2 DEF FifoInv, BytesInPlace, Copied, Stored
  <1> QED BY <1>4, <1>5, <1>6 DEF FifoInv

(* The consumer takes what is there.                                       *)
LEMMA DequeueStartKeepsFifo ==
  ASSUME FifoInv, NEW length \in Lengths, Q!DequeueStart(length)
  PROVE  FifoInv'
  <1> USE DEF Q!DequeueStart
  <1>1. /\ Q!Available = sent - received
        /\ sent - received \in 0 .. fifoSize /\ length \in Nat
        /\ fifoSize \in Nat
    BY Room, FifoConstants DEF FifoInv
  <1>2. cLength' \in Nat /\ cLength' <= sent - received
    BY <1>1 DEF Q!Least
  <1>3. FifoTypeOK'
    BY <1>2 DEF FifoInv, FifoTypeOK
  <1>4. WithinBounds'
    BY <1>1, <1>2 DEF FifoInv, FifoTypeOK, WithinBounds
  <1>5. BytesInPlace'
    BY DEF FifoInv, BytesInPlace, Written, Copied, Stored
  <1> QED BY <1>3, <1>4, <1>5 DEF FifoInv

(* The length of a sequence given as a function.                           *)
LEMMA Length ==
  ASSUME NEW n \in Nat, NEW s \in [1 .. n -> Nat]
  PROVE  s \in Seq(Nat) /\ Len(s) = n
  <1>1. s \in Seq(Nat)
    OBVIOUS
  <1>2. Len(s) \in Nat /\ 1 .. Len(s) = 1 .. n
    BY <1>1, LenProperties
  <1> QED BY <1>1, <1>2

(* Two stretches of the stream, one after the other.                       *)
LEMMA Joined ==
  ASSUME NEW x \in Nat, NEW n \in Nat, NEW m \in 0 .. n
  PROVE  [j \in 1 .. m |-> x + j] \o [j \in 1 .. n - m |-> x + m + j] =
           [j \in 1 .. n |-> x + j]
  <1> DEFINE s == [j \in 1 .. m |-> x + j]
             t == [j \in 1 .. n - m |-> x + m + j]
             u == [j \in 1 .. n |-> x + j]
  <1>1. /\ s \in [1 .. m -> Nat] /\ t \in [1 .. n - m -> Nat]
        /\ u \in [1 .. n -> Nat]
    OBVIOUS
  <1>2. /\ \A j \in 1 .. m : s[j] = x + j
        /\ \A j \in 1 .. n - m : t[j] = x + m + j
        /\ \A j \in 1 .. n : u[j] = x + j
    OBVIOUS
  <1> HIDE DEF s, t, u
  <1>3. m \in Nat /\ n - m \in Nat
    OBVIOUS
  <1>4. /\ s \in Seq(Nat) /\ t \in Seq(Nat) /\ u \in Seq(Nat)
        /\ Len(s) = m /\ Len(t) = n - m /\ Len(u) = n
    BY <1>1, <1>3, Length
  <1>5. s \o t \in Seq(Nat) /\ Len(s \o t) = n
    <2>1. s \o t \in Seq(Nat) /\ Len(s \o t) = Len(s) + Len(t)
      BY <1>4, ConcatProperties
    <2> QED BY <1>3, <1>4, <2>1
  <1>6. ASSUME NEW j \in 1 .. n PROVE (s \o t)[j] = u[j]
    <2>1. (s \o t)[j] = IF j <= m THEN s[j] ELSE t[j - m]
      BY <1>3, <1>4, ConcatProperties
    <2>2. CASE j <= m
      BY <1>2, <2>1, <2>2
    <2>3. CASE ~ (j <= m)
      <3>1. j - m \in 1 .. n - m /\ x + m + (j - m) = x + j
        BY <2>3
      <3>2. t[j - m] = x + j
        BY <1>2, <3>1
      <3> QED BY <1>2, <2>1, <2>3, <3>2
    <2> QED BY <2>2, <2>3
  <1>7. s \o t = u
    BY <1>4, <1>5, <1>6, SeqEqual
  <1> QED BY <1>7 DEF s, t, u
(* dequeue copies the next bytes of the stream, up to the end of the       *)
(* buffer, and goes on from its start.                                     *)
LEMMA DequeueCopyFirstKeepsFifo ==
  ASSUME FifoInv, Q!DequeueCopyFirst, NEW m, NEW a,
         m = Q!FirstPart(cLength, begin), a = begin % fifoSize
  PROVE  FifoInv'
  <1>1. /\ sent \in Nat /\ received \in Nat /\ cLength \in Nat
        /\ begin = received % Modulus /\ received + cLength <= sent
    BY DEF FifoInv, FifoTypeOK, WithinBounds
  <1>2. /\ m \in 0 .. cLength
        /\ \A j \in 0 .. m - 1 : (received + j) % fifoSize = a + j
    BY <1>1, TwoParts
  <1>3. /\ cPc = "first" /\ cPc' = "second"
        /\ fifoData' = [j \in 1 .. m |-> fifoBuffer[a + j - 1]]
        /\ UNCHANGED <<fifoBuffer, begin, end, pPc, pLength, cLength, sent,
                       received>>
    BY DEF Q!DequeueCopyFirst, Q!Bytes
  <1>4. FifoTypeOK' /\ WithinBounds'
    BY <1>3 DEF FifoInv, FifoTypeOK, WithinBounds
  <1>5. ASSUME NEW j \in 1 .. m PROVE fifoBuffer[a + j - 1] = received + j
    <2> DEFINE k == received + (j - 1)
               c == k % fifoSize
    <2>1. j - 1 \in 0 .. m - 1 /\ k \in received .. sent - 1
      BY <1>1, <1>2
    <2>2. fifoBuffer[c] = k + 1
      BY <2>1, Waiting DEF Stored
    <2>3. c = a + (j - 1)
      BY <1>2, <2>1
    <2> HIDE DEF c
    <2>4. a + (j - 1) = a + j - 1 /\ k + 1 = received + j
      <3>1. a \in Int
        BY <1>1, FifoConstants, TwoParts
      <3> QED BY <1>1, <2>1, <3>1
    <2> QED BY <2>2, <2>3, <2>4
  <1>6. Copied' = m
    BY <1>3 DEF Copied
  <1>7. fifoData' = [j \in 1 .. m |-> received + j]
    BY <1>3, <1>5
  <1>8. BytesInPlace'
    BY <1>3, <1>6, <1>7 DEF FifoInv, BytesInPlace, Written, Stored
  <1> QED BY <1>4, <1>8 DEF FifoInv

(* memcpy from the beginning of the buffer.                                *)
LEMMA DequeueCopySecondKeepsFifo ==
  ASSUME FifoInv, Q!DequeueCopySecond, NEW m, m = Q!FirstPart(cLength, begin)
  PROVE  FifoInv'
  <1>1. /\ sent \in Nat /\ received \in Nat /\ cLength \in Nat
        /\ begin = received % Modulus /\ received + cLength <= sent
        /\ cLength <= fifoSize
    BY FifoConstants DEF FifoInv, FifoTypeOK, WithinBounds
  <1>2. m \in 0 .. cLength
    BY <1>1, TwoParts
  <1>3. \A j \in 0 .. cLength - m - 1 : (received + m + j) % fifoSize = j
    BY <1>1, TwoParts
  <1>4. /\ cPc = "second" /\ cPc' = "publish"
        /\ fifoData' =
             fifoData \o [j \in 1 .. cLength - m |-> fifoBuffer[0 + j - 1]]
        /\ UNCHANGED <<fifoBuffer, begin, end, pPc, pLength, cLength, sent,
                       received>>
    BY DEF Q!DequeueCopySecond, Q!SecondPart, Q!Bytes
  <1>5. FifoTypeOK' /\ WithinBounds'
    BY <1>4 DEF FifoInv, FifoTypeOK, WithinBounds
  <1>6. ASSUME NEW j \in 1 .. cLength - m
        PROVE  fifoBuffer[0 + j - 1] = received + m + j
    <2> DEFINE k == received + m + (j - 1)
               c == k % fifoSize
    <2>1. j - 1 \in 0 .. cLength - m - 1 /\ k \in received .. sent - 1
      BY <1>1, <1>2
    <2>2. fifoBuffer[c] = k + 1
      BY <2>1, Waiting DEF Stored
    <2>3. c = j - 1
      BY <1>3, <2>1
    <2> HIDE DEF c
    <2>4. 0 + j - 1 = j - 1 /\ k + 1 = received + m + j
      BY <1>1, <1>2, <2>1
    <2> QED BY <2>2, <2>3, <2>4
  <1>7. fifoData = [j \in 1 .. m |-> received + j]
    BY <1>4 DEF FifoInv, BytesInPlace, Copied
  <1>8. fifoData' = [j \in 1 .. cLength |-> received + j]
    <2>1. fifoData' = [j \in 1 .. m |-> received + j]
                        \o [j \in 1 .. cLength - m |-> received + m + j]
      BY <1>4, <1>6, <1>7
    <2> QED BY <1>1, <1>2, <2>1, Joined
  <1>9. Copied' = cLength
    BY <1>4 DEF Copied
  <1>10. BytesInPlace'
    BY <1>4, <1>8, <1>9 DEF FifoInv, BytesInPlace, Written, Stored
  <1> QED BY <1>5, <1>10 DEF FifoInv

(* begin moves over what was copied.                                       *)
LEMMA DequeueReturnKeepsFifo ==
  ASSUME FifoInv, Q!DequeueReturn PROVE FifoInv'
  <1>1. /\ sent \in Nat /\ received \in Nat /\ cLength \in Nat
        /\ begin = received % Modulus /\ Written \in Nat
    BY Waiting DEF FifoInv, FifoTypeOK, WithinBounds
  <1>2. /\ cPc = "publish" /\ cPc' = "idle" /\ cLength' = 0
        /\ received' = received + cLength
        /\ begin' = (begin + cLength) % Modulus
        /\ UNCHANGED <<fifoBuffer, end, pPc, pLength, sent>>
    BY DEF Q!DequeueReturn
  <1>3. begin' = received' % Modulus
    BY <1>1, <1>2, Wrapped
  <1>4. FifoTypeOK'
    BY <1>1, <1>2 DEF FifoInv, FifoTypeOK
  <1>5. WithinBounds'
    BY <1>1, <1>2, <1>3, FifoConstants DEF FifoInv, FifoTypeOK, WithinBounds
  <1>6. BytesInPlace'
    <2>1. Written' = Written
      BY <1>2 DEF Written
    <2>2. (received .. sent + Written - 1)' \subseteq
            received .. sent + Written - 1
      BY <1>1, <1>2, <2>1
    <2> QED BY <1>2, <2>2 DEF FifoInv, BytesInPlace, Stored
  <1> QED BY <1>4, <1>5, <1>6 DEF FifoInv

(* Every step keeps the invariant.                                         *)
LEMMA FifoStep == FifoInv /\ [Q!Next]_(Q!vars) => FifoInv'
  <1> SUFFICES ASSUME FifoInv, [Q!Next]_(Q!vars) PROVE FifoInv'
    OBVIOUS
  <1>1. CASE Q!Next
    BY <1>1, EnqueueStartKeepsFifo, EnqueueCopyFirstKeepsFifo,
       EnqueueCopySecondKeepsFifo, EnqueueReturnKeepsFifo,
       DequeueStartKeepsFifo, DequeueCopyFirstKeepsFifo,
       DequeueCopySecondKeepsFifo, DequeueReturnKeepsFifo
    DEF Q!Next, Q!Producer, Q!Consumer
  <1>2. CASE UNCHANGED Q!vars
    BY <1>2 DEF Q!vars, FifoInv, FifoTypeOK, WithinBounds, BytesInPlace,
                Written, Copied, Stored
  <1> QED BY <1>1, <1>2

(* In every behaviour of Fifo, though the counters wrap around, each of    *)
(* the two calls stays out of the cells the other one is at.               *)
THEOREM FifoRingIsExact == Q!Spec => []RingExact
  <1>1. FifoInv => RingExact
    <2> SUFFICES ASSUME FifoInv PROVE RingExact
      OBVIOUS
    <2>1. Q!CountersTrackStream
      BY Room DEF FifoInv, WithinBounds, Q!CountersTrackStream
    <2>2. /\ sent \in Nat /\ received \in Nat /\ fifoSize \in Nat \ {0}
          /\ pLength \in Nat /\ cLength \in Nat
          /\ begin = received % Modulus /\ end = sent % Modulus
          /\ received + cLength <= sent
          /\ sent + pLength <= received + fifoSize
      BY FifoConstants DEF FifoInv, FifoTypeOK, WithinBounds
    <2>3. ASSUME NEW j \in 0 .. pLength - 1, NEW k \in 0 .. cLength - 1
          PROVE  (end + j) % fifoSize # (begin + k) % fifoSize
      <3>1. /\ (end + j) % fifoSize = (sent + j) % fifoSize
            /\ (begin + k) % fifoSize = (received + k) % fifoSize
        <4>1. sent \in Int /\ received \in Int /\ j \in Int /\ k \in Int
          BY <2>2
        <4>2. /\ ((sent % Modulus) + j) % fifoSize = (sent + j) % fifoSize
              /\ ((received % Modulus) + k) % fifoSize =
                   (received + k) % fifoSize
          BY <4>1, Wrapped
        <4> QED BY <2>2, <4>2
      <3>2. /\ received + k \in Int /\ sent + j \in Int
            /\ received + k < sent + j /\ sent + j < received + k + fifoSize
        BY <2>2
      <3>3. (received + k) % fifoSize # (sent + j) % fifoSize
        BY <2>2, <3>2, Apart
      <3> QED BY <3>1, <3>3
    <2>4. Q!CopiesDisjoint
      BY <2>3 DEF Q!CopiesDisjoint, Q!WriteCells, Q!ReadCells
    <2> QED BY <2>1, <2>4 DEF RingExact, Q!RingExact
  <1> QED BY <1>1, FifoInit, FifoStep, PTL DEF Q!Spec

(* In every behaviour of Fifo, dequeue hands out the bytes of the stream,  *)
(* each once and in order.                                                 *)
THEOREM FifoStreamIsIntact == Q!Spec => []StreamIntact
  <1>1. FifoInv => StreamIntact
    BY DEF FifoInv, BytesInPlace, Copied, StreamIntact, Q!StreamIntact
  <1> QED BY <1>1, FifoInit, FifoStep, PTL DEF Q!Spec
-----------------------------------------------------------------------------
(* SharedPtr *)

SharedTypeOK ==
  /\ allocated \subseteq Blocks
  /\ sharedCount \in [Blocks -> 0 .. COUNT_SIZE - 1]
  /\ weakCount \in [Blocks -> 0 .. COUNT_SIZE - 1]
  /\ deleted \in [Blocks -> Nat]
  /\ ctrlBlock \in [SharedPtrs -> Blocks \cup {nullptr}]
  /\ source \in [SharedPtrs -> SharedPtrs]
  /\ sharedPc \in [SharedPtrs -> S!PC]

\* A SharedPtr that does not exist refers to nothing, one in the middle of a
\* copy or a release to a block, and the source of a copy stays.
PtrsExact ==
  \A p \in SharedPtrs :
    /\ sharedPc[p] = "none" => ctrlBlock[p] = nullptr
    /\ sharedPc[p] \notin {"none", "live"} => ctrlBlock[p] # nullptr
    /\ sharedPc[p] = "copy" => /\ sharedPc[source[p]] = "live"
                               /\ ctrlBlock[source[p]] = ctrlBlock[p]

\* The sharers that sharedCount counts.
Counted(b) == {p \in S!Sharers(b) : sharedPc[p] # "copy"}

\* The object of b is shared, or one SharedPtr is releasing it.
Alive(b) ==
  /\ S!Releasers(b) = {}
  /\ deleted[b] = 0 /\ weakCount[b] = 0
  /\ sharedCount[b] + 1 = Cardinality(Counted(b))

Dying(b, p) ==
  /\ S!Releasers(b) = {p} /\ S!Sharers(b) = {}
  /\ sharedCount[b] = COUNT_SIZE - 1
  /\ weakCount[b] = IF sharedPc[p] = "zeroWeak" THEN COUNT_SIZE - 1 ELSE 0
  /\ deleted[b] = IF sharedPc[p] = "zeroShared" THEN 0 ELSE 1

BlocksExact ==
  \A b \in Blocks :
    IF b \in allocated THEN Alive(b) \/ \E p \in SharedPtrs : Dying(b, p)
    ELSE S!Sharers(b) = {} /\ S!Releasers(b) = {}

SharedInv == SharedTypeOK /\ PtrsExact /\ BlocksExact

(* There are finitely many SharedPtrs, and the counts are wide enough.     *)
LEMMA SharedConstants ==
  /\ IsFiniteSet(SharedPtrs) /\ Cardinality(SharedPtrs) \in Nat
  /\ COUNT_SIZE \in Nat \ {0} /\ COUNT_SIZE > Cardinality(SharedPtrs)
  /\ nullptr \notin Blocks
  <1>1. /\ IsFiniteSet(SharedPtrs) /\ COUNT_SIZE \in Nat
        /\ COUNT_SIZE > Cardinality(SharedPtrs) /\ nullptr \notin Blocks
    BY ComponentsAssumption, SameSizes
    DEF ComponentsAssumption, S!SharedPtrAssumption
  <1> QED BY <1>1, FS_CardinalityType

(* Sets of SharedPtrs and their sizes.                                     *)
LEMMA PtrSets ==
  ASSUME NEW T \in SUBSET SharedPtrs, NEW p \in SharedPtrs
  PROVE  /\ Cardinality(T) \in 0 .. COUNT_SIZE - 1
         /\ Cardinality(T) = 0 <=> T = {}
         /\ Cardinality(T) = 1 => \E q : T = {q}
         /\ Cardinality({p}) = 1
         /\ p \notin T => Cardinality(T \cup {p}) = Cardinality(T) + 1
         /\ p \in T => Cardinality(T \ {p}) = Cardinality(T) - 1
  <1>1. IsFiniteSet(T) /\ Cardinality(T) <= Cardinality(SharedPtrs)
    BY SharedConstants, FS_Subset
  <1>2. Cardinality(T) \in 0 .. COUNT_SIZE - 1
    BY <1>1, SharedConstants, FS_CardinalityType
  <1>3. Cardinality({p}) = 1
    BY FS_Singleton
  <1> QED BY <1>1, <1>2, <1>3, FS_EmptySet, FS_Singleton, FS_AddElement,
             FS_RemoveElement

(* Counting up and down modulo COUNT_SIZE.                                 *)
LEMMA Counting ==
  ASSUME NEW n \in 0 .. COUNT_SIZE - 1
  PROVE  /\ n + 1 < COUNT_SIZE => S!Plus(n, 1) = n + 1
         /\ S!Plus(n, 0 - 1) = IF n = 0 THEN COUNT_SIZE - 1 ELSE n - 1
         /\ S!Plus(n, 1) \in 0 .. COUNT_SIZE - 1
  <1>1. COUNT_SIZE \in Nat \ {0}
    BY SharedConstants
  <1>2. \A k \in 0 .. COUNT_SIZE - 1 : k % COUNT_SIZE = k
    BY <1>1
  <1>3. (0 - 1) % COUNT_SIZE = COUNT_SIZE - 1
    BY <1>1
  <1>4. (n + 1) % COUNT_SIZE \in 0 .. COUNT_SIZE - 1
    BY <1>1
  <1>5. n # 0 => (n + (0 - 1)) % COUNT_SIZE = n - 1
    BY <1>1, <1>2
  <1>6. n + 1 < COUNT_SIZE => (n + 1) % COUNT_SIZE = n + 1
    BY <1>1, <1>2
  <1>7. n = 0 => (n + (0 - 1)) % COUNT_SIZE = COUNT_SIZE - 1
    BY <1>3
  <1> QED BY <1>4, <1>5, <1>6, <1>7 DEF S!Plus

(* Nothing is allocated, and no SharedPtr exists.                          *)
LEMMA SharedInit == S!Init => SharedInv
  <1> SUFFICES ASSUME S!Init PROVE SharedInv
    OBVIOUS
  <1>1. COUNT_SIZE \in Nat \ {0}
    BY SharedConstants
  <1>2. SharedTypeOK
    BY <1>1 DEF SharedTypeOK, S!Init, S!PC
  <1>3. PtrsExact
    BY DEF PtrsExact, S!Init
  <1>4. BlocksExact
    BY DEF BlocksExact, S!Init, S!Sharers, S!Releasers
  <1> QED BY <1>2, <1>3, <1>4 DEF SharedInv

(* A SharedPtr without a block comes or goes.                              *)
LEMMA NullKeepsShared ==
  ASSUME SharedInv, NEW p \in SharedPtrs, S!Null(p) \/ S!DestroyNull(p)
  PROVE  SharedInv'
  <1> USE DEF S!Null, S!DestroyNull, S!Goto, S!blockVars
  <1>1. SharedTypeOK'
    BY DEF SharedInv, SharedTypeOK, S!PC
  <1>2. PtrsExact'
    BY DEF SharedInv, SharedTypeOK, PtrsExact, S!Copied
  <1>3. ASSUME NEW b \in Blocks
        PROVE  /\ S!Sharers(b)' = S!Sharers(b)
               /\ S!Releasers(b)' = S!Releasers(b)
               /\ Counted(b)' = Counted(b)
               /\ \A q \in S!Releasers(b) : sharedPc'[q] = sharedPc[q]
    BY SharedConstants
    DEF SharedInv, SharedTypeOK, PtrsExact, S!Sharers, S!Releasers, Counted
  <1>4. BlocksExact'
    BY <1>3 DEF SharedInv, BlocksExact, Alive, Dying
  <1> QED BY <1>1, <1>2, <1>4 DEF SharedInv

(* A new block has one sharer.                                             *)
LEMMA MakeKeepsShared ==
  ASSUME SharedInv, NEW p \in SharedPtrs, S!Make(p) PROVE SharedInv'
  <1>1. PICK b \in Blocks \ allocated :
          /\ allocated' = allocated \cup {b}
          /\ sharedCount' = [sharedCount EXCEPT ![b] = 0]
          /\ weakCount' = [weakCount EXCEPT ![b] = 0]
          /\ deleted' = [deleted EXCEPT ![b] = 0]
          /\ ctrlBlock' = [ctrlBlock EXCEPT ![p] = b]
          /\ sharedPc[p] = "none"
          /\ sharedPc' = [sharedPc EXCEPT ![p] = "live"]
          /\ source' = source
    BY DEF S!Make, S!Goto
  <1>2. SharedTypeOK'
    BY <1>1, SharedConstants DEF SharedInv, SharedTypeOK, S!PC
  <1>3. PtrsExact'
    BY <1>1, SharedConstants DEF SharedInv, SharedTypeOK, PtrsExact
  <1>4. S!Sharers(b) = {} /\ S!Releasers(b) = {}
    BY <1>1 DEF SharedInv, BlocksExact
  <1>5. ASSUME NEW c \in Blocks \ {b}
        PROVE  /\ S!Sharers(c)' = S!Sharers(c)
               /\ S!Releasers(c)' = S!Releasers(c)
               /\ Counted(c)' = Counted(c)
               /\ \A q \in S!Releasers(c) : sharedPc'[q] = sharedPc[q]
    BY <1>1 DEF SharedInv, SharedTypeOK, PtrsExact, S!Sharers, S!Releasers,
                Counted
  <1>6. Counted(b)' = {p} /\ S!Releasers(b)' = {}
    BY <1>1, <1>4
    DEF SharedInv, SharedTypeOK, S!Sharers, S!Releasers, Counted
  <1>7. Alive(b)'
    <2>1. Cardinality({p}) = 1
      BY PtrSets
    <2> QED BY <1>1, <1>6, <2>1 DEF Alive, SharedInv, SharedTypeOK
  <1>8. BlocksExact'
    BY <1>1, <1>5, <1>7
    DEF SharedInv, SharedTypeOK, BlocksExact, Alive, Dying
  <1> QED BY <1>2, <1>3, <1>8 DEF SharedInv

(* A copy shares the block, and is counted later.                          *)
LEMMA CopyKeepsShared ==
  ASSUME SharedInv, NEW p \in SharedPtrs, NEW rhs \in SharedPtrs,
         S!Copy(p, rhs)
  PROVE  SharedInv'
  <1> USE DEF S!Copy, S!Goto, S!blockVars
  <1>1. SharedTypeOK'
    BY DEF SharedInv, SharedTypeOK, S!PC
  <1>2. PtrsExact'
    <2>1. p # rhs
      OBVIOUS
    <2>2. ASSUME NEW q \in SharedPtrs \ {p}
          PROVE  /\ sharedPc'[q] = sharedPc[q] /\ ctrlBlock'[q] = ctrlBlock[q]
                 /\ source'[q] = source[q]
                 /\ sharedPc[q] = "copy" => source[q] # p
      BY DEF SharedInv, SharedTypeOK, PtrsExact
    <2>3. /\ sharedPc'[p] = IF ctrlBlock[rhs] = nullptr THEN "live" ELSE "copy"
          /\ ctrlBlock'[p] = ctrlBlock[rhs]
          /\ ctrlBlock[rhs] # nullptr => source'[p] = rhs
      BY DEF SharedInv, SharedTypeOK
    <2> QED BY <2>1, <2>2, <2>3 DEF SharedInv, SharedTypeOK, PtrsExact
  <1>3. ASSUME NEW b \in Blocks
        PROVE  /\ S!Releasers(b)' = S!Releasers(b)
               /\ Counted(b)' = Counted(b)
               /\ S!Sharers(b)' = IF b = ctrlBlock[rhs]
                                    THEN S!Sharers(b) \cup {p}
                                    ELSE S!Sharers(b)
               /\ \A q \in S!Releasers(b) : sharedPc'[q] = sharedPc[q]
    BY SharedConstants
    DEF SharedInv, SharedTypeOK, PtrsExact, S!Sharers, S!Releasers, Counted
  <1>4. rhs \in S!Sharers(ctrlBlock[rhs])
    BY DEF S!Sharers
  <1>5. BlocksExact'
    BY <1>3, <1>4 DEF SharedInv, BlocksExact, Alive, Dying
  <1> QED BY <1>1, <1>2, <1>5 DEF SharedInv

(* The copy is counted; there are fewer SharedPtrs than counts.            *)
LEMMA AddSharedKeepsShared ==
  ASSUME SharedInv, NEW p \in SharedPtrs, S!addShared(p),
         NEW b, b = ctrlBlock[p]
  PROVE  SharedInv'
  <1> USE DEF S!addShared, S!Goto
  <1>1. b \in Blocks /\ p \in S!Sharers(b) /\ p \notin Counted(b)
    BY DEF SharedInv, SharedTypeOK, PtrsExact, S!Sharers, Counted
  <1>2. b \in allocated /\ Alive(b)
    BY <1>1 DEF SharedInv, BlocksExact, Dying
  <1>3. /\ S!Plus(sharedCount[b], 1) = sharedCount[b] + 1
        /\ Cardinality(Counted(b) \cup {p}) = sharedCount[b] + 2
        /\ S!Plus(sharedCount[b], 1) \in 0 .. COUNT_SIZE - 1
    <2>1. Counted(b) \in SUBSET SharedPtrs
      BY DEF Counted, S!Sharers
    <2>2. sharedCount[b] \in 0 .. COUNT_SIZE - 1
      BY <1>1 DEF SharedInv, SharedTypeOK
    <2>3. Cardinality(Counted(b)) = sharedCount[b] + 1
      BY <1>2 DEF Alive
    <2>4. Cardinality(Counted(b) \cup {p}) = Cardinality(Counted(b)) + 1
      BY <1>1, <2>1, PtrSets
    <2>5. Cardinality(Counted(b)) \in 0 .. COUNT_SIZE - 1
      BY <2>1, PtrSets
    <2>6. sharedCount[b] + 1 < COUNT_SIZE
      BY <2>2, <2>3, <2>5, SharedConstants
    <2>7. /\ S!Plus(sharedCount[b], 1) = sharedCount[b] + 1
          /\ S!Plus(sharedCount[b], 1) \in 0 .. COUNT_SIZE - 1
      BY <2>2, <2>6, Counting
    <2> QED BY <2>2, <2>3, <2>4, <2>7
  <1>4. SharedTypeOK'
    BY <1>3 DEF SharedInv, SharedTypeOK, S!PC
  <1>5. PtrsExact'
    BY DEF SharedInv, SharedTypeOK, PtrsExact
  <1>6. ASSUME NEW c \in Blocks
        PROVE  /\ S!Releasers(c)' = S!Releasers(c)
               /\ S!Sharers(c)' = S!Sharers(c)
               /\ Counted(c)' = IF c = b THEN Counted(c) \cup {p}
                                         ELSE Counted(c)
               /\ \A q \in S!Releasers(c) : sharedPc'[q] = sharedPc[q]
    <2>1. /\ S!Releasers(c)' = S!Releasers(c) /\ S!Sharers(c)' = S!Sharers(c)
          /\ \A q \in S!Releasers(c) : sharedPc'[q] = sharedPc[q]
      BY DEF SharedInv, SharedTypeOK, S!Sharers, S!Releasers
    <2>2. \A q \in SharedPtrs :
            sharedPc'[q] = "copy" <=> sharedPc[q] = "copy" /\ q # p
      BY DEF SharedInv, SharedTypeOK
    <2>3. p \in S!Sharers(c) <=> c = b
      BY <1>1 DEF S!Sharers
    <2>4. S!Sharers(c) \subseteq SharedPtrs
      BY DEF S!Sharers
    <2>5. Counted(c)' = IF c = b THEN Counted(c) \cup {p} ELSE Counted(c)
      BY <2>1, <2>2, <2>3, <2>4 DEF Counted
    <2> QED BY <2>1, <2>5
  <1>7. Alive(b)'
    <2>1. sharedCount'[b] = sharedCount[b] + 1
      BY <1>1, <1>3 DEF SharedInv, SharedTypeOK
    <2>2. Counted(b)' = Counted(b) \cup {p} /\ S!Releasers(b)' = {}
      BY <1>1, <1>2, <1>6 DEF Alive
    <2>3. sharedCount[b] \in Nat
      BY <1>1, SharedConstants DEF SharedInv, SharedTypeOK
    <2> QED BY <1>2, <1>3, <2>1, <2>2, <2>3 DEF Alive
  <1>8. ASSUME NEW c \in Blocks \ {b}
        PROVE  IF c \in allocated'
                 THEN Alive(c)' \/ \E q \in SharedPtrs : Dying(c, q)'
                 ELSE S!Sharers(c)' = {} /\ S!Releasers(c)' = {}
    BY <1>6 DEF SharedInv, SharedTypeOK, BlocksExact, Alive, Dying
  <1>9. BlocksExact'
    BY <1>2, <1>7, <1>8 DEF BlocksExact
  <1> QED BY <1>4, <1>5, <1>9 DEF SharedInv

(* The new SharedPtr is counted for the old one.                           *)
LEMMA MoveKeepsShared ==
  ASSUME SharedInv, NEW p \in SharedPtrs, NEW rhs \in SharedPtrs,
         S!Move(p, rhs), NEW b, b = ctrlBlock[rhs]
  PROVE  SharedInv'
  <1> USE DEF S!Move, S!Goto, S!blockVars, S!SourceCleared
  <1>1. SharedTypeOK'
    BY DEF SharedInv, SharedTypeOK, S!PC
  <1>2. p # rhs
    OBVIOUS
  <1>3. PtrsExact'
    BY <1>2 DEF SharedInv, SharedTypeOK, PtrsExact, S!Copied
  <1>4. ASSUME NEW c \in Blocks \ {b}
        PROVE  /\ S!Releasers(c)' = S!Releasers(c)
               /\ S!Sharers(c)' = S!Sharers(c)
               /\ Counted(c)' = Counted(c)
               /\ \A q \in S!Releasers(c) : sharedPc'[q] = sharedPc[q]
    BY <1>2, SharedConstants
    DEF SharedInv, SharedTypeOK, PtrsExact, S!Sharers, S!Releasers, Counted
  <1>5. CASE b = nullptr
    BY <1>1, <1>3, <1>4, <1>5, SharedConstants
    DEF SharedInv, BlocksExact, Alive, Dying
  <1>6. CASE b # nullptr
    <2>1. b \in Blocks /\ rhs \in Counted(b) /\ p \notin Counted(b)
      BY <1>6 DEF SharedInv, SharedTypeOK, PtrsExact, Counted, S!Sharers
    <2>2. b \in allocated /\ Alive(b)
      BY <2>1 DEF SharedInv, BlocksExact, Dying, Counted
    <2>3. /\ S!Releasers(b)' = S!Releasers(b)
          /\ Counted(b)' = (Counted(b) \ {rhs}) \cup {p}
      BY <1>2, <1>6
      DEF SharedInv, SharedTypeOK, PtrsExact, S!Sharers, S!Releasers, Counted
    <2>4. Cardinality((Counted(b) \ {rhs}) \cup {p}) = Cardinality(Counted(b))
      <3>1. Counted(b) \in SUBSET SharedPtrs
        BY DEF Counted, S!Sharers
      <3>2. Cardinality(Counted(b) \ {rhs}) = Cardinality(Counted(b)) - 1
        BY <2>1, <3>1, PtrSets
      <3>3. Cardinality((Counted(b) \ {rhs}) \cup {p}) =
              Cardinality(Counted(b) \ {rhs}) + 1
        BY <2>1, <3>1, PtrSets
      <3>4. Cardinality(Counted(b)) \in 0 .. COUNT_SIZE - 1
        BY <3>1, PtrSets
      <3> QED BY <3>2, <3>3, <3>4, SharedConstants
    <2>5. Alive(b)'
      BY <2>2, <2>3, <2>4 DEF Alive
    <2>6. BlocksExact'
      BY <1>4, <2>2, <2>5 DEF SharedInv, BlocksExact, Alive, Dying
    <2> QED BY <1>1, <1>3, <2>6 DEF SharedInv
  <1> QED BY <1>5, <1>6

(* A SharedPtr that is not the source of a copy begins to release.         *)
LEMMA DestroyKeepsShared ==
  ASSUME SharedInv, NEW p \in SharedPtrs, S!Destroy(p) PROVE SharedInv'
  <1> USE DEF S!Destroy, S!Goto, S!blockVars
  <1>1. SharedTypeOK'
    BY DEF SharedInv, SharedTypeOK, S!PC
  <1>2. PtrsExact'
    BY DEF SharedInv, SharedTypeOK, PtrsExact, S!Copied
  <1>3. ASSUME NEW b \in Blocks
        PROVE  /\ S!Releasers(b)' = S!Releasers(b)
               /\ S!Sharers(b)' = S!Sharers(b)
               /\ Counted(b)' = Counted(b)
               /\ \A q \in S!Releasers(b) : sharedPc'[q] = sharedPc[q]
    <2>1. /\ S!Releasers(b)' = S!Releasers(b) /\ S!Sharers(b)' = S!Sharers(b)
          /\ \A q \in S!Releasers(b) : sharedPc'[q] = sharedPc[q]
      BY DEF SharedInv, SharedTypeOK, S!Sharers, S!Releasers
    <2>2. \A q \in SharedPtrs : sharedPc'[q] = "copy" <=> sharedPc[q] = "copy"
      BY DEF SharedInv, SharedTypeOK
    <2>3. S!Sharers(b) \subseteq SharedPtrs
      BY DEF S!Sharers
    <2> QED BY <2>1, <2>2, <2>3 DEF Counted
  <1>4. BlocksExact'
    BY <1>3 DEF SharedInv, BlocksExact, Alive, Dying
  <1> QED BY <1>1, <1>2, <1>4 DEF SharedInv

(* One less shares the block, or the last one is releasing it: a copy in   *)
(* progress has a source that is counted.                                  *)
LEMMA ReleaseSharedKeepsShared ==
  ASSUME SharedInv, NEW p \in SharedPtrs, S!releaseShared(p),
         NEW b, b = ctrlBlock[p]
  PROVE  SharedInv'
  <1> USE DEF S!releaseShared, S!Continue, S!WasLast
  <1>1. b \in Blocks /\ p \in S!Sharers(b) /\ p \in Counted(b)
    BY DEF SharedInv, SharedTypeOK, PtrsExact, S!Sharers, Counted
  <1>2. b \in allocated /\ Alive(b)
    BY <1>1 DEF SharedInv, BlocksExact, Dying
  <1>3. /\ sharedCount[b] \in 0 .. COUNT_SIZE - 1
        /\ sharedCount'[b] = IF sharedCount[b] = 0 THEN COUNT_SIZE - 1
                             ELSE sharedCount[b] - 1
    BY <1>1, Counting DEF SharedInv, SharedTypeOK
  <1>4. SharedTypeOK'
    <2>1. S!Plus(sharedCount[b], 0 - 1) \in 0 .. COUNT_SIZE - 1
      BY <1>3, Counting, SharedConstants
    <2> QED BY <1>1, <2>1 DEF SharedInv, SharedTypeOK, S!PC
  <1>5. PtrsExact'
    BY DEF SharedInv, SharedTypeOK, PtrsExact
  <1>6. ASSUME NEW c \in Blocks \ {b}
        PROVE  IF c \in allocated'
                 THEN Alive(c)' \/ \E q \in SharedPtrs : Dying(c, q)'
                 ELSE S!Sharers(c)' = {} /\ S!Releasers(c)' = {}
    <2>1. /\ S!Releasers(c)' = S!Releasers(c) /\ S!Sharers(c)' = S!Sharers(c)
          /\ \A q \in S!Releasers(c) : sharedPc'[q] = sharedPc[q]
          /\ \A q \in S!Sharers(c) : sharedPc'[q] = sharedPc[q]
      BY <1>1 DEF SharedInv, SharedTypeOK, PtrsExact, S!Sharers, S!Releasers
    <2>2. Counted(c)' = Counted(c)
      BY <2>1 DEF Counted
    <2> QED BY <2>1, <2>2
            DEF SharedInv, SharedTypeOK, BlocksExact, Alive, Dying
  <1>7. CASE sharedCount[b] # 0
    <2>1. /\ S!Releasers(b)' = S!Releasers(b)
          /\ S!Sharers(b)' = S!Sharers(b) \ {p}
          /\ \A q \in S!Sharers(b) \ {p} : sharedPc'[q] = sharedPc[q]
      BY <1>1, <1>7 DEF SharedInv, SharedTypeOK, PtrsExact, S!Sharers,
                        S!Releasers
    <2>2. Counted(b)' = Counted(b) \ {p}
      BY <2>1 DEF Counted
    <2>3. Cardinality(Counted(b) \ {p}) = Cardinality(Counted(b)) - 1
      <3>1. Counted(b) \in SUBSET SharedPtrs
        BY DEF Counted, S!Sharers
      <3> QED BY <1>1, <3>1, PtrSets
    <2>4. Alive(b)'
      BY <1>2, <1>3, <1>7, <2>1, <2>2, <2>3, SharedConstants DEF Alive
    <2>5. BlocksExact'
      BY <1>2, <1>6, <2>4 DEF BlocksExact
    <2> QED BY <1>4, <1>5, <2>5 DEF SharedInv
  <1>8. CASE sharedCount[b] = 0
    <2>1. Counted(b) = {p}
      <3>1. Counted(b) \in SUBSET SharedPtrs /\ Cardinality(Counted(b)) = 1
        BY <1>2, <1>8 DEF Counted, S!Sharers, Alive
      <3>2. \E q : Counted(b) = {q}
        BY <3>1, PtrSets
      <3> QED BY <1>1, <3>2
    <2>2. S!Sharers(b) = {p}
      BY <1>1, <2>1 DEF SharedInv, SharedTypeOK, PtrsExact, Counted, S!Sharers
    <2>3. sharedPc'[p] = "zeroShared" /\ ctrlBlock'[p] = b
      BY <1>8 DEF SharedInv, SharedTypeOK
    <2>4. /\ S!Sharers(b)' = {} /\ S!Releasers(b)' = {p}
      BY <1>2, <2>2, <2>3
      DEF SharedInv, SharedTypeOK, S!Sharers, S!Releasers, Alive
    <2>5. Dying(b, p)'
      BY <1>2, <1>3, <1>8, <2>3, <2>4 DEF Alive, Dying
    <2>6. BlocksExact'
      BY <1>2, <1>6, <2>5 DEF BlocksExact
    <2> QED BY <1>4, <1>5, <2>6 DEF SharedInv
  <1> QED BY <1>7, <1>8

(* The last SharedPtr deletes the object, counts itself out and frees the  *)
(* block; nobody else has it.                                              *)
LEMMA LastKeepsShared ==
  ASSUME SharedInv, NEW p \in SharedPtrs, NEW b, b = ctrlBlock[p],
         S!onZeroShared(p) \/ S!releaseWeak(p) \/ S!onZeroWeak(p)
  PROVE  SharedInv'
  <1> USE DEF S!onZeroShared, S!releaseWeak, S!onZeroWeak, S!Continue, S!Goto
  <1>1. b \in Blocks /\ p \in S!Releasers(b)
    BY DEF SharedInv, SharedTypeOK, PtrsExact, S!Releasers
  <1>2. b \in allocated /\ Dying(b, p)
    BY <1>1 DEF SharedInv, BlocksExact, Alive, Dying
  <1>3. weakCount[b] \in 0 .. COUNT_SIZE - 1 /\ COUNT_SIZE \in Nat \ {0}
    BY <1>1, SharedConstants DEF SharedInv, SharedTypeOK
  <1>4. \A q \in SharedPtrs : ctrlBlock[q] = b <=> q = p
    BY <1>1, <1>2, SharedConstants
    DEF SharedInv, SharedTypeOK, PtrsExact, Dying, S!Sharers, S!Releasers,
        S!PC
  <1>5. S!Sharers(b)' = {}
    BY <1>1, <1>4, SharedConstants DEF SharedInv, SharedTypeOK, S!Sharers
  <1>6. ASSUME NEW c \in Blocks \ {b}
        PROVE  IF c \in allocated'
                 THEN Alive(c)' \/ \E q \in SharedPtrs : Dying(c, q)'
                 ELSE S!Sharers(c)' = {} /\ S!Releasers(c)' = {}
    <2>1. /\ S!Releasers(c)' = S!Releasers(c) /\ S!Sharers(c)' = S!Sharers(c)
          /\ \A q \in S!Releasers(c) : sharedPc'[q] = sharedPc[q]
          /\ \A q \in S!Sharers(c) : sharedPc'[q] = sharedPc[q]
      BY <1>1, SharedConstants
      DEF SharedInv, SharedTypeOK, PtrsExact, S!Sharers, S!Releasers
    <2>2. Counted(c)' = Counted(c)
      BY <2>1 DEF Counted
    <2>3. /\ sharedCount'[c] = sharedCount[c] /\ weakCount'[c] = weakCount[c]
          /\ deleted'[c] = deleted[c] /\ (c \in allocated' <=> c \in allocated)
      BY <1>1 DEF SharedInv, SharedTypeOK
    <2> QED BY <2>1, <2>2, <2>3 DEF SharedInv, BlocksExact, Alive, Dying
  <1>7. CASE S!onZeroShared(p)
    <2>1. SharedTypeOK'
      <3>1. deleted[b] + 1 \in Nat
        BY <1>2 DEF Dying
      <3>2. deleted' \in [Blocks -> Nat]
        BY <1>1, <1>7, <3>1 DEF SharedInv, SharedTypeOK
      <3> QED BY <1>7, <3>2 DEF SharedInv, SharedTypeOK, S!PC
    <2>2. PtrsExact'
      BY <1>7 DEF SharedInv, SharedTypeOK, PtrsExact
    <2>3. S!Releasers(b)' = {p} /\ sharedPc'[p] = "releaseWeak"
      BY <1>4, <1>7 DEF SharedInv, SharedTypeOK, S!Releasers
    <2>4. Dying(b, p)'
      BY <1>1, <1>2, <1>5, <1>7, <2>3 DEF SharedInv, SharedTypeOK, Dying
    <2>5. BlocksExact'
      BY <1>2, <1>6, <1>7, <2>4 DEF BlocksExact
    <2> QED BY <2>1, <2>2, <2>5 DEF SharedInv
  <1>8. CASE S!releaseWeak(p)
    <2>1. weakCount[b] = 0 /\ S!Plus(weakCount[b], 0 - 1) = COUNT_SIZE - 1
      BY <1>2, <1>3, <1>8, Counting DEF Dying
    <2>2. SharedTypeOK'
      <3>1. S!Plus(weakCount[b], 0 - 1) \in 0 .. COUNT_SIZE - 1
        BY <1>3, <2>1
      <3>2. weakCount' \in [Blocks -> 0 .. COUNT_SIZE - 1]
        BY <1>1, <1>8, <3>1 DEF SharedInv, SharedTypeOK
      <3> QED BY <1>8, <3>2 DEF SharedInv, SharedTypeOK, S!PC
    <2>3. PtrsExact'
      BY <1>8 DEF SharedInv, SharedTypeOK, PtrsExact
    <2>4. S!Releasers(b)' = {p} /\ sharedPc'[p] = "zeroWeak"
      BY <1>1, <1>4, <1>8, <2>1 DEF SharedInv, SharedTypeOK, S!Releasers
    <2>5. Dying(b, p)'
      BY <1>1, <1>2, <1>5, <1>8, <2>1, <2>4
      DEF SharedInv, SharedTypeOK, Dying
    <2>6. BlocksExact'
      BY <1>2, <1>6, <1>8, <2>5 DEF BlocksExact
    <2> QED BY <2>2, <2>3, <2>6 DEF SharedInv
  <1>9. CASE S!onZeroWeak(p)
    <2>1. SharedTypeOK'
      BY <1>9 DEF SharedInv, SharedTypeOK, S!PC
    <2>2. PtrsExact'
      BY <1>9 DEF SharedInv, SharedTypeOK, PtrsExact
    <2>3. S!Releasers(b)' = {}
      BY <1>1, <1>4, <1>9, SharedConstants
      DEF SharedInv, SharedTypeOK, S!Releasers
    <2>4. BlocksExact'
      BY <1>5, <1>6, <1>9, <2>3 DEF BlocksExact
    <2> QED BY <2>1, <2>2, <2>4 DEF SharedInv
  <1> QED BY <1>7, <1>8, <1>9

(* Every step keeps the invariant.                                         *)
LEMMA SharedStep == SharedInv /\ [S!Next]_(S!vars) => SharedInv'
  <1> SUFFICES ASSUME SharedInv, [S!Next]_(S!vars) PROVE SharedInv'
    OBVIOUS
  <1>1. CASE S!Next
    BY <1>1, NullKeepsShared, MakeKeepsShared, CopyKeepsShared,
       AddSharedKeepsShared, MoveKeepsShared, DestroyKeepsShared,
       ReleaseSharedKeepsShared, LastKeepsShared DEF S!Next
  <1>2. CASE UNCHANGED S!vars
    <2> USE <1>2 DEF S!vars
    <2>1. SharedTypeOK' /\ PtrsExact'
      BY DEF SharedInv, SharedTypeOK, PtrsExact
    <2>2. \A b : /\ S!Sharers(b)' = S!Sharers(b)
                 /\ S!Releasers(b)' = S!Releasers(b)
      BY DEF S!Sharers, S!Releasers
    <2>3. \A b : Counted(b)' = Counted(b)
      BY <2>2 DEF Counted
    <2>4. BlocksExact'
      BY <2>2, <2>3 DEF SharedInv, BlocksExact, Alive, Dying
    <2> QED BY <2>1, <2>4 DEF SharedInv
  <1> QED BY <1>1, <1>2

(* In every behaviour of SharedPtr, whoever shares an object keeps it, and *)
(* the last SharedPtr deletes it and frees its block, once.                *)
THEOREM SharedPtrIsExact == S!Spec => []SharedExactly
  <1>1. SharedInv => SharedExactly
    <2> SUFFICES ASSUME SharedInv PROVE SharedExactly
      OBVIOUS
    <2>1. ASSUME NEW b \in Blocks
          PROVE  /\ S!Sharers(b) # {} => b \in allocated /\ deleted[b] = 0
                 /\ S!Releasers(b) # {} => b \in allocated
      BY DEF SharedInv, BlocksExact, Alive, Dying
    <2>2. ASSUME NEW b \in allocated
          PROVE  \/ /\ S!Releasers(b) = {} /\ deleted[b] = 0
                    /\ weakCount[b] = 0
                    /\ sharedCount[b] + 1 =
                         S!Cardinality({p \in S!Sharers(b) :
                                           sharedPc[p] # "copy"})
                 \/ \E p \in SharedPtrs :
                      /\ S!Releasers(b) = {p} /\ S!Sharers(b) = {}
                      /\ sharedCount[b] = COUNT_SIZE - 1
                      /\ deleted[b] =
                           IF sharedPc[p] = "zeroShared" THEN 0 ELSE 1
      BY SameSizes DEF SharedInv, SharedTypeOK, BlocksExact, Alive, Dying,
                       Counted
    <2> QED BY <2>1, <2>2 DEF SharedExactly, S!SharedExactly,
                              S!HoldersKeepAlive, S!ReleasedOnce
  <1> QED BY <1>1, SharedInit, SharedStep, PTL DEF S!Spec
-----------------------------------------------------------------------------
(* UniquePtr *)

UniqueTypeOK ==
  /\ first \in [UniquePtrs -> Owned \cup {nullptr, NoPtr}]
  /\ second = [p \in UniquePtrs |-> second[p]]
  /\ raw \subseteq uniqueAllocated /\ uniqueAllocated \subseteq Owned
  /\ deleting \subseteq Owned \X Deleters

\* What a UniquePtr points to is nobody else's, and its own deleter's.
PointersExact ==
  \A p \in UniquePtrs : first[p] \in Owned =>
    /\ first[p] \in uniqueAllocated \ raw
    /\ \A q \in UniquePtrs : first[q] = first[p] => q = p
    /\ second[p] = DeleterOf[first[p]]

\* So is what is being deleted.
DeletersExact ==
  \A o \in Owned, d \in Deleters : <<o, d>> \in deleting =>
    /\ o \in uniqueAllocated \ raw /\ d = DeleterOf[o]
    /\ \A p \in UniquePtrs : first[p] # o

\* No object is forgotten.
NoneForgotten ==
  \A o \in uniqueAllocated :
    \/ o \in raw \/ <<o, DeleterOf[o]>> \in deleting
    \/ \E p \in UniquePtrs : first[p] = o

UniqueInv == UniqueTypeOK /\ PointersExact /\ DeletersExact /\ NoneForgotten

(* The sentinels are no objects.                                           *)
LEMMA UniqueConstants ==
  /\ DeleterOf \in [Owned -> Deleters]
  /\ nullptr \notin Owned /\ NoPtr \notin Owned
  BY ComponentsAssumption DEF ComponentsAssumption, U!UniquePtrAssumption

(* Nothing is allocated.                                                   *)
LEMMA UniqueInit == U!Init => UniqueInv
  BY UniqueConstants
  DEF U!Init, UniqueInv, UniqueTypeOK, PointersExact, DeletersExact,
      NoneForgotten

(* The caller makes an object.                                             *)
LEMMA NewKeepsUnique ==
  ASSUME UniqueInv, NEW o \in Owned, U!New(o) PROVE UniqueInv'
  BY UniqueConstants
  DEF U!New, UniqueInv, UniqueTypeOK, PointersExact, DeletersExact,
      NoneForgotten

(* It is put into a new UniquePtr with its deleter.                        *)
LEMMA ConstructKeepsUnique ==
  ASSUME UniqueInv, NEW p \in UniquePtrs, NEW d \in Deleters,
         NEW x \in Owned \cup {nullptr}, U!Construct(p, d, x)
  PROVE  UniqueInv'
  <1> USE DEF U!Construct, U!Exists, U!Pointers, UniqueInv
  <1>1. UniqueTypeOK'
    BY UniqueConstants DEF UniqueTypeOK
  <1>2. PointersExact'
    BY UniqueConstants DEF UniqueTypeOK, PointersExact
  <1>3. DeletersExact'
    BY UniqueConstants DEF UniqueTypeOK, DeletersExact
  <1>4. NoneForgotten'
    BY UniqueConstants DEF UniqueTypeOK, NoneForgotten
  <1> QED BY <1>1, <1>2, <1>3, <1>4

(* It is handed back to the caller.                                        *)
LEMMA ReleaseKeepsUnique ==
  ASSUME UniqueInv, NEW p \in UniquePtrs, U!release(p) PROVE UniqueInv'
  <1> USE DEF U!release, U!Released, U!Exists, UniqueInv
  <1>1. UniqueTypeOK'
    BY UniqueConstants DEF UniqueTypeOK, PointersExact
  <1>2. PointersExact'
    BY UniqueConstants DEF UniqueTypeOK, PointersExact
  <1>3. DeletersExact'
    BY UniqueConstants DEF UniqueTypeOK, DeletersExact
  <1>4. NoneForgotten'
    BY UniqueConstants DEF UniqueTypeOK, NoneForgotten
  <1> QED BY <1>1, <1>2, <1>3, <1>4

(* Moved to a new UniquePtr.                                               *)
LEMMA MoveKeepsUnique ==
  ASSUME UniqueInv, NEW p \in UniquePtrs, NEW other \in UniquePtrs,
         U!MoveConstruct(p, other)
  PROVE  UniqueInv'
  <1> USE DEF U!MoveConstruct, U!Released, U!Exists, UniqueInv
  <1>1. UniqueTypeOK'
    BY UniqueConstants DEF UniqueTypeOK
  <1>2. PointersExact'
    BY UniqueConstants DEF UniqueTypeOK, PointersExact
  <1>3. DeletersExact'
    BY UniqueConstants DEF UniqueTypeOK, DeletersExact
  <1>4. NoneForgotten'
    BY UniqueConstants DEF UniqueTypeOK, NoneForgotten
  <1> QED BY <1>1, <1>2, <1>3, <1>4

(* Replaced, and handed to the deleter.                                    *)
LEMMA ResetKeepsUnique ==
  ASSUME UniqueInv, NEW p \in UniquePtrs, NEW x \in Owned \cup {nullptr},
         U!reset(p, x)
  PROVE  UniqueInv'
  <1> USE DEF U!reset, U!CallDeleter, U!Pointers, U!Exists, UniqueInv
  <1>1. UniqueTypeOK'
    BY UniqueConstants DEF UniqueTypeOK, PointersExact
  <1>2. PointersExact'
    BY UniqueConstants DEF UniqueTypeOK, PointersExact
  <1>3. DeletersExact'
    BY UniqueConstants DEF UniqueTypeOK, PointersExact, DeletersExact
  <1>4. NoneForgotten'
    BY UniqueConstants DEF UniqueTypeOK, PointersExact, NoneForgotten
  <1> QED BY <1>1, <1>2, <1>3, <1>4

(* The destructor gives the object to its deleter.                         *)
LEMMA DestroyKeepsUnique ==
  ASSUME UniqueInv, NEW p \in UniquePtrs, U!Destroy(p) PROVE UniqueInv'
  <1> USE DEF U!Destroy, U!CallDeleter, U!Exists, UniqueInv
  <1>1. UniqueTypeOK'
    BY UniqueConstants DEF UniqueTypeOK, PointersExact
  <1>2. PointersExact'
    BY UniqueConstants DEF UniqueTypeOK, PointersExact
  <1>3. DeletersExact'
    BY UniqueConstants DEF UniqueTypeOK, PointersExact, DeletersExact
  <1>4. NoneForgotten'
    BY UniqueConstants DEF UniqueTypeOK, PointersExact, NoneForgotten
  <1> QED BY <1>1, <1>2, <1>3, <1>4

(* A deleter has done its work.                                            *)
LEMMA DeleteKeepsUnique ==
  ASSUME UniqueInv, NEW o \in Owned, NEW d \in Deleters, U!Delete(o, d)
  PROVE  UniqueInv'
  <1> USE DEF U!Delete, UniqueInv
  <1>1. UniqueTypeOK'
    BY UniqueConstants DEF UniqueTypeOK, DeletersExact
  <1>2. PointersExact'
    BY UniqueConstants DEF UniqueTypeOK, PointersExact, DeletersExact
  <1>3. DeletersExact'
    BY UniqueConstants DEF UniqueTypeOK, DeletersExact
  <1>4. NoneForgotten'
    BY UniqueConstants DEF UniqueTypeOK, NoneForgotten, DeletersExact
  <1> QED BY <1>1, <1>2, <1>3, <1>4

(* Objects change places, and their deleters with them.                    *)
LEMMA SwapKeepsUnique ==
  ASSUME UniqueInv, NEW p \in UniquePtrs, NEW other \in UniquePtrs,
         U!swap(p, other)
  PROVE  UniqueInv'
  <1> USE DEF U!swap, U!DeletersSwap, U!Exists, UniqueInv
  <1>1. UniqueTypeOK'
    BY UniqueConstants DEF UniqueTypeOK
  <1>2. PointersExact'
    BY UniqueConstants DEF UniqueTypeOK, PointersExact
  <1>3. DeletersExact'
    BY UniqueConstants DEF UniqueTypeOK, DeletersExact
  <1>4. NoneForgotten'
    BY UniqueConstants DEF UniqueTypeOK, NoneForgotten
  <1> QED BY <1>1, <1>2, <1>3, <1>4

(* Every step keeps the invariant.                                         *)
LEMMA UniqueStep == UniqueInv /\ [U!Next]_(U!vars) => UniqueInv'
  <1> SUFFICES ASSUME UniqueInv, [U!Next]_(U!vars) PROVE UniqueInv'
    OBVIOUS
  <1>1. CASE U!Next
    BY <1>1, NewKeepsUnique, ConstructKeepsUnique, ReleaseKeepsUnique,
       MoveKeepsUnique, ResetKeepsUnique, DestroyKeepsUnique,
       DeleteKeepsUnique, SwapKeepsUnique DEF U!Next
  <1>2. CASE UNCHANGED U!vars
    BY <1>2 DEF U!vars, UniqueInv, UniqueTypeOK, PointersExact, DeletersExact,
                NoneForgotten
  <1> QED BY <1>1, <1>2

(* In every behaviour of UniquePtr, whatever the deleters do, an object    *)
(* has one owner, and meets its own deleter, once.                         *)
THEOREM UniquePtrIsExact == U!Spec => []OwnedOnce
  <1>1. UniqueInv => OwnedOnce
    <2> SUFFICES ASSUME UniqueInv PROVE OwnedOnce
      OBVIOUS
    <2>1. \A T : U!Cardinality(T) = Cardinality(T)
      <3>1. \A X : U!IsFiniteSet(X) <=> IsFiniteSet(X)
        BY DEF IsFiniteSet, U!IsFiniteSet
      <3> QED BY <3>1, Zenon DEF Cardinality, U!Cardinality
    <2>2. ASSUME NEW o \in Owned
          PROVE  U!Holders(o) = IF o \in uniqueAllocated THEN 1 ELSE 0
      <3> DEFINE by == {p \in UniquePtrs : first[p] = o}
                 to == {d \in Deleters : <<o, d>> \in deleting}
                 my == raw \cap {o}
      <3>1. U!Holders(o) = Cardinality(by) + Cardinality(to) + Cardinality(my)
        BY <2>1 DEF U!Holders
      <3>2. /\ Cardinality({}) = 0 /\ \A x : Cardinality({x}) = 1
        BY FS_EmptySet, FS_Singleton
      <3>3. CASE o \notin uniqueAllocated
        <4>1. by = {} /\ to = {} /\ my = {}
          BY <3>3 DEF UniqueInv, UniqueTypeOK, PointersExact, DeletersExact
        <4> HIDE DEF by, to, my
        <4> QED BY <3>1, <3>2, <3>3, <4>1
      <3>4. CASE o \in raw
        <4>1. by = {} /\ to = {} /\ my = {o} /\ o \in uniqueAllocated
          BY <3>4 DEF UniqueInv, UniqueTypeOK, PointersExact, DeletersExact
        <4> HIDE DEF by, to, my
        <4> QED BY <3>1, <3>2, <4>1
      <3>5. CASE <<o, DeleterOf[o]>> \in deleting
        <4>1. /\ by = {} /\ to = {DeleterOf[o]} /\ my = {}
              /\ o \in uniqueAllocated
          BY <3>5, UniqueConstants DEF UniqueInv, DeletersExact
        <4> HIDE DEF by, to, my
        <4>2. Cardinality(by) = 0 /\ Cardinality(to) = 1 /\ Cardinality(my) = 0
          BY <3>2, <4>1, Zenon
        <4> QED BY <3>1, <4>1, <4>2
      <3>6. ASSUME NEW p \in UniquePtrs, first[p] = o
            PROVE  U!Holders(o) = 1 /\ o \in uniqueAllocated
        <4>1. by = {p} /\ to = {} /\ my = {} /\ o \in uniqueAllocated
          BY <3>6 DEF UniqueInv, PointersExact, DeletersExact
        <4> HIDE DEF by, to, my
        <4>2. Cardinality(by) = 1 /\ Cardinality(to) = 0 /\ Cardinality(my) = 0
          BY <3>2, <4>1, Zenon
        <4> QED BY <3>1, <4>1, <4>2
      <3> QED BY <3>3, <3>4, <3>5, <3>6 DEF UniqueInv, NoneForgotten
    <2> QED BY <2>2 DEF UniqueInv, PointersExact, DeletersExact, OwnedOnce,
                        U!OwnedOnce
  <1> QED BY <1>1, UniqueInit, UniqueStep, PTL DEF U!Spec
-----------------------------------------------------------------------------
(* Function and OptimizedFunction *)

FunctionTypeOK ==
  /\ kind \in [Places -> {"none", "Function", "OptimizedFunction"}]
  /\ callable \in [Places -> Nat]
  /\ functionBuffer = [p \in Places |-> functionBuffer[p]]
  /\ functionLeaked \subseteq live /\ live \subseteq Functors
  /\ functionBroken \subseteq Places

Callable(p) == callable[p] # 0 /\ p \notin functionBroken

\* The callable of a place deals with the functor it was made for, and finds
\* it where the bits are.
CallablesFit ==
  \A p \in Places :
    /\ kind[p] = "none" => callable[p] = 0 /\ p \notin functionBroken
    /\ Callable(p) => \E f \in Functors :
                        /\ functionBuffer[p] = F!constructed(f, kind[p])
                        /\ callable[p] = sizeOf[f]

\* What is called lives, and nothing else calls it.
CalledApart ==
  \A p \in Places : Callable(p) =>
    /\ F!invoked(p) \in live \ functionLeaked
    /\ \A q \in Places : Callable(q) /\ F!invoked(q) = F!invoked(p) => q = p

\* What lives is called.
NoneLost ==
  \A f \in live \ functionLeaked :
    \E p \in Places : Callable(p) /\ F!invoked(p) = f

FunctionInv == FunctionTypeOK /\ CallablesFit /\ CalledApart /\ NoneLost

(* Every functor has a size.                                               *)
LEMMA FunctionConstants ==
  sizeOf \in [Functors -> Nat \ {0}] /\ NoFunctor \notin Functors
  BY ComponentsAssumption DEF ComponentsAssumption, F!FunctionAssumption

(* A callable finds what was constructed with it.                          *)
LEMMA FunctorFound ==
  ASSUME NEW f \in Functors, NEW k
  PROVE  F!data(F!constructed(f, k), sizeOf[f], k) = f
  BY DEF F!data, F!constructed

(* Nothing can be called.                                                  *)
LEMMA FunctionInit == F!Init => FunctionInv
  BY DEF F!Init, FunctionInv, FunctionTypeOK, CallablesFit, CalledApart,
         NoneLost, Callable

(* A new functor takes the place of the one p held, if any.                *)
LEMMA PutKeepsFunction ==
  ASSUME FunctionInv, NEW p \in Places, NEW f \in Functors,
         NEW k \in {"Function", "OptimizedFunction"},
         F!Construct(p, k, f) \/ (F!Assign(p, f) /\ k = kind[p])
  PROVE  FunctionInv'
  <1>1. /\ f \notin live /\ p \notin functionBroken
        /\ kind' = [kind EXCEPT ![p] = k]
        /\ callable' = [callable EXCEPT ![p] = sizeOf[f]]
        /\ functionBuffer' = [functionBuffer EXCEPT ![p] = F!constructed(f, k)]
        /\ live' = (live \ F!Held(p)) \cup {f}
        /\ UNCHANGED <<functionLeaked, functionBroken>>
    BY DEF F!Construct, F!Assign, F!Optimized, F!Destroyed, F!Held,
           FunctionInv, FunctionTypeOK, CallablesFit
  <1>2. FunctionTypeOK'
    <2>1. \A x \in F!Held(p) : x \notin functionLeaked
      BY DEF FunctionInv, CalledApart, F!Held, Callable
    <2> QED BY <1>1, <2>1, FunctionConstants DEF FunctionInv, FunctionTypeOK
  <1>3. ASSUME NEW q \in Places \ {p}
        PROVE  /\ Callable(q)' <=> Callable(q)
               /\ (F!invoked(q))' = F!invoked(q)
               /\ kind'[q] = kind[q] /\ callable'[q] = callable[q]
               /\ functionBuffer'[q] = functionBuffer[q]
    BY <1>1 DEF FunctionInv, FunctionTypeOK, Callable, F!invoked
  <1>4. /\ kind'[p] = k /\ callable'[p] = sizeOf[f] /\ sizeOf[f] # 0
        /\ functionBuffer'[p] = F!constructed(f, k)
    BY <1>1, FunctionConstants DEF FunctionInv, FunctionTypeOK
  <1>5. Callable(p)' /\ (F!invoked(p))' = f
    BY <1>1, <1>4, FunctorFound DEF Callable, F!invoked
  <1>6. CallablesFit'
    BY <1>1, <1>3, <1>4 DEF FunctionInv, CallablesFit, Callable
  <1>7. CalledApart'
    BY <1>1, <1>3, <1>5
    DEF FunctionInv, CalledApart, F!Held, Callable, FunctionTypeOK
  <1>8. NoneLost'
    BY <1>1, <1>3, <1>5
    DEF FunctionInv, NoneLost, F!Held, Callable, FunctionTypeOK
  <1> QED BY <1>2, <1>6, <1>7, <1>8 DEF FunctionInv

(* A place whose functor is destroyed or left behind calls nothing.        *)
LEMMA DropKeepsFunction ==
  ASSUME FunctionInv, NEW p \in Places,
         F!Default(p) \/ F!Destroy(p)
           \/ \E f \in Functors : F!AssignThrows(p, f)
  PROVE  FunctionInv'
  <1>1. F!Held(p) \subseteq live \ functionLeaked
    BY DEF FunctionInv, CalledApart, F!Held, Callable
  <1>2. F!Default(p) => F!Held(p) = {} /\ p \notin functionBroken
    BY DEF F!Default, FunctionInv, CallablesFit, F!Held
  <1>3. /\ kind' \in [Places -> {"none", "Function", "OptimizedFunction"}]
        /\ callable' \in [Places -> Nat]
        /\ functionBuffer' = [q \in Places |-> functionBuffer'[q]]
        /\ functionLeaked' \subseteq live' /\ live' \subseteq Functors
        /\ functionBroken' \subseteq Places
    BY <1>1, FunctionConstants
    DEF F!Default, F!Destroy, F!AssignThrows, F!Destroyed, FunctionInv,
        FunctionTypeOK
  <1>4. live' \ functionLeaked' = (live \ functionLeaked) \ F!Held(p)
    BY <1>1, <1>2 DEF F!Default, F!Destroy, F!AssignThrows, F!Destroyed
  <1>5. ASSUME NEW q \in Places \ {p}
        PROVE  /\ kind'[q] = kind[q] /\ callable'[q] = callable[q]
               /\ functionBuffer'[q] = functionBuffer[q]
               /\ q \in functionBroken' <=> q \in functionBroken
    BY DEF F!Default, F!Destroy, F!AssignThrows, FunctionInv, FunctionTypeOK
  <1>6. ASSUME NEW q \in Places \ {p}
        PROVE  (Callable(q)' <=> Callable(q)) /\ (F!invoked(q))' = F!invoked(q)
    BY <1>5 DEF Callable, F!invoked
  <1>7. /\ ~ Callable(p)'
        /\ kind'[p] = "none" => callable'[p] = 0 /\ p \notin functionBroken'
    BY DEF F!Default, F!Destroy, F!AssignThrows, F!Optimized, FunctionInv,
           FunctionTypeOK, CallablesFit, Callable
  <1>8. CallablesFit'
    BY <1>5, <1>6, <1>7 DEF FunctionInv, CallablesFit
  <1>9. CalledApart'
    BY <1>4, <1>6, <1>7 DEF FunctionInv, CalledApart, F!Held, Callable
  <1>10. NoneLost'
    BY <1>4, <1>6, <1>7 DEF FunctionInv, NoneLost, F!Held, Callable
  <1> QED BY <1>3, <1>8, <1>9, <1>10 DEF FunctionInv, FunctionTypeOK

(* The functor of other goes to p, and what p held is left behind.         *)
LEMMA MoveKeepsFunction ==
  ASSUME FunctionInv, NEW p \in Places, NEW other \in Places,
         F!MoveConstruct(p, other) \/ F!MoveAssign(p, other)
  PROVE  FunctionInv'
  <1>1. /\ p # other /\ p \notin functionBroken
        /\ kind[other] = "OptimizedFunction" /\ other \notin functionBroken
        /\ kind' = [kind EXCEPT ![p] = "OptimizedFunction"]
        /\ callable' = [callable EXCEPT ![p] = callable[other], ![other] = 0]
        /\ functionBuffer' =
             [functionBuffer EXCEPT ![p] = functionBuffer[other]]
        /\ live' = live /\ functionLeaked' = functionLeaked \cup F!Held(p)
        /\ functionBroken' = functionBroken
    BY DEF F!MoveConstruct, F!MoveAssign, F!Optimized, F!TakenCallable,
           F!Held, FunctionInv, FunctionTypeOK, CallablesFit
  <1>2. F!Held(p) \subseteq live \ functionLeaked
    BY DEF FunctionInv, CalledApart, F!Held, Callable
  <1>3. FunctionTypeOK'
    BY <1>1, <1>2 DEF FunctionInv, FunctionTypeOK
  <1>4. ASSUME NEW q \in Places \ {p, other}
        PROVE  /\ (Callable(q)' <=> Callable(q))
               /\ (F!invoked(q))' = F!invoked(q)
               /\ kind'[q] = kind[q] /\ callable'[q] = callable[q]
               /\ functionBuffer'[q] = functionBuffer[q]
    BY <1>1 DEF FunctionInv, FunctionTypeOK, Callable, F!invoked
  <1>5. /\ ~ Callable(other)' /\ kind'[other] = kind[other]
        /\ other \notin functionBroken'
    BY <1>1 DEF FunctionInv, FunctionTypeOK, Callable
  <1>6. /\ kind'[p] = kind[other] /\ callable'[p] = callable[other]
        /\ functionBuffer'[p] = functionBuffer[other]
        /\ Callable(p)' <=> Callable(other)
        /\ (F!invoked(p))' = F!invoked(other)
    BY <1>1 DEF FunctionInv, FunctionTypeOK, Callable, F!invoked
  <1>7. /\ p # other /\ kind[other] = "OptimizedFunction"
        /\ functionBroken' = functionBroken
        /\ F!Held(p) = IF Callable(p) THEN {F!invoked(p)} ELSE {}
        /\ live' \ functionLeaked' = (live \ functionLeaked) \ F!Held(p)
    BY <1>1, <1>2 DEF F!Held, Callable
  <1>8. CallablesFit'
    BY <1>4, <1>5, <1>6, <1>7 DEF FunctionInv, CallablesFit
  <1>9. CalledApart'
    BY <1>4, <1>5, <1>6, <1>7 DEF FunctionInv, CalledApart
  <1>10. NoneLost'
    BY <1>4, <1>5, <1>6, <1>7 DEF FunctionInv, NoneLost
  <1> QED BY <1>3, <1>8, <1>9, <1>10 DEF FunctionInv

(* Every step keeps the invariant.                                         *)
LEMMA FunctionStep == FunctionInv /\ [F!Next]_(F!vars) => FunctionInv'
  <1> SUFFICES ASSUME FunctionInv, [F!Next]_(F!vars) PROVE FunctionInv'
    OBVIOUS
  <1>1. CASE F!Next
    <2>1. \A p \in Places : F!Optimized(p) => kind[p] = "OptimizedFunction"
      BY DEF F!Optimized
    <2> QED BY <1>1, <2>1, PutKeepsFunction, DropKeepsFunction,
               MoveKeepsFunction DEF F!Next, F!Assign
  <1>2. CASE UNCHANGED F!vars
    BY <1>2 DEF F!vars, FunctionInv, FunctionTypeOK, CallablesFit,
                CalledApart, NoneLost, Callable, F!invoked
  <1> QED BY <1>1, <1>2

(* In every behaviour of Function and OptimizedFunction, what can be       *)
(* called is alive and held once, and what lives is held or was left.      *)
THEOREM FunctionIsExact == F!Spec => []FunctorsHeldOnce
  <1>1. FunctionInv => FunctorsHeldOnce
    <2> SUFFICES ASSUME FunctionInv PROVE FunctorsHeldOnce
      OBVIOUS
    <2>1. \A T : F!Cardinality(T) = Cardinality(T)
      <3>1. \A X : F!IsFiniteSet(X) <=> IsFiniteSet(X)
        BY DEF IsFiniteSet, F!IsFiniteSet
      <3> QED BY <3>1, Zenon DEF Cardinality, F!Cardinality
    <2>2. ASSUME NEW f \in live \ functionLeaked
          PROVE  F!Cardinality({p \in Places : f \in F!Held(p)}) = 1
      <3>1. PICK p \in Places : Callable(p) /\ F!invoked(p) = f
        BY DEF FunctionInv, NoneLost
      <3>2. {q \in Places : f \in F!Held(q)} = {p}
        BY <3>1 DEF FunctionInv, CalledApart, F!Held, Callable
      <3> QED BY <2>1, <3>2, FS_Singleton
    <2>3. \A p \in Places : callable[p] # 0 /\ p \notin functionBroken =>
            F!invoked(p) \in live \ functionLeaked
      BY DEF FunctionInv, CalledApart, Callable
    <2> QED BY <2>2, <2>3 DEF FunctionInv, FunctionTypeOK, FunctorsHeldOnce,
                              F!FunctorsHeldOnce
  <1> QED BY <1>1, FunctionInit, FunctionStep, PTL DEF F!Spec
-----------------------------------------------------------------------------
(* Variant *)

(* Every set of numbers has a least one.                                   *)
LEMMA Least ==
  ASSUME NEW T, T \subseteq Nat, T # {}
  PROVE  \E x \in T : \A y \in T : x =< y
  <1> DEFINE R == {ss \in Nat \X Nat : ss[1] < ss[2]}
  <1>1. IsWellFoundedOn(R, Nat)
    BY NatLessThanWellFounded DEF OpToRel
  <1>2. \A x, y \in Nat : <<y, x>> \notin R => x =< y
    OBVIOUS
  <1> HIDE DEF R
  <1>3. \E x \in T : \A y \in T : <<y, x>> \notin R
    BY <1>1, WFMin
  <1> QED  BY <1>2, <1>3

(* The first place of a type that is there has that type.                  *)
LEMMA VariantIndex ==
  ASSUME NEW t, NEW ts, ts \in Seq(A!ToSet(ts)), t \in A!ToSet(ts)
  PROVE  A!SelectInSeq(ts, LAMBDA u : u = t) \in
           {j \in 1 .. Len(ts) : ts[j] = t}
  <1>1. { j \in 1 .. Len(ts) : ts[j] = t } \in (SUBSET Nat) \ {{}}
    BY LenProperties DEF A!ToSet
  <1>2. PICK x \in { j \in 1 .. Len(ts) : ts[j] = t } :
           \A y \in { j \in 1 .. Len(ts) : ts[j] = t } : x =< y
    BY <1>1, Least
  <1> QED  BY <1>1, <1>2 DEF A!SelectInSeq, A!Min

Cells == [index_ : 0 .. A!None, data_ : A!Objects \cup {NoObject}]

VariantTypeOK ==
  /\ variant \in [Variants -> Cells \cup {NoVariant}]
  /\ variantBroken \subseteq Variants

BrokenInPlace == \A v \in variantBroken : ~A!Vacant(v)

UsableSound == \A v \in Variants : A!Exists(v) => A!Sound(variant[v])

BrokenUnsound == \A v \in variantBroken : ~A!Sound(variant[v])

VariantInv == VariantTypeOK /\ BrokenInPlace /\ UsableSound /\ BrokenUnsound

AllHeld == [v \in Variants |-> A!Held(v)]

(* The sentinels are none of the values they stand beside.                 *)
LEMMA VariantConstants ==
  /\ Variants # {} /\ Ts # <<>> /\ Ts \in Seq(A!ToSet(Ts))
  /\ {NoVariant, Unusable, NoObject} \cap A!Objects = {}
  /\ NoVariant # Unusable /\ NoObject \notin {NoVariant, Unusable}
  /\ NoVariant \notin Cells
  /\ A!None \in Nat
  <1> QED
    BY ComponentsAssumption, LenProperties
    DEF ComponentsAssumption, A!VariantAssumption, A!None, Cells, A!Objects

(* IndexOfTypeV names the type.                                            *)
LEMMA IndexOfType ==
  ASSUME NEW t \in A!ToSet(Ts)
  PROVE  /\ A!IndexOf(t) \in 0 .. A!None - 1
         /\ Ts[A!IndexOf(t) + 1] = t
  <1>1. A!SelectInSeq(Ts, LAMBDA u : u = t) \in
          {j \in 1 .. Len(Ts) : Ts[j] = t}
    BY VariantConstants, VariantIndex
  <1>2. Len(Ts) \in Nat
    BY VariantConstants, LenProperties
  <1> QED  BY <1>1, <1>2 DEF A!IndexOf, A!None

(* construct makes a cell that holds its argument.                         *)
LEMMA Constructed ==
  ASSUME NEW x \in A!Objects
  PROVE  /\ A!construct(x) \in Cells
         /\ A!Sound(A!construct(x))
         /\ A!construct(x).data_ = x
  <1>1. x.type \in A!ToSet(Ts)
    BY DEF A!Objects
  <1>2. /\ A!IndexOf(x.type) \in 0 .. A!None - 1
        /\ Ts[A!IndexOf(x.type) + 1] = x.type
    BY <1>1, IndexOfType
  <1> QED
    BY <1>2, VariantConstants DEF A!construct, Cells, A!Sound

(* So is an empty one sound.                                               *)
LEMMA EmptySound ==
  A!Empty \in Cells /\ A!Sound(A!Empty) /\ A!Empty.data_ = NoObject
  <1> QED  BY VariantConstants DEF A!Empty, Cells, A!Sound

(* A copy holds what its source does, and after reset there is nothing.    *)
LEMMA Recreated ==
  ASSUME NEW c \in Cells, A!Sound(c)
  PROVE  /\ A!constructFrom(c) \in Cells /\ A!Sound(A!constructFrom(c))
         /\ A!constructFrom(c).data_ = c.data_
         /\ A!reset(c) \in Cells /\ A!Sound(A!reset(c))
         /\ A!reset(c).data_ = NoObject
  <1>1. CASE c.index_ = A!None
    BY <1>1, EmptySound DEF A!constructFrom, A!reset, A!Sound
  <1>2. CASE c.index_ # A!None
    <2>1. /\ c.data_ \in A!Objects
          /\ [type |-> Ts[c.index_ + 1], value |-> c.data_.value] = c.data_
      BY <1>2 DEF A!Sound, Cells, A!Objects
    <2> QED
      BY <1>2, <2>1, Constructed, EmptySound DEF A!constructFrom, A!reset
  <1> QED  BY <1>1, <1>2

(* What VariantSpec sees of each place.                                    *)
LEMMA Mapped ==
  ASSUME VariantInv, NEW v \in Variants
  PROVE  /\ A!Vacant(v) => AllHeld[v] = NoVariant
         /\ v \in variantBroken => AllHeld[v] = Unusable
         /\ A!Exists(v) => /\ AllHeld[v] = variant[v].data_
                           /\ variant[v] \in Cells /\ A!Sound(variant[v])
                           /\ variant[v].data_ \in A!Objects \cup {NoObject}
         /\ A!Abstract!Vacant(v) <=> A!Vacant(v)
         /\ A!Abstract!Exists(v) <=> A!Exists(v)
  <1>1. AllHeld[v] = A!Held(v)
    BY DEF AllHeld
  <1>2. A!Exists(v) => /\ variant[v] \in Cells /\ A!Sound(variant[v])
                       /\ variant[v].data_ \in A!Objects \cup {NoObject}
    BY DEF VariantInv, VariantTypeOK, UsableSound, A!Exists, Cells
  <1>3. /\ A!Vacant(v) => AllHeld[v] = NoVariant
        /\ v \in variantBroken => AllHeld[v] = Unusable
        /\ A!Exists(v) => AllHeld[v] = variant[v].data_
    BY <1>1, <1>2
    DEF A!Held, A!Exists, A!Vacant, VariantInv, BrokenInPlace, BrokenUnsound
  <1>4. /\ A!Abstract!Vacant(v) <=> AllHeld[v] = NoVariant
        /\ A!Abstract!Exists(v) <=> AllHeld[v] \notin {NoVariant, Unusable}
    BY DEF A!Abstract!Vacant, A!Abstract!Exists, AllHeld
  <1>5. A!Vacant(v) \/ v \in variantBroken \/ A!Exists(v)
    BY DEF A!Exists, A!Vacant
  <1>6. A!Vacant(v) => ~A!Exists(v) /\ v \notin variantBroken
    BY DEF A!Exists, A!Vacant, VariantInv, BrokenInPlace
  <1>7. v \in variantBroken => ~A!Exists(v)
    BY DEF A!Exists
  <1>8. A!Exists(v) => variant[v].data_ \notin {NoVariant, Unusable}
    BY <1>2, VariantConstants
  <1>9. A!Abstract!Vacant(v) <=> A!Vacant(v)
    BY <1>3, <1>4, <1>5, <1>8, VariantConstants
  <1>10. A!Abstract!Exists(v) <=> A!Exists(v)
    BY <1>3, <1>4, <1>5, <1>6, <1>7, <1>8, VariantConstants
  <1> QED
    BY <1>2, <1>3, <1>9, <1>10

\* All the places after a step in which v becomes x, and then w becomes y.
Two(all, v, x, w, y) ==
  [u \in Variants |-> IF u = w THEN y ELSE IF u = v THEN x ELSE all[u]]

(* One assignment, or two, to places.                                      *)
LEMMA TwoAre ==
  ASSUME NEW all, all = [u \in Variants |-> all[u]],
         NEW v \in Variants, NEW w \in Variants, NEW x, NEW y
  PROVE  /\ [all EXCEPT ![v] = x, ![w] = y] = Two(all, v, x, w, y)
         /\ [all EXCEPT ![v] = x] = Two(all, v, x, v, x)
  <1> QED  BY DEF Two

\* A step that puts an empty or an object-holding Variant in some places.
LEMMA Becomes ==
  ASSUME VariantInv, NEW v \in Variants, NEW w \in Variants,
         v \notin variantBroken, w \notin variantBroken,
         NEW c \in Cells, A!Sound(c), NEW d \in Cells, A!Sound(d),
         variant' = Two(variant, v, c, w, d),
         variantBroken' = variantBroken
  PROVE  /\ VariantInv'
         /\ AllHeld' = Two(AllHeld, v, c.data_, w, d.data_)
  <1>1. NoVariant \notin Cells
    BY VariantConstants
  <1>2. \A u \in Variants : variant'[u] = IF u = w THEN d
                                          ELSE IF u = v THEN c ELSE variant[u]
    BY DEF Two
  <1>3. VariantTypeOK'
    BY <1>1 DEF VariantInv, VariantTypeOK, Two
  <1>4. BrokenInPlace'
    <2> SUFFICES ASSUME NEW u \in variantBroken PROVE ~A!Vacant(u)'
      BY DEF BrokenInPlace
    <2>1. u \notin {v, w} /\ u \in Variants
      BY DEF VariantInv, VariantTypeOK
    <2> QED  BY <2>1, <1>2 DEF VariantInv, BrokenInPlace, A!Vacant
  <1>5. \A u \in Variants : A!Exists(u)' => A!Sound(variant'[u])
    <2> SUFFICES ASSUME NEW u \in Variants, A!Exists(u)'
                 PROVE  A!Sound(variant'[u])
      OBVIOUS
    <2>1. CASE u \in {v, w}
      BY <2>1, <1>2
    <2>2. CASE u \notin {v, w}
      <3>1. variant'[u] = variant[u] /\ A!Exists(u)
        BY <2>2, <1>2 DEF A!Exists
      <3> QED  BY <3>1 DEF VariantInv, UsableSound
    <2> QED  BY <2>1, <2>2
  <1>6. UsableSound'
    BY <1>5 DEF UsableSound, A!Sound
  <1>7. BrokenUnsound'
    <2> SUFFICES ASSUME NEW u \in variantBroken PROVE ~A!Sound(variant[u])'
      BY DEF BrokenUnsound
    <2>1. u \notin {v, w} /\ u \in Variants
      BY DEF VariantInv, VariantTypeOK
    <2> QED  BY <2>1, <1>2 DEF VariantInv, BrokenUnsound, A!Sound, A!None
  <1>8. \A u \in Variants : A!Held(u)' = IF u = w THEN d.data_
                              ELSE IF u = v THEN c.data_ ELSE A!Held(u)
    <2> SUFFICES ASSUME NEW u \in Variants
                 PROVE  A!Held(u)' = IF u = w THEN d.data_
                              ELSE IF u = v THEN c.data_ ELSE A!Held(u)
      OBVIOUS
    <2>1. CASE u \in {v, w}
      <3>1. variant'[u] \in Cells /\ A!Sound(variant'[u])
        BY <2>1, <1>2
      <3>2. ~A!Vacant(u)' /\ u \notin variantBroken'
        BY <2>1, <1>1, <3>1 DEF A!Vacant
      <3>3. A!Held(u)' = variant'[u].data_
        BY <3>1, <3>2 DEF A!Held, A!Sound
      <3> QED  BY <2>1, <1>2, <3>3
    <2>2. CASE u \notin {v, w}
      <3>1. variant'[u] = variant[u]
        BY <2>2, <1>2
      <3>2. A!Vacant(u)' <=> A!Vacant(u)
        BY <3>1 DEF A!Vacant
      <3>3. A!Sound(variant[u])' <=> A!Sound(variant[u])
        BY <3>1 DEF A!Sound, A!None
      <3> QED  BY <2>2, <3>1, <3>2, <3>3 DEF A!Held
    <2> QED  BY <2>1, <2>2
  <1>9. AllHeld' = [u \in Variants |-> A!Held(u)']
    BY DEF AllHeld
  <1>10. AllHeld' = Two(AllHeld, v, c.data_, w, d.data_)
    BY <1>8, <1>9 DEF AllHeld, Two
  <1> QED  BY <1>3, <1>4, <1>6, <1>10, <1>7 DEF VariantInv

(* A step of another component changes nothing.                            *)
LEMMA Stays ==
  ASSUME VariantInv, UNCHANGED <<variant, variantBroken>>
  PROVE  VariantInv' /\ AllHeld' = AllHeld
  <1>1. \A v \in Variants : /\ A!Vacant(v)' <=> A!Vacant(v)
                            /\ A!Exists(v)' <=> A!Exists(v)
                            /\ A!Sound(variant[v])' <=> A!Sound(variant[v])
    BY DEF A!Vacant, A!Exists, A!Sound, A!None
  <1>2. \A v \in Variants : A!Held(v)' = A!Held(v)
    BY <1>1 DEF A!Held
  <1>3. AllHeld' = AllHeld
    BY <1>2 DEF AllHeld
  <1>4. BrokenInPlace' /\ UsableSound' /\ VariantTypeOK'
    BY <1>1 DEF VariantInv, BrokenInPlace, UsableSound, VariantTypeOK,
                Cells, A!None, A!Objects
  <1>5. BrokenUnsound'
    BY <1>1 DEF VariantInv, BrokenUnsound, VariantTypeOK
  <1> QED  BY <1>3, <1>4, <1>5 DEF VariantInv

(* There is no Variant yet.                                                *)
LEMMA VariantInit == A!Init => VariantInv /\ A!Abstract!Init
  <1> SUFFICES ASSUME A!Init PROVE VariantInv /\ A!Abstract!Init
    OBVIOUS
  <1>1. \A v \in Variants : variant[v] = NoVariant
    BY DEF A!Init
  <1>2. VariantInv
    BY <1>1 DEF A!Init, VariantInv, VariantTypeOK, BrokenInPlace, UsableSound,
                BrokenUnsound, A!Exists, A!Vacant
  <1>3. \A v \in Variants : A!Held(v) = NoVariant
    BY <1>1 DEF A!Held, A!Vacant
  <1> QED  BY <1>2, <1>3 DEF A!Abstract!Init

(* The same for one place.                                                 *)
LEMMA BecomesOne ==
  ASSUME VariantInv, NEW v \in Variants \ variantBroken,
         NEW c \in Cells, A!Sound(c), A!Set(v, c)
  PROVE  VariantInv' /\ AllHeld' = [AllHeld EXCEPT ![v] = c.data_]
  <1>1. /\ variantBroken' = variantBroken
        /\ variant' = Two(variant, v, c, v, c)
    BY TwoAre DEF A!Set, VariantInv, VariantTypeOK
  <1>2. VariantInv' /\ AllHeld' = Two(AllHeld, v, c.data_, v, c.data_)
    BY <1>1, Becomes
  <1> QED  BY <1>2, TwoAre DEF AllHeld

(* Each operation does what that of VariantSpec says.                      *)
LEMMA DefaultMaps ==
  ASSUME VariantInv, NEW v \in Variants, A!Default(v)
  PROVE  VariantInv' /\ A!Abstract!Construct(v, NoObject)
  <1>1. A!Vacant(v) /\ v \notin variantBroken /\ A!Set(v, A!Empty)
    BY DEF A!Default, VariantInv, BrokenInPlace
  <1>2. VariantInv' /\ AllHeld' = [AllHeld EXCEPT ![v] = NoObject]
    BY <1>1, BecomesOne, EmptySound
  <1> QED  BY <1>1, <1>2, Mapped DEF A!Abstract!Construct, AllHeld

(* The constructor from an object.                                         *)
LEMMA FromValueMaps ==
  ASSUME VariantInv, NEW v \in Variants, NEW x \in A!Objects,
         A!FromValue(v, x)
  PROVE  VariantInv' /\ A!Abstract!Construct(v, x)
  <1>1. A!Vacant(v) /\ v \notin variantBroken /\ A!Set(v, A!construct(x))
    BY DEF A!FromValue, VariantInv, BrokenInPlace
  <1>2. VariantInv' /\ AllHeld' = [AllHeld EXCEPT ![v] = x]
    BY <1>1, BecomesOne, Constructed
  <1> QED  BY <1>1, <1>2, Mapped DEF A!Abstract!Construct, AllHeld

(* emplace destroys what was held.                                         *)
LEMMA EmplaceMaps ==
  ASSUME VariantInv, NEW v \in Variants, NEW x \in A!Objects,
         A!Emplace(v, x)
  PROVE  VariantInv' /\ A!Abstract!Become(v, x)
  <1>1. A!Exists(v) /\ v \notin variantBroken /\ A!Set(v, A!construct(x))
    BY DEF A!Emplace, A!Exists
  <1>2. VariantInv' /\ AllHeld' = [AllHeld EXCEPT ![v] = x]
    BY <1>1, BecomesOne, Constructed
  <1> QED  BY <1>1, <1>2, Mapped DEF A!Abstract!Become, AllHeld

(* reset, and an emplace that throws.                                      *)
LEMMA ResetMaps ==
  ASSUME VariantInv, NEW v \in Variants, A!Reset(v)
  PROVE  VariantInv' /\ A!Abstract!Become(v, NoObject)
  <1>1. A!Exists(v) /\ v \notin variantBroken /\ A!Set(v, A!reset(variant[v]))
    BY DEF A!Reset, A!Exists
  <1>2. variant[v] \in Cells /\ A!Sound(variant[v])
    BY <1>1, Mapped
  <1>3. VariantInv' /\ AllHeld' = [AllHeld EXCEPT ![v] = NoObject]
    BY <1>1, <1>2, BecomesOne, Recreated
  <1> QED  BY <1>1, <1>3, Mapped DEF A!Abstract!Become, AllHeld

(* A visitor changes the object and not its type.                          *)
LEMMA VisitMaps ==
  ASSUME VariantInv, NEW v \in Variants, NEW y \in Values, A!Visit(v, y)
  PROVE  \E x \in A!Objects : VariantInv' /\ A!Abstract!Become(v, x)
  <1> DEFINE c == [variant[v] EXCEPT !.data_.value = y]
  <1>1. /\ A!Exists(v) /\ v \notin variantBroken /\ A!Set(v, c)
        /\ variant[v].index_ # A!None
    BY DEF A!Visit, A!Exists
  <1>2. variant[v] \in Cells /\ A!Sound(variant[v])
    BY <1>1, Mapped
  <1>3. variant[v].data_ \in A!Objects
    BY <1>1, <1>2 DEF A!Sound, Cells
  <1>4. c.data_ \in A!Objects /\ c.data_.type = variant[v].data_.type
    BY <1>2, <1>3 DEF A!Objects, Cells
  <1>5. c \in Cells /\ c.index_ = variant[v].index_
    BY <1>2, <1>4 DEF Cells
  <1>6. A!Sound(c)
    BY <1>1, <1>2, <1>4, <1>5, VariantConstants DEF A!Sound
  <1> HIDE DEF c
  <1>7. VariantInv' /\ AllHeld' = [AllHeld EXCEPT ![v] = c.data_]
    BY <1>1, <1>5, <1>6, BecomesOne
  <1>8. A!Abstract!Become(v, c.data_)
    BY <1>1, <1>7, Mapped DEF A!Abstract!Become, AllHeld
  <1> QED  BY <1>4, <1>7, <1>8

(* The copy constructor leaves other alone.                                *)
LEMMA FromCopyMaps ==
  ASSUME VariantInv, NEW v \in Variants, NEW w \in Variants,
         A!FromCopy(v, w)
  PROVE  VariantInv' /\ A!Abstract!CopyFrom(v, w)
  <1> DEFINE c == A!constructFrom(variant[w])
  <1>1. A!Vacant(v) /\ v \notin variantBroken /\ A!Exists(w) /\ A!Set(v, c)
    BY DEF A!FromCopy, VariantInv, BrokenInPlace
  <1>2. c \in Cells /\ A!Sound(c) /\ c.data_ = AllHeld[w]
    BY <1>1, Mapped, Recreated
  <1> HIDE DEF c
  <1>3. VariantInv' /\ AllHeld' = [AllHeld EXCEPT ![v] = AllHeld[w]]
    BY <1>1, <1>2, BecomesOne
  <1> QED
    BY <1>1, <1>3, Mapped
       DEF A!Abstract!CopyFrom, A!Abstract!Construct, AllHeld

(* The move constructor empties other.                                     *)
LEMMA FromMoveMaps ==
  ASSUME VariantInv, NEW v \in Variants, NEW w \in Variants,
         A!FromMove(v, w)
  PROVE  VariantInv' /\ A!Abstract!MoveFrom(v, w)
  <1> DEFINE c == A!constructFrom(variant[w])
             d == A!reset(variant[w])
  <1>1. /\ A!Vacant(v) /\ v \notin variantBroken
        /\ A!Exists(w) /\ w \notin variantBroken /\ v # w
    BY DEF A!FromMove, VariantInv, BrokenInPlace, A!Exists, A!Vacant
  <1>2. variant' = Two(variant, v, c, w, d)
    BY <1>1 DEF A!FromMove, Two, VariantInv, VariantTypeOK
  <1>3. /\ c \in Cells /\ A!Sound(c) /\ c.data_ = AllHeld[w]
        /\ d \in Cells /\ A!Sound(d) /\ d.data_ = NoObject
    BY <1>1, Mapped, Recreated
  <1>4. variantBroken' = variantBroken
    BY DEF A!FromMove
  <1> HIDE DEF c, d
  <1>5. VariantInv' /\ AllHeld' = Two(AllHeld, v, AllHeld[w], w, NoObject)
    BY <1>1, <1>2, <1>3, <1>4, Becomes
  <1> QED  BY <1>1, <1>5, Mapped DEF A!Abstract!MoveFrom, AllHeld, Two

(* The assignment resets first, itself if it is other.                     *)
LEMMA CopyAssignMaps ==
  ASSUME VariantInv, NEW v \in Variants, NEW w \in Variants,
         A!CopyAssign(v, w)
  PROVE  VariantInv' /\ A!Abstract!CopyAssign(v, w)
  <1> DEFINE cleared == [variant EXCEPT ![v] = A!reset(@)]
             c == A!constructFrom(cleared[w])
  <1>1. /\ A!Exists(v) /\ v \notin variantBroken /\ A!Exists(w)
        /\ A!Set(v, c)
    BY DEF A!CopyAssign, A!Exists
  <1>2. cleared[w] = IF v = w THEN A!reset(variant[w]) ELSE variant[w]
    BY DEF VariantInv, VariantTypeOK
  <1>3. /\ cleared[w] \in Cells /\ A!Sound(cleared[w])
        /\ cleared[w].data_ = IF v = w THEN NoObject ELSE AllHeld[w]
    BY <1>1, <1>2, Mapped, Recreated
  <1> HIDE DEF cleared
  <1>4. c \in Cells /\ A!Sound(c) /\ c.data_ = cleared[w].data_
    BY <1>3, Recreated
  <1> HIDE DEF c
  <1>5. /\ VariantInv'
        /\ AllHeld' = [AllHeld EXCEPT ![v] = cleared[w].data_]
    BY <1>1, <1>4, BecomesOne
  <1> QED  BY <1>1, <1>3, <1>5, Mapped DEF A!Abstract!CopyAssign, AllHeld

(* So does the move assignment, which resets other too.                    *)
LEMMA MoveAssignMaps ==
  ASSUME VariantInv, NEW v \in Variants, NEW w \in Variants,
         A!MoveAssign(v, w)
  PROVE  VariantInv' /\ A!Abstract!MoveAssign(v, w)
  <1> DEFINE cleared == [variant EXCEPT ![v] = A!reset(@)]
             c == A!constructFrom(cleared[w])
             d == IF v = w THEN A!reset(c) ELSE A!reset(cleared[w])
  <1>1. /\ A!Exists(v) /\ v \notin variantBroken
        /\ A!Exists(w) /\ w \notin variantBroken
        /\ variantBroken' = variantBroken
    BY DEF A!MoveAssign, A!Exists
  <1>2. variant' = Two(variant, v, c, w, d)
    <2> DEFINE moved == [cleared EXCEPT ![v] = c]
    <2>1. variant' = [moved EXCEPT ![w] = A!reset(moved[w])]
      BY DEF A!MoveAssign
    <2>2. /\ cleared = [u \in Variants |-> cleared[u]]
          /\ \A u \in Variants \ {v} : cleared[u] = variant[u]
      BY DEF VariantInv, VariantTypeOK
    <2> HIDE DEF cleared
    <2>3. /\ moved = [u \in Variants |-> moved[u]]
          /\ \A u \in Variants : moved[u] = IF u = v THEN c ELSE cleared[u]
      BY <2>2
    <2>4. A!reset(moved[w]) = d
      BY <2>3
    <2> HIDE DEF moved, d
    <2> QED  BY <2>1, <2>2, <2>3, <2>4 DEF Two
  <1>3. cleared[w] = IF v = w THEN A!reset(variant[w]) ELSE variant[w]
    BY DEF VariantInv, VariantTypeOK
  <1>4. /\ cleared[w] \in Cells /\ A!Sound(cleared[w])
        /\ v # w => cleared[w].data_ = AllHeld[w]
    BY <1>1, <1>3, Mapped, Recreated
  <1> HIDE DEF cleared
  <1>5. c \in Cells /\ A!Sound(c) /\ c.data_ = cleared[w].data_
    BY <1>4, Recreated
  <1>6. d \in Cells /\ A!Sound(d) /\ d.data_ = NoObject
    BY <1>4, <1>5, Recreated
  <1> HIDE DEF c, d
  <1>7. VariantInv' /\ AllHeld' = Two(AllHeld, v, c.data_, w, NoObject)
    BY <1>1, <1>2, <1>5, <1>6, Becomes
  <1>8. AllHeld' = [AllHeld EXCEPT ![v] = AllHeld[w], ![w] = NoObject]
    BY <1>4, <1>5, <1>7 DEF AllHeld, Two
  <1> QED  BY <1>1, <1>7, <1>8, Mapped DEF A!Abstract!MoveAssign, AllHeld

(* A throwing assignment leaves a Variant that nobody uses again.          *)
LEMMA AssignThrowsMaps ==
  ASSUME VariantInv, NEW v \in Variants, NEW w \in Variants,
         A!AssignThrows(v, w)
  PROVE  VariantInv' /\ A!Abstract!AssignThrows(v, w)
  <1> DEFINE c == [A!reset(variant[v]) EXCEPT !.index_ = variant[w].index_]
  <1>1. /\ v # w /\ A!Exists(v) /\ A!Exists(w) /\ variant[w].index_ # A!None
        /\ variant' = [variant EXCEPT ![v] = c]
        /\ variantBroken' = variantBroken \cup {v}
    BY DEF A!AssignThrows, A!reset
  <1>2. /\ variant[v] \in Cells /\ A!Sound(variant[v])
        /\ variant[w] \in Cells /\ A!Sound(variant[w])
    BY <1>1, Mapped
  <1>3. A!reset(variant[v]) \in Cells
    BY <1>2, Recreated
  <1>4. c \in Cells
    BY <1>2, <1>3 DEF Cells
  <1>5. AllHeld[w] # NoObject
    BY <1>1, <1>2, Mapped DEF A!Sound
  <1>6. ~A!Sound(c)
    <2>1. A!reset(variant[v]).data_ = NoObject
      BY <1>2, Recreated
    <2> QED  BY <1>1, <1>2, <1>3, <2>1 DEF A!Sound, Cells
  <1> HIDE DEF c
  <1>7. NoVariant \notin Cells
    BY VariantConstants
  <1>8. \A u \in Variants : variant'[u] = IF u = v THEN c ELSE variant[u]
    BY <1>1 DEF VariantInv, VariantTypeOK
  <1>9. VariantTypeOK'
    BY <1>1, <1>4 DEF VariantInv, VariantTypeOK
  <1>10. BrokenInPlace'
    <2> SUFFICES ASSUME NEW u \in variantBroken \cup {v} PROVE ~A!Vacant(u)'
      BY <1>1 DEF BrokenInPlace
    <2>1. CASE u = v
      BY <2>1, <1>4, <1>7, <1>8 DEF A!Vacant
    <2>2. CASE u # v
      BY <2>2, <1>8 DEF VariantInv, VariantTypeOK, BrokenInPlace, A!Vacant
    <2> QED  BY <2>1, <2>2
  <1>11. UsableSound'
    <2> SUFFICES ASSUME NEW u \in Variants, A!Exists(u)'
                 PROVE  A!Sound(variant[u])'
      BY DEF UsableSound
    <2>1. u # v /\ A!Exists(u) /\ variant'[u] = variant[u]
      BY <1>1, <1>8 DEF A!Exists
    <2> QED  BY <2>1 DEF VariantInv, UsableSound, A!Sound, A!None
  <1>12. ~A!Sound(variant[v])'
    BY <1>8, <1>6 DEF A!Sound, A!None
  <1>13. BrokenUnsound'
    <2> SUFFICES ASSUME NEW u \in variantBroken', u # v
                 PROVE  ~A!Sound(variant[u])'
      BY <1>12 DEF BrokenUnsound
    <2>1. u \in variantBroken /\ variant'[u] = variant[u]
      BY <1>1, <1>8 DEF VariantInv, VariantTypeOK
    <2> QED  BY <2>1 DEF VariantInv, BrokenUnsound, A!Sound, A!None
  <1>14. \A u \in Variants : A!Held(u)' = IF u = v THEN Unusable ELSE A!Held(u)
    <2> SUFFICES ASSUME NEW u \in Variants
                 PROVE  A!Held(u)' = IF u = v THEN Unusable ELSE A!Held(u)
      OBVIOUS
    <2>1. CASE u = v
      <3>1. ~A!Vacant(u)'
        BY <2>1, <1>4, <1>7, <1>8 DEF A!Vacant
      <3> QED  BY <2>1, <3>1, <1>12 DEF A!Held
    <2>2. CASE u # v
      <3>1. /\ variant'[u] = variant[u]
            /\ u \in variantBroken' <=> u \in variantBroken
        BY <2>2, <1>1, <1>8
      <3>2. A!Vacant(u)' <=> A!Vacant(u)
        BY <3>1 DEF A!Vacant
      <3>3. A!Sound(variant[u])' <=> A!Sound(variant[u])
        BY <3>1 DEF A!Sound, A!None
      <3> QED  BY <2>2, <3>1, <3>2, <3>3 DEF A!Held
    <2> QED  BY <2>1, <2>2
  <1>15. AllHeld' = [u \in Variants |-> A!Held(u)']
    BY DEF AllHeld
  <1>16. AllHeld' = [AllHeld EXCEPT ![v] = Unusable]
    BY <1>14, <1>15 DEF AllHeld
  <1> QED
    BY <1>1, <1>5, <1>9, <1>10, <1>11, <1>16, <1>13, Mapped
       DEF A!Abstract!AssignThrows, AllHeld, VariantInv

(* Three moves exchange two Variants, or one with itself.                  *)
LEMMA SwapMaps ==
  ASSUME VariantInv, NEW v \in Variants, NEW w \in Variants, A!Swap(v, w)
  PROVE  VariantInv' /\ A!Abstract!Swap(v, w)
  <1> DEFINE c == A!constructFrom(variant[v])
             b == A!constructFrom(variant[w])
             d == A!constructFrom(b)
  <1>1. /\ A!Exists(v) /\ v \notin variantBroken
        /\ A!Exists(w) /\ w \notin variantBroken
        /\ variantBroken' = variantBroken
        /\ variant' = [variant EXCEPT ![w] = c, ![v] = d]
    BY DEF A!Swap, A!Exists
  <1>2. c \in Cells /\ A!Sound(c) /\ c.data_ = AllHeld[v]
    BY <1>1, Mapped, Recreated
  <1>3. b \in Cells /\ A!Sound(b) /\ b.data_ = AllHeld[w]
    BY <1>1, Mapped, Recreated
  <1> HIDE DEF c, b
  <1>4. d \in Cells /\ A!Sound(d) /\ d.data_ = AllHeld[w]
    BY <1>3, Recreated
  <1> HIDE DEF d
  <1>5. variant' = Two(variant, w, c, v, d)
    BY <1>1, TwoAre DEF VariantInv, VariantTypeOK
  <1>6. VariantInv' /\ AllHeld' = Two(AllHeld, w, AllHeld[v], v, AllHeld[w])
    BY <1>1, <1>2, <1>4, <1>5, Becomes
  <1>7. AllHeld' = [AllHeld EXCEPT ![v] = AllHeld[w], ![w] = AllHeld[v]]
    BY <1>6 DEF Two, AllHeld
  <1> QED  BY <1>1, <1>6, <1>7, Mapped DEF A!Abstract!Swap, AllHeld

(* The destructor.                                                         *)
LEMMA DestroyMaps ==
  ASSUME VariantInv, NEW v \in Variants, A!Destroy(v)
  PROVE  VariantInv' /\ A!Abstract!Destroy(v)
  <1>1. /\ A!Exists(v) /\ v \notin variantBroken
        /\ variantBroken' = variantBroken
        /\ variant' = [variant EXCEPT ![v] = NoVariant]
    BY DEF A!Destroy, A!Set, A!Exists
  <1>2. \A u \in Variants :
          variant'[u] = IF u = v THEN NoVariant ELSE variant[u]
    BY <1>1 DEF VariantInv, VariantTypeOK
  <1>3. VariantTypeOK'
    BY <1>1 DEF VariantInv, VariantTypeOK
  <1>4. BrokenInPlace'
    BY <1>1, <1>2
       DEF VariantInv, VariantTypeOK, BrokenInPlace, A!Vacant
  <1>5. BrokenUnsound'
    <2> SUFFICES ASSUME NEW u \in variantBroken PROVE ~A!Sound(variant[u])'
      BY <1>1 DEF BrokenUnsound
    <2>1. u # v /\ variant'[u] = variant[u]
      BY <1>1, <1>2 DEF VariantInv, VariantTypeOK
    <2> QED  BY <2>1 DEF VariantInv, BrokenUnsound, A!Sound, A!None
  <1>6. UsableSound'
    <2> SUFFICES ASSUME NEW u \in Variants, A!Exists(u)'
                 PROVE  A!Sound(variant[u])'
      BY DEF UsableSound
    <2>1. u # v /\ A!Exists(u) /\ variant'[u] = variant[u]
      BY <1>1, <1>2 DEF A!Exists
    <2> QED  BY <2>1 DEF VariantInv, UsableSound, A!Sound, A!None
  <1>7. \A u \in Variants : A!Held(u)' = IF u = v THEN NoVariant ELSE A!Held(u)
    <2> SUFFICES ASSUME NEW u \in Variants
                 PROVE  A!Held(u)' = IF u = v THEN NoVariant ELSE A!Held(u)
      OBVIOUS
    <2>1. CASE u = v
      BY <2>1, <1>2 DEF A!Held, A!Vacant
    <2>2. CASE u # v
      <3>1. variant'[u] = variant[u]
        BY <2>2, <1>2
      <3>2. A!Vacant(u)' <=> A!Vacant(u)
        BY <3>1 DEF A!Vacant
      <3>3. A!Sound(variant[u])' <=> A!Sound(variant[u])
        BY <3>1 DEF A!Sound, A!None
      <3> QED  BY <2>2, <1>1, <3>1, <3>2, <3>3 DEF A!Held
    <2> QED  BY <2>1, <2>2
  <1>8. AllHeld' = [u \in Variants |-> A!Held(u)']
    BY DEF AllHeld
  <1>9. AllHeld' = [AllHeld EXCEPT ![v] = NoVariant]
    BY <1>7, <1>8 DEF AllHeld
  <1> QED
    BY <1>1, <1>3, <1>4, <1>6, <1>9, <1>5, Mapped
       DEF A!Abstract!Destroy, AllHeld, VariantInv

(* Every action of Variant is one of VariantSpec.                          *)
LEMMA VariantStep ==
  VariantInv /\ [A!Next]_(A!vars)
    => VariantInv' /\ [A!Abstract!Next]_(AllHeld)
  <1> SUFFICES ASSUME VariantInv, [A!Next]_(A!vars)
               PROVE  VariantInv' /\ [A!Abstract!Next]_(AllHeld)
    OBVIOUS
  <1>1. CASE UNCHANGED A!vars
    BY <1>1, Stays DEF A!vars
  <1>2. CASE A!Next
    <2>1. PICK v \in Variants :
            \/ A!Default(v) \/ A!Reset(v) \/ A!Destroy(v)
            \/ \E x \in A!Objects : A!FromValue(v, x) \/ A!Emplace(v, x)
            \/ \E x \in Values : A!Visit(v, x)
            \/ \E w \in Variants :
                 \/ A!FromCopy(v, w) \/ A!FromMove(v, w)
                 \/ A!CopyAssign(v, w) \/ A!MoveAssign(v, w)
                 \/ A!AssignThrows(v, w) \/ A!Swap(v, w)
      BY <1>2 DEF A!Next
    <2>2. CASE A!Default(v)
      BY <2>2, DefaultMaps DEF A!Abstract!Next
    <2>3. CASE A!Reset(v)
      BY <2>3, ResetMaps DEF A!Abstract!Next
    <2>4. CASE A!Destroy(v)
      BY <2>4, DestroyMaps DEF A!Abstract!Next
    <2>5. ASSUME NEW x \in A!Objects, A!FromValue(v, x) \/ A!Emplace(v, x)
          PROVE  VariantInv' /\ A!Abstract!Next
      BY <2>5, FromValueMaps, EmplaceMaps DEF A!Abstract!Next
    <2>6. ASSUME NEW x \in Values, A!Visit(v, x)
          PROVE  VariantInv' /\ A!Abstract!Next
      BY <2>6, VisitMaps DEF A!Abstract!Next
    <2>7. ASSUME NEW w \in Variants,
                 A!FromCopy(v, w) \/ A!FromMove(v, w) \/ A!CopyAssign(v, w)
          PROVE  VariantInv' /\ A!Abstract!Next
      BY <2>7, FromCopyMaps, FromMoveMaps, CopyAssignMaps DEF A!Abstract!Next
    <2>8. ASSUME NEW w \in Variants,
                 A!MoveAssign(v, w) \/ A!AssignThrows(v, w) \/ A!Swap(v, w)
          PROVE  VariantInv' /\ A!Abstract!Next
      BY <2>8, MoveAssignMaps, AssignThrowsMaps, SwapMaps DEF A!Abstract!Next
    <2> QED  BY <2>1, <2>2, <2>3, <2>4, <2>5, <2>6, <2>7, <2>8
  <1> QED  BY <1>1, <1>2

\* Which Variants hold an object of the type that index_ names, or nothing.
SoundUnlessThrown ==
  \A v \in Variants :
    ~A!Vacant(v) => (A!Sound(variant[v]) <=> v \notin variantBroken)

(* Variant: every behaviour is one of VariantSpec.  index_ names the       *)
(* object in data_ except in the Variants whose assignment threw, and in   *)
(* every one of those it names an object that is not there.                *)
THEOREM VariantImplements ==
  A!Spec => ImplementsVariant /\ []SoundUnlessThrown
  <1>1. A!Spec => []VariantInv
    BY VariantInit, VariantStep, PTL DEF A!Spec
  <1>2. VariantInv => SoundUnlessThrown
    BY DEF VariantInv, UsableSound, BrokenUnsound, SoundUnlessThrown,
           A!Exists, A!Vacant
  <1> QED
    BY <1>1, <1>2, VariantInit, VariantStep, PTL
       DEF A!Spec, ImplementsVariant, A!ImplementsVariant, A!Abstract!Spec,
           AllHeld
-----------------------------------------------------------------------------
(* HashMap *)

HashTypeOK ==
  /\ elements \in Seq(Keys \X Values)
  /\ map \in [Keys -> Values \cup {NoValue}]

\* Every bucket has the nodes whose keys belong there, in a table that is
\* large enough.
Spreads ==
  \E n \in Nat \ {0} : bucketLists = H!Spread(n, n) /\ Len(elements) <= n * 2

\* Keys are there once, with the value last written.
KeysExact ==
  /\ \A j, k \in 1 .. Len(elements) : elements[j][1] = elements[k][1] => j = k
  /\ \A j \in 1 .. Len(elements) : map[elements[j][1]] = elements[j][2]
  /\ \A x \in Keys : map[x] # NoValue =>
       \E j \in 1 .. Len(elements) : elements[j][1] = x

HashInv == HashTypeOK /\ Spreads /\ KeysExact

(* The hash is a number, and there is a bucket to begin with.              *)
LEMMA HashConstants ==
  /\ Hash \in [Keys -> Nat] /\ MIN_SIZE \in Nat \ {0} /\ NoValue \notin Values
  BY ComponentsAssumption DEF ComponentsAssumption, H!HashMapAssumption

(* The Cardinality of HashMap is that of FiniteSets.                       *)
LEMMA HashSizes == \A T : H!Cardinality(T) = Cardinality(T)
  <1>1. \A X : H!IsFiniteSet(X) <=> IsFiniteSet(X)
    BY DEF IsFiniteSet, H!IsFiniteSet
  <1> QED BY <1>1, Zenon DEF Cardinality, H!Cardinality

(* A table of n buckets has n of them, and a key belongs to one.           *)
LEMMA TableSize ==
  ASSUME NEW n \in Nat \ {0}
  PROVE  /\ \A m : DOMAIN H!Spread(n, m) = H!Buckets(n)
         /\ H!Cardinality(H!Buckets(n)) = n
         /\ \A x \in Keys : H!hashKey(x, n) \in H!Buckets(n)
  <1>2. Cardinality(0 .. n - 1) = n
    BY FS_Interval
  <1>3. ASSUME NEW x \in Keys PROVE H!hashKey(x, n) \in H!Buckets(n)
    <2>1. Hash[x] \in Int
      BY HashConstants
    <2> QED BY <2>1, Division DEF H!hashKey, H!Buckets
  <1> QED BY <1>2, <1>3, HashSizes DEF H!Buckets, H!Spread

(* A search in a table finds the nodes with the key.                       *)
LEMMA SearchFinds ==
  ASSUME HashTypeOK, NEW n \in Nat \ {0}, NEW x \in Keys
  PROVE  H!Found(H!Spread(n, n), x) =
           {j \in 1 .. Len(elements) : elements[j][1] = x}
  <1>1. H!Cardinality(DOMAIN H!Spread(n, n)) = n
    BY TableSize
  <1>2. H!hashKey(x, n) \in H!Buckets(n)
    BY TableSize
  <1>3. H!Spread(n, n)[H!hashKey(x, n)] =
          {j \in 1 .. Len(elements) :
             H!hashKey(elements[j][1], n) = H!hashKey(x, n)}
    BY <1>2 DEF H!Spread
  <1> QED BY <1>1, <1>3 DEF H!Found

(* tryExpand makes room for one more.                                      *)
LEMMA Expanded ==
  ASSUME HashInv
  PROVE  \E n \in Nat \ {0} : H!tryExpand = H!Spread(n, n)
                              /\ Len(elements) + 1 <= n * 2
  <1>1. PICK m \in Nat \ {0} : bucketLists = H!Spread(m, m)
                               /\ Len(elements) <= m * 2
    BY DEF HashInv, Spreads
  <1>2. H!bucketCount = m /\ Len(elements) \in Nat
    BY <1>1, TableSize DEF H!bucketCount, HashInv, HashTypeOK
  <1>3. CASE Len(elements) >= m * 2
    <2>1. H!tryExpand = H!Spread(m * 2, m * 2)
      BY <1>2, <1>3 DEF H!tryExpand, H!Rehashed
    <2>2. m * 2 \in Nat \ {0} /\ Len(elements) + 1 <= (m * 2) * 2
      BY <1>1, <1>2
    <2> QED BY <2>1, <2>2
  <1>4. CASE ~ (Len(elements) >= m * 2)
    <2>1. H!tryExpand = H!Spread(m, m)
      BY <1>1, <1>2, <1>4 DEF H!tryExpand
    <2>2. Len(elements) + 1 <= m * 2
      BY <1>1, <1>2, <1>4
    <2> QED BY <2>1, <2>2
  <1> QED BY <1>3, <1>4

(* The table is empty.                                                     *)
LEMMA HashInit == H!Init => HashInv
  <1> SUFFICES ASSUME H!Init PROVE HashInv
    OBVIOUS
  <1>1. /\ elements = <<>> /\ Len(elements) = 0
        /\ elements \in Seq(Keys \X Values)
    BY DEF H!Init
  <1>2. bucketLists = H!Spread(MIN_SIZE, MIN_SIZE)
    BY <1>1 DEF H!Init, H!Spread
  <1>3. Spreads
    BY <1>1, <1>2, HashConstants DEF Spreads
  <1> QED BY <1>1, <1>3, HashConstants
          DEF H!Init, HashInv, HashTypeOK, KeysExact

(* A node gets a new value: its key, and where it is found, stay.          *)
LEMMA WriteKeepsHash ==
  ASSUME HashInv, NEW x \in Keys, NEW v \in Values,
         H!Update(x, v) \/ H!Write(x, v)
  PROVE  HashInv'
  <1>1. PICK n \in Nat \ {0} :
          /\ bucketLists' = H!Spread(n, n) /\ Len(elements) <= n * 2
          /\ \E j \in H!Found(H!Spread(n, n), x) :
               elements' = [elements EXCEPT ![j][2] = v]
    <2>1. CASE H!Update(x, v)
      <3>1. PICK m \in Nat \ {0} : H!tryExpand = H!Spread(m, m)
                                   /\ Len(elements) + 1 <= m * 2
        BY Expanded
      <3>2. Len(elements) <= m * 2
        BY <3>1 DEF HashInv, HashTypeOK
      <3> QED BY <2>1, <3>1, <3>2 DEF H!Update
    <2>2. CASE H!Write(x, v)
      BY <2>2 DEF H!Write, HashInv, Spreads
    <2> QED BY <2>1, <2>2
  <1>2. PICK j \in 1 .. Len(elements) :
          elements[j][1] = x /\ elements' = [elements EXCEPT ![j][2] = v]
    <2>1. H!Found(H!Spread(n, n), x) =
            {j \in 1 .. Len(elements) : elements[j][1] = x}
      BY SearchFinds DEF HashInv
    <2> QED BY <1>1, <2>1, Zenon
  <1>3. map' = [map EXCEPT ![x] = v]
    BY DEF H!Update, H!Write
  <1>4. /\ elements' \in Seq(Keys \X Values) /\ Len(elements') = Len(elements)
        /\ elements'[j][1] = x /\ elements'[j][2] = v
        /\ \A k \in 1 .. Len(elements) \ {j} : elements'[k] = elements[k]
    <2>1. elements[j] \in Keys \X Values
      BY DEF HashInv, HashTypeOK
    <2> DEFINE e == [elements[j] EXCEPT ![2] = v]
    <2>2. e \in Keys \X Values /\ e[1] = x /\ e[2] = v
      BY <1>2, <2>1
    <2>3. elements' = [elements EXCEPT ![j] = e]
      BY <1>2
    <2> HIDE DEF e
    <2> QED BY <2>2, <2>3 DEF HashInv, HashTypeOK
  <1>5. \A k \in 1 .. Len(elements) : elements'[k][1] = elements[k][1]
    BY <1>2, <1>4
  <1>6. H!Spread(n, n)' = H!Spread(n, n)
    <2>1. \A b :
            {k \in 1 .. Len(elements) : H!hashKey(elements[k][1], n) = b}' =
                 {k \in 1 .. Len(elements) : H!hashKey(elements[k][1], n) = b}
      BY <1>4, <1>5 DEF H!hashKey
    <2> QED BY <2>1 DEF H!Spread
  <1>7. HashTypeOK' /\ Spreads'
    BY <1>1, <1>3, <1>4, <1>6 DEF HashInv, HashTypeOK, Spreads
  <1>8. KeysExact'
    <2>1. /\ map'[x] = v /\ v # NoValue
          /\ \A y \in Keys \ {x} : map'[y] = map[y]
      BY <1>3, HashConstants DEF HashInv, HashTypeOK
    <2>2. ASSUME NEW k \in 1 .. Len(elements)
          PROVE  map'[elements'[k][1]] = elements'[k][2]
      <3>1. /\ elements[k] \in Keys \X Values
            /\ map[elements[k][1]] = elements[k][2]
        BY DEF HashInv, HashTypeOK, KeysExact
      <3>2. k # j => elements[k][1] # x
        BY <1>2 DEF HashInv, KeysExact
      <3> QED BY <1>4, <2>1, <3>1, <3>2
    <2>3. \A k, l \in 1 .. Len(elements') :
            elements'[k][1] = elements'[l][1] => k = l
      BY <1>4, <1>5 DEF HashInv, KeysExact
    <2>4. ASSUME NEW y \in Keys, map'[y] # NoValue
          PROVE  \E k \in 1 .. Len(elements') : elements'[k][1] = y
      BY <1>2, <1>4, <1>5, <2>1, <2>4 DEF HashInv, KeysExact
    <2> QED BY <1>4, <2>2, <2>3, <2>4 DEF KeysExact
  <1> QED BY <1>7, <1>8 DEF HashInv

(* A new node goes to the bucket of its key.                               *)
LEMMA AddKeepsHash ==
  ASSUME HashInv, NEW x \in Keys, NEW v \in Values, H!Add(x, v)
  PROVE  HashInv'
  <1>1. PICK n \in Nat \ {0} : H!tryExpand = H!Spread(n, n)
                               /\ Len(elements) + 1 <= n * 2
    BY Expanded
  <1> DEFINE len == Len(elements)
  <1>2. /\ elements' = Append(elements, <<x, v>>)
        /\ elements' \in Seq(Keys \X Values)
        /\ Len(elements') = len + 1 /\ len \in Nat
        /\ elements'[len + 1] = <<x, v>>
        /\ \A k \in 1 .. len : elements'[k] = elements[k]
        /\ map' = [map EXCEPT ![x] = v]
    BY DEF H!Add, HashInv, HashTypeOK
  <1>3. \A k \in 1 .. len : elements[k][1] # x
    BY <1>1, SearchFinds DEF H!Add, HashInv
  <1>4. bucketLists' =
          [H!Spread(n, n) EXCEPT ![H!hashKey(x, n)] = @ \cup {len + 1}]
    <2>1. H!Cardinality(DOMAIN H!Spread(n, n)) = n
      BY TableSize
    <2> QED BY <1>1, <1>2, <2>1 DEF H!Add
  <1>5. bucketLists' = H!Spread(n, n)'
    <2>1. ASSUME NEW b \in H!Buckets(n)
          PROVE  {k \in 1 .. Len(elements') :
                    H!hashKey(elements'[k][1], n) = b} =
                   {k \in 1 .. len : H!hashKey(elements[k][1], n) = b}
                     \cup (IF b = H!hashKey(x, n) THEN {len + 1} ELSE {})
      <3>1. /\ 1 .. Len(elements') = (1 .. len) \cup {len + 1}
            /\ len + 1 \notin 1 .. len
        BY <1>2
      <3> HIDE DEF len
      <3> QED BY <1>2, <3>1
    <2>2. H!hashKey(x, n) \in H!Buckets(n)
      BY TableSize
    <2>3. H!Spread(n, n)' =
            [b \in H!Buckets(n) |->
               {k \in 1 .. Len(elements') : H!hashKey(elements'[k][1], n) = b}]
      BY DEF H!Spread, H!hashKey, H!Buckets
    <2>4. H!Spread(n, n) =
            [b \in H!Buckets(n) |->
               {k \in 1 .. len : H!hashKey(elements[k][1], n) = b}]
      BY DEF H!Spread
    <2> QED BY <1>4, <2>1, <2>2, <2>3, <2>4
  <1>6. HashTypeOK' /\ Spreads'
    BY <1>1, <1>2, <1>5 DEF HashInv, HashTypeOK, Spreads
  <1>7. KeysExact'
    <2>1. /\ map'[x] = v /\ v # NoValue
          /\ \A y \in Keys \ {x} : map'[y] = map[y]
      BY <1>2, HashConstants DEF HashInv, HashTypeOK
    <2>2. \A k \in 1 .. Len(elements') : k \in 1 .. len \/ k = len + 1
      BY <1>2
    <2> HIDE DEF len
    <2>3. ASSUME NEW k \in 1 .. Len(elements')
          PROVE  map'[elements'[k][1]] = elements'[k][2]
      <3>1. CASE k \in 1 .. len
        <4>1. /\ elements[k] \in Keys \X Values
              /\ map[elements[k][1]] = elements[k][2]
          BY <3>1 DEF len, HashInv, HashTypeOK, KeysExact
        <4> QED BY <1>2, <1>3, <2>1, <3>1, <4>1
      <3>2. CASE k = len + 1
        BY <1>2, <2>1, <3>2
      <3> QED BY <2>2, <3>1, <3>2
    <2>4. ASSUME NEW k \in 1 .. Len(elements'), NEW l \in 1 .. Len(elements'),
                 elements'[k][1] = elements'[l][1]
          PROVE  k = l
      BY <1>2, <1>3, <2>2, <2>4 DEF len, HashInv, KeysExact
    <2>5. ASSUME NEW y \in Keys, map'[y] # NoValue
          PROVE  \E k \in 1 .. Len(elements') : elements'[k][1] = y
      <3>1. /\ len + 1 \in 1 .. Len(elements')
            /\ 1 .. len \subseteq 1 .. Len(elements')
        BY <1>2
      <3> QED BY <1>2, <2>1, <2>5, <3>1 DEF len, HashInv, KeysExact
    <2> QED BY <2>3, <2>4, <2>5 DEF KeysExact
  <1> QED BY <1>6, <1>7 DEF HashInv

(* Every action of HashMap keeps the invariant.                            *)
LEMMA HashStep == HashInv /\ [H!Next]_(H!vars) => HashInv'
  <1> SUFFICES ASSUME HashInv, [H!Next]_(H!vars) PROVE HashInv'
    OBVIOUS
  <1>1. CASE H!Next
    BY <1>1, WriteKeepsHash, AddKeepsHash DEF H!Next
  <1>2. CASE UNCHANGED H!vars
    <2> USE <1>2 DEF H!vars
    <2>1. HashTypeOK' /\ KeysExact'
      BY DEF HashInv, HashTypeOK, KeysExact
    <2>2. \A n : H!Spread(n, n)' = H!Spread(n, n)
      BY DEF H!Spread, H!hashKey
    <2>3. Spreads'
      BY <2>2 DEF HashInv, Spreads
    <2> QED BY <2>1, <2>3 DEF HashInv
  <1> QED BY <1>1, <1>2

(* In every behaviour of HashMap, across rehashes, every key is found,     *)
(* once, with its last value.                                              *)
THEOREM HashMapIsExact == H!Spec => []TableExact
  <1>1. HashInv => TableExact
    <2> SUFFICES ASSUME HashInv PROVE TableExact
      OBVIOUS
    <2>1. PICK n \in Nat \ {0} : bucketLists = H!Spread(n, n)
                                 /\ Len(elements) <= n * 2
      BY DEF HashInv, Spreads
    <2>2. H!bucketCount = n
      BY <2>1, TableSize DEF H!bucketCount
    <2>3. ASSUME NEW x \in Keys
          PROVE  {elements[j][2] : j \in H!Found(bucketLists, x)} =
                   {map[x]} \ {NoValue}
      <3>1. H!Found(bucketLists, x) =
              {j \in 1 .. Len(elements) : elements[j][1] = x}
        BY <2>1, SearchFinds DEF HashInv
      <3>2. \A j \in 1 .. Len(elements) : elements[j] \in Keys \X Values
        BY DEF HashInv, HashTypeOK
      <3>3. \A j \in 1 .. Len(elements) : elements[j][2] # NoValue
        BY <3>2, HashConstants
      <3> QED BY <3>1, <3>3 DEF HashInv, KeysExact
    <2>4. ASSUME NEW j \in 1 .. Len(elements)
          PROVE  H!Cardinality({b \in DOMAIN bucketLists :
                                  j \in bucketLists[b]}) = 1
      <3>1. elements[j][1] \in Keys
        BY DEF HashInv, HashTypeOK
      <3>2. H!hashKey(elements[j][1], n) \in H!Buckets(n)
        BY <3>1, TableSize
      <3>3. {b \in DOMAIN bucketLists : j \in bucketLists[b]} =
              {H!hashKey(elements[j][1], n)}
        BY <2>1, <3>2 DEF H!Spread
      <3>4. H!Cardinality({H!hashKey(elements[j][1], n)}) = 1
        BY HashSizes, FS_Singleton
      <3> QED BY <3>3, <3>4
    <2> QED BY <2>1, <2>2, <2>3, <2>4
            DEF HashInv, KeysExact, TableExact, H!TableExact
  <1> QED BY <1>1, HashInit, HashStep, PTL DEF H!Spec
-----------------------------------------------------------------------------
(* bin/rwlock.cc *)

MatrixTypeOK ==
  /\ readers \subseteq M!Threads /\ writers \subseteq M!Threads
  /\ numbers \in [0 .. MatrixSIZE - 1 -> Numbers]
  /\ pc \in [M!Threads -> {"loop", "generate", "verify"}]
  /\ i \in [M!Threads -> 0 .. MatrixSIZE]
  /\ DOMAIN sum = M!Threads
  /\ generated \in BOOLEAN /\ failed \in BOOLEAN

\* Who is at work has the lock, and a producer has it for itself.
LockHeld ==
  /\ writers # {} => readers = {} /\ \E t \in M!Threads : writers = {t}
  /\ \A t \in M!Threads :
       /\ pc[t] = "generate" => t \in writers
       /\ pc[t] = "verify" => t \in readers \cup writers
       /\ pc[t] = "loop" => i[t] = 0
       /\ pc[t] # "verify" => sum[t] = 0

Generating == \E t \in M!Threads : pc[t] = "generate"

\* sums holds the checksum of every beginning of the matrix of up to n
\* numbers.
Checksums(sums, n) ==
  /\ sums[0] = 0
  /\ \A k \in 0 .. n - 1 : sums[k + 1] = (sums[k] + numbers[k]) % MOD

\* A new matrix has its checksum so far, a complete one its own, and each
\* consumer that of the part it has seen.
SumsAgree(sums) ==
  /\ \A t \in M!Threads : pc[t] = "generate" =>
       Checksums(sums, i[t]) /\ checkSum = sums[i[t]]
  /\ generated /\ ~ Generating =>
       /\ Checksums(sums, MatrixSIZE) /\ checkSum = sums[MatrixSIZE]
       /\ \A t \in M!Threads : pc[t] = "verify" => sum[t] = sums[i[t]]

MatrixSound ==
  \E sums \in [0 .. MatrixSIZE -> Int] : sums[0] = 0 /\ SumsAgree(sums)

MatrixInv == MatrixTypeOK /\ LockHeld /\ MatrixSound /\ FailsOnlyAtFirst

(* The numbers are less than MOD.                                          *)
LEMMA MatrixConstants ==
  MatrixSIZE \in Nat /\ MOD \in Nat \ {0} /\ Numbers \subseteq 0 .. MOD - 1
  BY ComponentsAssumption DEF ComponentsAssumption, M!MatrixAssumption

\* Only one thread works on a matrix that changes.
LEMMA Alone ==
  ASSUME MatrixInv, NEW t \in M!Threads, NEW u \in M!Threads, t # u,
         pc[t] = "generate"
  PROVE  pc[u] = "loop"
  BY DEF MatrixInv, MatrixTypeOK, LockHeld

(* The first matrix is whatever the memory held.                           *)
LEMMA MatrixInit == M!Init => MatrixInv
  <1> SUFFICES ASSUME M!Init PROVE MatrixInv
    OBVIOUS
  <1>1. MatrixTypeOK
    <2>1. /\ i \in [M!Threads -> 0 .. MatrixSIZE] /\ DOMAIN sum = M!Threads
          /\ pc \in [M!Threads -> {"loop", "generate", "verify"}]
      BY MatrixConstants DEF M!Init
    <2> QED BY <2>1 DEF M!Init, M!L!Init, MatrixTypeOK
  <1>2. LockHeld
    BY DEF M!Init, M!L!Init, LockHeld
  <1>3. MatrixSound
    <2> DEFINE sums == [k \in 0 .. MatrixSIZE |-> 0]
    <2>1. sums \in [0 .. MatrixSIZE -> Int] /\ sums[0] = 0 /\ SumsAgree(sums)
      BY MatrixConstants DEF M!Init, SumsAgree
    <2> QED BY <2>1 DEF MatrixSound
  <1> QED BY <1>1, <1>2, <1>3
          DEF M!Init, MatrixInv, FailsOnlyAtFirst, M!FailsOnlyAtFirst

(* A producer begins a new matrix, which none of the others sees.          *)
LEMMA StartGenerateKeepsMatrix ==
  ASSUME MatrixInv, ~ failed, NEW t \in M!Threads, M!StartGenerate(t)
  PROVE  MatrixInv'
  <1> USE DEF M!StartGenerate, M!Goto, M!L!BeginWrite
  <1>1. MatrixTypeOK' /\ LockHeld'
    BY DEF MatrixInv, MatrixTypeOK, LockHeld
  <1>2. MatrixSound'
    <2> DEFINE sums == [k \in 0 .. MatrixSIZE |-> 0]
    <2>1. sums \in [0 .. MatrixSIZE -> Int] /\ sums[0] = 0
      BY MatrixConstants
    <2>2. \A u \in M!Threads : pc'[u] = "generate" => i'[u] = 0
      BY DEF MatrixInv, MatrixTypeOK, LockHeld
    <2>3. Generating'
      BY DEF MatrixInv, MatrixTypeOK, Generating
    <2>4. SumsAgree(sums)'
      BY <2>1, <2>2, <2>3 DEF SumsAgree, Checksums
    <2> QED BY <2>1, <2>4 DEF MatrixSound
  <1> QED BY <1>1, <1>2 DEF MatrixInv, FailsOnlyAtFirst, M!FailsOnlyAtFirst

(* One more number, and its part of the checksum.                          *)
LEMMA GenerateNextKeepsMatrix ==
  ASSUME MatrixInv, ~ failed, NEW t \in M!Threads, NEW n \in Numbers,
         M!GenerateNext(t, n)
  PROVE  MatrixInv'
  <1> USE DEF M!GenerateNext, M!lock
  <1>1. /\ i[t] \in 0 .. MatrixSIZE - 1 /\ n \in Int /\ MatrixSIZE \in Nat
        /\ MOD \in Nat \ {0}
    BY MatrixConstants DEF MatrixInv, MatrixTypeOK
  <1>0. /\ i[t] + 1 \in 0 .. MatrixSIZE /\ i[t] \in Nat
        /\ \A k \in 0 .. i[t] : k \in 0 .. MatrixSIZE /\ k # i[t] + 1
    BY <1>1
  <1>2. MatrixTypeOK'
    <2>1. /\ i' \in [M!Threads -> 0 .. MatrixSIZE]
          /\ numbers' \in [0 .. MatrixSIZE - 1 -> Numbers]
      BY <1>0, <1>1 DEF MatrixInv, MatrixTypeOK
    <2> QED BY <2>1 DEF MatrixInv, MatrixTypeOK
  <1>3. LockHeld'
    BY <1>1 DEF MatrixInv, MatrixTypeOK, LockHeld
  <1>4. MatrixSound'
    <2>1. PICK old \in [0 .. MatrixSIZE -> Int] :
            old[0] = 0 /\ Checksums(old, i[t]) /\ checkSum = old[i[t]]
      BY DEF MatrixInv, MatrixSound, SumsAgree
    <2> DEFINE s == (checkSum + n) % MOD
    <2>2. s \in Int /\ checkSum' = s
      BY <1>1, <2>1
    <2> HIDE DEF s
    <2>3. PICK sums \in [0 .. MatrixSIZE -> Int] :
            sums = [k \in 0 .. MatrixSIZE |->
                      IF k = i[t] + 1 THEN s ELSE old[k]]
      BY <2>1, <2>2
    <2>4. /\ sums[i[t] + 1] = s /\ i[t] + 1 \in 0 .. MatrixSIZE
          /\ \A k \in 0 .. i[t] : sums[k] = old[k]
      <3> HIDE DEF M!GenerateNext
      <3> QED BY <1>0, <2>3
    <2>5. /\ i'[t] = i[t] + 1 /\ numbers'[i[t]] = n
          /\ \A k \in 0 .. i[t] - 1 : numbers'[k] = numbers[k]
      BY <1>1 DEF MatrixInv, MatrixTypeOK
    <2>6. sums[0] = 0
      BY <1>1, <2>1, <2>4
    <2>7. ASSUME NEW k \in 0 .. i[t]
          PROVE  sums[k + 1] = (sums[k] + numbers'[k]) % MOD
      <3>1. CASE k = i[t]
        BY <1>1, <2>1, <2>4, <2>5, <3>1 DEF s
      <3>2. CASE k # i[t]
        <4>1. k \in 0 .. i[t] - 1 /\ k + 1 \in 0 .. i[t]
          <5> HIDE DEF M!GenerateNext
          <5>1. i[t] \in Nat /\ k \in 0 .. i[t] /\ k # i[t]
            BY <1>1, <3>2
          <5> QED BY <5>1
        <4>2. old[k + 1] = (old[k] + numbers[k]) % MOD
          BY <2>1, <4>1 DEF Checksums
        <4> QED BY <2>4, <2>5, <4>1, <4>2
      <3> QED BY <3>1, <3>2
    <2>8. \A u \in M!Threads : pc'[u] = "generate" => u = t
      BY Alone DEF MatrixInv, MatrixTypeOK
    <2>9. Checksums(sums, i[t])'
      <3>1. \A k \in 0 .. i'[t] - 1 : k \in 0 .. i[t]
        BY <1>1, <2>5
      <3> QED BY <2>6, <2>7, <3>1 DEF Checksums
    <2>10. Generating'
      BY DEF Generating
    <2>11. SumsAgree(sums)'
      BY <2>2, <2>4, <2>5, <2>8, <2>9, <2>10 DEF SumsAgree
    <2> QED BY <2>6, <2>11 DEF MatrixSound
  <1> QED BY <1>2, <1>3, <1>4
          DEF MatrixInv, FailsOnlyAtFirst, M!FailsOnlyAtFirst

(* The matrix is complete, and no consumer has begun.                      *)
LEMMA EndGenerateKeepsMatrix ==
  ASSUME MatrixInv, ~ failed, NEW t \in M!Threads, M!EndGenerate(t)
  PROVE  MatrixInv'
  <1> USE DEF M!EndGenerate, M!Goto, M!L!EndWrite, M!matrix
  <1>1. MatrixTypeOK' /\ LockHeld'
    BY MatrixConstants DEF MatrixInv, MatrixTypeOK, LockHeld
  <1>2. \A u \in M!Threads : pc'[u] = "loop"
    BY Alone DEF MatrixInv, MatrixTypeOK
  <1>3. MatrixSound'
    BY <1>2 DEF MatrixInv, MatrixSound, SumsAgree, Checksums
  <1> QED BY <1>1, <1>3 DEF MatrixInv, FailsOnlyAtFirst, M!FailsOnlyAtFirst

(* A consumer begins to sum up.                                            *)
LEMMA StartVerifyKeepsMatrix ==
  ASSUME MatrixInv, ~ failed, NEW t \in M!Threads, M!StartVerify(t)
  PROVE  MatrixInv'
  <1> USE DEF M!StartVerify, M!Goto, M!ConsumerLock, M!L!BeginWrite,
              M!L!BeginRead, M!matrix
  <1>1. MatrixTypeOK' /\ LockHeld'
    BY DEF MatrixInv, MatrixTypeOK, LockHeld
  <1>2. /\ pc' = [pc EXCEPT ![t] = "verify"] /\ pc[t] = "loop"
        /\ UNCHANGED <<numbers, checkSum, i, sum, generated, failed>>
    OBVIOUS
  <1>3. i[t] = 0 /\ sum[t] = 0
    BY <1>2 DEF MatrixInv, LockHeld
  <1> HIDE DEF M!StartVerify
  <1>4. Generating' <=> Generating
    BY <1>2 DEF MatrixInv, MatrixTypeOK, Generating
  <1>5. MatrixSound'
    <2>1. PICK sums \in [0 .. MatrixSIZE -> Int] :
            sums[0] = 0 /\ SumsAgree(sums)
      BY DEF MatrixInv, MatrixSound
    <2>2. \A n : Checksums(sums, n)' <=> Checksums(sums, n)
      BY <1>2 DEF Checksums
    <2>3. SumsAgree(sums)'
      BY <1>2, <1>3, <1>4, <2>1, <2>2 DEF MatrixInv, MatrixTypeOK, SumsAgree
    <2> QED BY <2>1, <2>3 DEF MatrixSound
  <1> QED
    BY <1>1, <1>2, <1>5 DEF MatrixInv, FailsOnlyAtFirst, M!FailsOnlyAtFirst

(* It adds a number: its sum stays that of what it has seen.               *)
LEMMA VerifyNextKeepsMatrix ==
  ASSUME MatrixInv, ~ failed, NEW t \in M!Threads, M!VerifyNext(t)
  PROVE  MatrixInv'
  <1>1. /\ pc[t] = "verify" /\ i[t] \in 0 .. MatrixSIZE - 1
        /\ sum' = [sum EXCEPT ![t] = (sum[t] + numbers[i[t]]) % MOD]
        /\ i' = [i EXCEPT ![t] = i[t] + 1]
        /\ UNCHANGED <<readers, writers, numbers, checkSum, pc, generated,
                       failed>>
    BY MatrixConstants
    DEF M!VerifyNext, M!lock, M!matrix, MatrixInv, MatrixTypeOK
  <1>2. i[t] + 1 \in 0 .. MatrixSIZE
    BY <1>1, MatrixConstants
  <1>3. MatrixTypeOK' /\ LockHeld'
    BY <1>1, <1>2 DEF MatrixInv, MatrixTypeOK, LockHeld
  <1>4. MatrixSound'
    <2>1. PICK sums \in [0 .. MatrixSIZE -> Int] :
            sums[0] = 0 /\ SumsAgree(sums)
      BY DEF MatrixInv, MatrixSound
    <2>2. \A n : Checksums(sums, n)' <=> Checksums(sums, n)
      BY <1>1 DEF Checksums
    <2>3. Generating' <=> Generating
      BY <1>1 DEF Generating
    <2>4. ASSUME NEW u \in M!Threads, u # t
          PROVE  i'[u] = i[u] /\ sum'[u] = sum[u]
      BY <1>1, <2>4 DEF MatrixInv, MatrixTypeOK
    <2>5. ASSUME generated, ~ Generating PROVE sum'[t] = sums[i'[t]]
      <3>1. Checksums(sums, MatrixSIZE) /\ sum[t] = sums[i[t]]
        BY <1>1, <2>1, <2>5 DEF SumsAgree
      <3>2. sums[i[t] + 1] = (sums[i[t]] + numbers[i[t]]) % MOD
        BY <1>1, <3>1 DEF Checksums
      <3>3. sum'[t] = (sum[t] + numbers[i[t]]) % MOD /\ i'[t] = i[t] + 1
        BY <1>1 DEF MatrixInv, MatrixTypeOK
      <3> QED BY <3>1, <3>2, <3>3
    <2>6. SumsAgree(sums)'
      BY <1>1, <2>1, <2>2, <2>3, <2>4, <2>5 DEF SumsAgree
    <2> QED BY <2>1, <2>6 DEF MatrixSound
  <1> QED
    BY <1>1, <1>3, <1>4 DEF MatrixInv, FailsOnlyAtFirst, M!FailsOnlyAtFirst

(* The sum is right, or it was no matrix.                                  *)
LEMMA VerifiedKeepsMatrix ==
  ASSUME MatrixInv, ~ failed, NEW t \in M!Threads,
         M!Verified(t) \/ M!VerificationFailed(t)
  PROVE  MatrixInv'
  <1>1. CASE M!Verified(t)
    <2> USE <1>1 DEF M!Verified, M!Goto, M!ConsumerUnlock, M!L!EndRead,
                     M!L!EndWrite, M!matrix
    <2>1. MatrixTypeOK' /\ LockHeld'
      BY MatrixConstants DEF MatrixInv, MatrixTypeOK, LockHeld
    <2>2. /\ pc' = [pc EXCEPT ![t] = "loop"] /\ pc[t] = "verify"
          /\ i' = [i EXCEPT ![t] = 0] /\ sum' = [sum EXCEPT ![t] = 0]
          /\ UNCHANGED <<numbers, checkSum, generated, failed>>
      OBVIOUS
    <2> HIDE <1>1 DEF M!Verified
    <2>3. Generating' <=> Generating
      BY <2>2 DEF MatrixInv, MatrixTypeOK, Generating
    <2>4. ASSUME NEW u \in M!Threads, u # t
          PROVE  i'[u] = i[u] /\ sum'[u] = sum[u] /\ pc'[u] = pc[u]
      BY <2>2, <2>4 DEF MatrixInv, MatrixTypeOK
    <2>5. MatrixSound'
      <3>1. PICK sums \in [0 .. MatrixSIZE -> Int] :
              sums[0] = 0 /\ SumsAgree(sums)
        BY DEF MatrixInv, MatrixSound
      <3>2. \A n : Checksums(sums, n)' <=> Checksums(sums, n)
        BY <2>2 DEF Checksums
      <3>3. pc'[t] = "loop"
        BY <2>2 DEF MatrixInv, MatrixTypeOK
      <3>4. SumsAgree(sums)'
        BY <2>2, <2>3, <2>4, <3>1, <3>2, <3>3 DEF SumsAgree
      <3> QED BY <3>1, <3>4 DEF MatrixSound
    <2> QED BY <2>1, <2>2, <2>5
            DEF MatrixInv, FailsOnlyAtFirst, M!FailsOnlyAtFirst
  <1>2. CASE M!VerificationFailed(t)
    <2>1. /\ pc[t] = "verify" /\ i[t] = MatrixSIZE /\ sum[t] # checkSum
          /\ failed' = TRUE
          /\ UNCHANGED <<readers, writers, numbers, checkSum, pc, i, sum,
                         generated>>
      BY <1>2 DEF M!VerificationFailed, M!lock, M!matrix, M!locals
    <2>2. MatrixTypeOK' /\ LockHeld'
      BY <2>1 DEF MatrixInv, MatrixTypeOK, LockHeld
    <2>3. MatrixSound'
      BY <2>1 DEF MatrixInv, MatrixSound, SumsAgree, Checksums, Generating
    <2>4. ~ generated
      <3>1. ~ Generating
        BY <2>1, Alone DEF Generating
      <3> QED BY <2>1, <3>1 DEF MatrixInv, MatrixSound, SumsAgree
    <2> QED BY <2>1, <2>2, <2>3, <2>4
            DEF MatrixInv, FailsOnlyAtFirst, M!FailsOnlyAtFirst
  <1> QED BY <1>1, <1>2

(* The next benchmark goes on with the same matrix.                        *)
LEMMA NextBenchmarkKeepsMatrix ==
  ASSUME MatrixInv, M!NextBenchmark PROVE MatrixInv'
  BY DEF M!NextBenchmark, M!lock, M!matrix, MatrixInv, MatrixTypeOK, LockHeld,
         MatrixSound, SumsAgree, Checksums, Generating, FailsOnlyAtFirst,
         M!FailsOnlyAtFirst

(* Every action of the program keeps the invariant.                        *)
LEMMA MatrixStep == MatrixInv /\ [M!Next]_(M!vars) => MatrixInv'
  <1> SUFFICES ASSUME MatrixInv, [M!Next]_(M!vars) PROVE MatrixInv'
    OBVIOUS
  <1>1. CASE M!Next
    BY <1>1, StartGenerateKeepsMatrix, GenerateNextKeepsMatrix,
       EndGenerateKeepsMatrix, StartVerifyKeepsMatrix, VerifyNextKeepsMatrix,
       VerifiedKeepsMatrix, NextBenchmarkKeepsMatrix DEF M!Next, M!Threads
  <1>2. CASE UNCHANGED M!vars
    <2> USE <1>2 DEF M!vars
    <2>1. MatrixTypeOK' /\ LockHeld' /\ FailsOnlyAtFirst'
      BY DEF MatrixInv, MatrixTypeOK, LockHeld, FailsOnlyAtFirst,
             M!FailsOnlyAtFirst
    <2>2. \A sums, n : Checksums(sums, n)' <=> Checksums(sums, n)
      BY DEF Checksums
    <2>3. \A sums : SumsAgree(sums)' <=> SumsAgree(sums)
      BY <2>2 DEF SumsAgree, Generating
    <2>4. MatrixSound'
      BY <2>3 DEF MatrixInv, MatrixSound
    <2> QED BY <2>1, <2>4 DEF MatrixInv
  <1> QED BY <1>1, <1>2

(* In every behaviour of bin/rwlock.cc, once a producer has filled the     *)
(* matrix no verification fails.                                           *)
THEOREM MatrixVerifies == M!Spec => []FailsOnlyAtFirst
  <1>1. MatrixInv => FailsOnlyAtFirst
    BY DEF MatrixInv
  <1> QED BY <1>1, MatrixInit, MatrixStep, PTL DEF M!Spec
-----------------------------------------------------------------------------
(* Vector *)

\* After a reallocation the vector is half full, within one, and each call
\* moves its size by one at most: what since counts bounds how far it is from
\* there.  A vector of the least capacity may be emptier, for it never shrinks.
HalfFullAfterReallocation ==
  /\ size <= capacity \div 2 + 1 + since
  /\ MIN_CAPACITY < capacity => capacity \div 2 <= size + 1 + since

VectorNumbers ==
  /\ capacity \in Nat /\ capacity % 2 = 0
  /\ size \in Nat /\ since \in Nat

VectorInv == VectorNumbers /\ VectorExact /\ HalfFullAfterReallocation

\* A vector that is not there has no elements, and satisfies the invariant.
LEMMA VectorInit == ASSUME VectorAssumption PROVE Init => VectorInv
  BY DEF VectorAssumption, Init, VectorInv, VectorNumbers, VectorExact,
         HalfFullAfterReallocation, Block, Fresh

\* What tryExpand and tryShrink compute from the capacity is even again.
LEMMA Halves ==
  ASSUME NEW c \in Nat, c % 2 = 0
  PROVE  /\ c * 2 \in Nat /\ (c * 2) % 2 = 0 /\ (c * 2) \div 2 = c
         /\ c \div 2 \in Nat /\ 2 * (c \div 2) = c
  OBVIOUS

(* A constructor leaves an empty vector.                                   *)
LEMMA ConstructKeepsVector ==
  ASSUME VectorAssumption, VectorInv, Construct PROVE VectorInv'
  <1>1. VectorNumbers' /\ HalfFullAfterReallocation'
    BY DEF VectorAssumption, VectorInv, VectorNumbers, VectorExact, Construct,
           HalfFullAfterReallocation
  <1>2. size = 0
    BY DEF VectorInv, VectorNumbers, VectorExact, Construct
  <1>3. VectorExact'
    BY <1>1, <1>2
    DEF VectorInv, VectorNumbers, VectorExact, Construct, Block, Fresh,
        VectorAssumption
  <1> QED BY <1>1, <1>3 DEF VectorInv

(* pushBack, after tryExpand.                                              *)
LEMMA PushBackKeepsVector ==
  ASSUME VectorAssumption, VectorInv, NEW v \in Values, PushBack(v)
  PROVE  VectorInv'
  <1>1. CASE size = capacity
    <2>1. /\ capacity' = capacity * 2 /\ size' = size + 1 /\ since' = 0
          /\ 0 < capacity
          /\ data' = [Reallocated(capacity * 2) EXCEPT ![size] = v]
          /\ contents' = [k \in 0 .. size |->
                            IF k = size THEN v ELSE contents[k]]
      <3>1. tryExpand = Reallocated(capacity * 2)
        BY <1>1 DEF tryExpand
      <3> QED BY <1>1, <3>1 DEF PushBack
    <2>2. VectorNumbers' /\ HalfFullAfterReallocation'
      BY <1>1, <2>1, Halves
      DEF VectorInv, VectorNumbers, HalfFullAfterReallocation
    <2>3. VectorExact'
      BY <1>1, <2>1
      DEF VectorInv, VectorNumbers, VectorExact, Reallocated, Block
    <2> QED BY <2>2, <2>3 DEF VectorInv
  <1>2. CASE size # capacity
    <2>1. /\ capacity' = capacity /\ size' = size + 1 /\ since' = Longer
          /\ data' = [data EXCEPT ![size] = v]
          /\ contents' = [k \in 0 .. size |->
                            IF k = size THEN v ELSE contents[k]]
      <3>1. tryExpand = data
        BY <1>2 DEF tryExpand
      <3> QED BY <1>2, <3>1 DEF PushBack
    <2>2. VectorNumbers' /\ HalfFullAfterReallocation'
      BY <1>2, <2>1, Halves DEF VectorInv, VectorNumbers, VectorExact, Longer,
                                HalfFullAfterReallocation
    <2>3. VectorExact'
      BY <1>2, <2>1 DEF VectorInv, VectorNumbers, VectorExact, Block
    <2> QED BY <2>2, <2>3 DEF VectorInv
  <1> QED BY <1>1, <1>2

(* popBack, before tryShrink.                                              *)
LEMMA PopBackKeepsVector ==
  ASSUME VectorAssumption, VectorInv, PopBack PROVE VectorInv'
  <1>1. CASE Shrinks
    <2>1. /\ capacity' = capacity \div 2 /\ size' = size - 1 /\ since' = 0
          /\ data' = [Reallocated(capacity \div 2) EXCEPT ![size - 1] = Raw]
          /\ contents' = [k \in Block(size - 1) |-> contents[k]]
      <3>1. tryShrink = Reallocated(capacity \div 2)
        BY <1>1 DEF tryShrink
      <3> QED BY <1>1, <3>1 DEF PopBack
    <2>2. capacity = size * 4 /\ capacity \div 2 = size * 2 /\ 0 < size
      BY <1>1, Halves DEF Shrinks, PopBack, VectorInv, VectorNumbers
    <2>3. VectorNumbers' /\ HalfFullAfterReallocation'
      BY <2>1, <2>2, Halves
      DEF VectorInv, VectorNumbers, HalfFullAfterReallocation
    <2>4. VectorExact'
      BY <2>1, <2>2
      DEF VectorInv, VectorNumbers, VectorExact, Reallocated, Block
    <2> QED BY <2>3, <2>4 DEF VectorInv
  <1>2. CASE ~Shrinks
    <2>1. /\ capacity' = capacity /\ size' = size - 1 /\ since' = Longer
          /\ data' = [data EXCEPT ![size - 1] = Raw] /\ 0 < size
          /\ contents' = [k \in Block(size - 1) |-> contents[k]]
      <3>1. tryShrink = data
        BY <1>2 DEF tryShrink
      <3> QED BY <1>2, <3>1 DEF PopBack
    <2>2. VectorNumbers' /\ HalfFullAfterReallocation'
      BY <2>1, Halves DEF VectorInv, VectorNumbers, VectorExact, Longer,
                          HalfFullAfterReallocation
    <2>3. VectorExact'
      BY <2>1 DEF VectorInv, VectorNumbers, VectorExact, Block
    <2> QED BY <2>2, <2>3 DEF VectorInv
  <1> QED BY <1>1, <1>2

(* Every action of Vector keeps the invariant.                             *)
LEMMA NextKeepsVector ==
  ASSUME VectorAssumption, VectorInv, [Next]_vars PROVE VectorInv'
  <1>1. CASE Construct BY <1>1, ConstructKeepsVector
  <1>2. CASE PopBack BY <1>2, PopBackKeepsVector
  <1>3. CASE Destroy
    BY <1>3
    DEF Destroy, VectorAssumption, VectorInv, VectorNumbers, VectorExact,
        HalfFullAfterReallocation, Block, Fresh
  <1>4. ASSUME NEW v \in Values, PushBack(v) PROVE VectorInv'
    BY <1>4, PushBackKeepsVector
  <1>5. ASSUME NEW v \in Values, NEW k \in Block(size), Write(k, v)
        PROVE VectorInv'
    BY <1>5 DEF Write, VectorInv, VectorNumbers, VectorExact, Block,
                HalfFullAfterReallocation
  <1>6. CASE UNCHANGED vars
    BY <1>6 DEF vars, VectorInv, VectorNumbers, VectorExact, Block,
                HalfFullAfterReallocation
  <1> QED BY <1>1, <1>2, <1>3, <1>4, <1>5, <1>6 DEF Next

\* A reallocation finds the size a quarter of the capacity, at least, from
\* where the last one left it.
LEMMA NextReallocatesRarely ==
  ASSUME VectorAssumption, VectorInv, [Next]_vars PROVE ReallocatesRarely
  <1> SUFFICES ASSUME Reallocates
               PROVE  given' = capacity
                      /\ (capacity' # 0 => since >= capacity \div 4 - 1)
    BY DEF ReallocatesRarely
  <1>1. CASE Destroy BY <1>1 DEF Destroy
  <1>2. CASE PopBack
    <2>1. Shrinks /\ given' = capacity
      BY <1>2 DEF PopBack, Reallocates, ToldByShrink
    <2>2. capacity = size * 4 /\ capacity \div 4 = size
          /\ capacity \div 2 = size * 2
      BY <2>1, Halves DEF Shrinks, VectorInv, VectorNumbers
    <2> QED BY <2>1, <2>2
            DEF Shrinks, VectorInv, VectorNumbers, VectorAssumption,
                HalfFullAfterReallocation
  <1>3. ASSUME NEW v \in Values, PushBack(v)
        PROVE  given' = capacity
               /\ (capacity' # 0 => since >= capacity \div 4 - 1)
    <2>1. size = capacity /\ given' = capacity
      BY <1>3 DEF PushBack, Reallocates, ToldByExpand
    <2>2. capacity \div 4 <= capacity \div 2
      BY DEF VectorInv, VectorNumbers
    <2> QED BY <2>1, <2>2, Halves DEF VectorInv, VectorNumbers,
                                      HalfFullAfterReallocation
  <1> QED BY <1>1, <1>2, <1>3 DEF Next, vars, Construct, Write, Reallocates

\* Whatever is pushed, popped and written, the vector holds exactly what its
\* caller put into it.
THEOREM VectorIsExact == ASSUME VectorAssumption PROVE Spec => []VectorExact
  <1>1. VectorInv => VectorExact BY DEF VectorInv
  <1> QED BY VectorInit, NextKeepsVector, <1>1, PTL DEF Spec

\* Memory goes back whole, and reallocations are rare.
THEOREM VectorReallocatesRarely ==
  ASSUME VectorAssumption PROVE Spec => ReallocationsApart
  <1> QED BY VectorInit, NextKeepsVector, NextReallocatesRarely, PTL
          DEF Spec, ReallocationsApart
-----------------------------------------------------------------------------
(* Future *)

FutureTypeOK ==
  /\ futureData \in [Futures -> Internals \cup {nullptr, NoFuture}]
  /\ value \in [Internals -> Values \cup {NoValue}]
  /\ futurePc \in [Getters -> {"out", "wait", "woken"}]
  /\ on \in [Getters -> Futures]

\* A Future somebody is inside get on has a block, which is no other one's.
BlocksApart ==
  /\ \A t \in Getters : futurePc[t] # "out" => futureData[on[t]] \in Internals
  /\ \A f, g \in Futures :
       futureData[f] \in Internals /\ futureData[f] = futureData[g] => f = g

\* Nobody sleeps on a Future that has its value.
NoneSleepsOnValue ==
  \A t \in Getters : futurePc[t] = "wait" => value[futureData[on[t]]] = NoValue

FutureInv == FutureTypeOK /\ BlocksApart /\ NoneSleepsOnValue

(* The sentinels, and a place for a Future.                                *)
LEMMA FutureConstants ==
  /\ Futures # {} /\ nullptr # NoFuture
  /\ nullptr \notin Internals /\ NoFuture \notin Internals
  /\ NoValue \notin Values
  BY ComponentsAssumption DEF ComponentsAssumption, P!FutureAssumption

(* There is no Future yet.                                                 *)
LEMMA FutureInit == P!Init => FutureInv
  <1> SUFFICES ASSUME P!Init PROVE FutureInv
    OBVIOUS
  <1>1. Futures # {}
    BY FutureConstants
  <1>2. FutureTypeOK
    BY <1>1 DEF P!Init, FutureTypeOK
  <1> QED
    BY <1>2, FutureConstants
    DEF P!Init, FutureInv, BlocksApart, NoneSleepsOnValue

(* A Future gets a block that no other one has, and that is still empty    *)
(* for all who may wait.                                                   *)
LEMMA ConstructKeepsFuture ==
  ASSUME FutureInv, NEW f \in Futures, P!Construct(f) PROVE FutureInv'
  <1>1. PICK b \in Internals \ P!Used :
          /\ futureData[f] = NoFuture
          /\ futureData' = [futureData EXCEPT ![f] = b]
          /\ UNCHANGED <<value, futurePc, on, futureLeaked>>
    BY DEF P!Construct
  <1>2. FutureTypeOK'
    BY <1>1 DEF FutureInv, FutureTypeOK
  <1>3. \A g \in Futures : futureData[g] # b
    BY <1>1 DEF P!Used
  <1>4. \A t \in Getters : futurePc[t] # "out" => on[t] # f
    BY <1>1, FutureConstants DEF FutureInv, BlocksApart
  <1>5. BlocksApart'
    BY <1>1, <1>3, <1>4 DEF FutureInv, FutureTypeOK, BlocksApart
  <1>6. NoneSleepsOnValue'
    BY <1>1, <1>4 DEF FutureInv, FutureTypeOK, NoneSleepsOnValue
  <1> QED BY <1>2, <1>5, <1>6 DEF FutureInv

(* Nobody is inside get on the Future that is moved from.                  *)
LEMMA MoveKeepsFuture ==
  ASSUME FutureInv, NEW f \in Futures, NEW rhs \in Futures, P!Move(f, rhs)
  PROVE  FutureInv'
  <1> DEFINE b == futureData[rhs]
  <1>1. /\ futureData[f] = NoFuture /\ b # NoFuture /\ f # rhs
        /\ \A t \in Getters : futurePc[t] # "out" => on[t] # rhs
        /\ futureData' = [futureData EXCEPT ![f] = b, ![rhs] = nullptr]
        /\ UNCHANGED <<value, futurePc, on, futureLeaked>>
    BY DEF P!Move, P!Inside
  <1>2. FutureTypeOK'
    BY <1>1 DEF FutureInv, FutureTypeOK
  <1>3. \A t \in Getters : futurePc[t] # "out" => on[t] \notin {f, rhs}
    BY <1>1, FutureConstants DEF FutureInv, BlocksApart
  <1>4. BlocksApart'
    <2>1. \A t \in Getters :
            futurePc[t] # "out" => futureData'[on[t]] \in Internals
      BY <1>1, <1>3 DEF FutureInv, FutureTypeOK, BlocksApart
    <2>2. \A g, h \in Futures :
            futureData'[g] \in Internals /\ futureData'[g] = futureData'[h]
              => g = h
      BY <1>1, FutureConstants DEF FutureInv, FutureTypeOK, BlocksApart
    <2> QED BY <1>1, <2>1, <2>2 DEF BlocksApart
  <1>5. NoneSleepsOnValue'
    BY <1>1, <1>3 DEF FutureInv, FutureTypeOK, NoneSleepsOnValue
  <1> QED BY <1>2, <1>4, <1>5 DEF FutureInv

(* Nobody is inside get on the Future that is destroyed.                   *)
LEMMA DestroyKeepsFuture ==
  ASSUME FutureInv, NEW f \in Futures, P!Destroy(f) PROVE FutureInv'
  <1>1. /\ \A t \in Getters : futurePc[t] # "out" => on[t] # f
        /\ futureData' = [futureData EXCEPT ![f] = NoFuture]
        /\ UNCHANGED <<value, futurePc, on>>
    BY DEF P!Destroy, P!Inside
  <1>2. FutureTypeOK'
    BY <1>1 DEF FutureInv, FutureTypeOK
  <1>3. BlocksApart'
    BY <1>1, FutureConstants DEF FutureInv, FutureTypeOK, BlocksApart
  <1>4. NoneSleepsOnValue'
    BY <1>1 DEF FutureInv, FutureTypeOK, NoneSleepsOnValue
  <1> QED BY <1>2, <1>3, <1>4 DEF FutureInv

(* set wakes all who wait on the block it writes.                          *)
LEMMA SetKeepsFuture ==
  ASSUME FutureInv, NEW f \in Futures, NEW v \in Values, P!Set(f, v)
  PROVE  FutureInv'
  <1>1. /\ futureData[f] \in Internals
        /\ value' = [value EXCEPT ![futureData[f]] = v]
        /\ futurePc' = [t \in Getters |->
                          IF /\ futurePc[t] = "wait"
                             /\ futureData[on[t]] = futureData[f]
                          THEN "woken" ELSE futurePc[t]]
        /\ UNCHANGED <<futureData, on, futureLeaked>>
    BY DEF P!Set, P!Woken, P!Waiters
  <1>2. FutureTypeOK'
    BY <1>1 DEF FutureInv, FutureTypeOK
  <1>3. BlocksApart'
    BY <1>1 DEF FutureInv, FutureTypeOK, BlocksApart
  <1>4. NoneSleepsOnValue'
    BY <1>1 DEF FutureInv, FutureTypeOK, NoneSleepsOnValue
  <1> QED BY <1>2, <1>3, <1>4 DEF FutureInv

(* Who calls get or wakes up inside it leaves if the value is there.       *)
LEMMA GetKeepsFuture ==
  ASSUME FutureInv, NEW t \in Getters,
         (\E f \in Futures : P!get(t, f)) \/ P!Wake(t) \/ P!SpuriousWakeup(t)
  PROVE  FutureInv'
  <1>1. ASSUME NEW f \in Futures, P!get(t, f) PROVE FutureInv'
    BY <1>1
    DEF P!get, P!Checks, FutureInv, FutureTypeOK, BlocksApart,
        NoneSleepsOnValue
  <1>2. CASE P!Wake(t)
    BY <1>2
    DEF P!Wake, P!Checks, FutureInv, FutureTypeOK, BlocksApart,
        NoneSleepsOnValue
  <1>3. CASE P!SpuriousWakeup(t)
    BY <1>3
    DEF P!SpuriousWakeup, FutureInv, FutureTypeOK, BlocksApart,
        NoneSleepsOnValue
  <1> QED BY <1>1, <1>2, <1>3

(* Every action of Future keeps the invariant.                             *)
LEMMA FutureStep == FutureInv /\ [P!Next]_(P!vars) => FutureInv'
  <1> SUFFICES ASSUME FutureInv, [P!Next]_(P!vars) PROVE FutureInv'
    OBVIOUS
  <1>1. CASE P!Next
    BY <1>1, ConstructKeepsFuture, MoveKeepsFuture, DestroyKeepsFuture,
       SetKeepsFuture, GetKeepsFuture
    DEF P!Next
  <1>2. CASE UNCHANGED P!vars
    BY <1>2
    DEF P!vars, FutureInv, FutureTypeOK, BlocksApart, NoneSleepsOnValue
  <1> QED BY <1>1, <1>2

(* Future: set leaves nobody asleep, however the Future is moved about.    *)
THEOREM FutureWakesAll ==
  P!Init /\ [][P!Next]_(P!vars) => []NoneSleepsOnValue
  <1>1. FutureInv => NoneSleepsOnValue
    BY DEF FutureInv
  <1> QED BY FutureInit, FutureStep, <1>1, PTL
-----------------------------------------------------------------------------
(* SpinLock *)

InSection(t) == lockPc[t] # "loop"

SpinLockTypeOK ==
  /\ flag \in BOOLEAN
  /\ lockPc \in [Lockers -> {"loop", "load", "store", "unlock"}]
  /\ loaded = [t \in Lockers |-> loaded[t]]

\* One thread at most is between lock and unlock, and what it has loaded of
\* the counter is what the counter is when it stores: no increment is lost.
NoneOverwritten ==
  /\ \A t, u \in Lockers : InSection(t) /\ InSection(u) => t = u
  /\ \A t \in Lockers : lockPc[t] = "store" => loaded[t] = count

SpinLockInv ==
  /\ SpinLockTypeOK /\ NoneOverwritten
  /\ \A t \in Lockers : InSection(t) => flag

(* No thread has the lock.                                                 *)
LEMMA SpinLockInit == L!Init => SpinLockInv
  BY DEF L!Init, SpinLockInv, SpinLockTypeOK, NoneOverwritten, InSection

(* lock lets one in when nobody is, and only that one loads and stores.    *)
LEMMA SpinLockStep == SpinLockInv /\ [L!Next]_(L!vars) => SpinLockInv'
  <1> SUFFICES ASSUME SpinLockInv, [L!Next]_(L!vars) PROVE SpinLockInv'
    OBVIOUS
  <1> USE DEF SpinLockInv, SpinLockTypeOK, NoneOverwritten, InSection, L!Goto
  <1>1. ASSUME NEW t \in Lockers, L!Lock(t) PROVE SpinLockInv'
    BY <1>1 DEF L!Lock, L!WasClear
  <1>2. ASSUME NEW t \in Lockers, L!Load(t) PROVE SpinLockInv'
    BY <1>2 DEF L!Load
  <1>3. ASSUME NEW t \in Lockers, L!Store(t) PROVE SpinLockInv'
    BY <1>3 DEF L!Store
  <1>4. ASSUME NEW t \in Lockers, L!Unlock(t) PROVE SpinLockInv'
    BY <1>4 DEF L!Unlock
  <1>5. CASE UNCHANGED L!vars
    BY <1>5 DEF L!vars
  <1> QED BY <1>1, <1>2, <1>3, <1>4, <1>5 DEF L!Next, L!Step

(* SpinLock: however the threads of its test interleave, none stores an    *)
(* increment of a value that another one has changed meanwhile.            *)
THEOREM SpinLockExcludes ==
  L!Init /\ [][L!Next]_(L!vars) => []NoneOverwritten
  <1>1. SpinLockInv => NoneOverwritten
    BY DEF SpinLockInv
  <1> QED BY SpinLockInit, SpinLockStep, <1>1, PTL
-----------------------------------------------------------------------------
(* All of them *)

(* What has been initialised is each of the components.                    *)
LEMMA InitOfEach ==
  InitAll => /\ Q!Init /\ S!Init /\ U!Init /\ F!Init /\ A!Init /\ Init
             /\ H!Init /\ P!Init /\ L!Init /\ M!Init
  BY DEF InitAll

(* A step of Components is one of the component that runs, and the others  *)
(* stay as they are.                                                       *)
LEMMA StepOfEach ==
  [NextOfOne]_allVars =>
    /\ [Q!Next]_(Q!vars) /\ [S!Next]_(S!vars) /\ [U!Next]_(U!vars)
    /\ [F!Next]_(F!vars) /\ [A!Next]_(A!vars) /\ [Next]_vars
    /\ [H!Next]_(H!vars) /\ [P!Next]_(P!vars) /\ [L!Next]_(L!vars)
    /\ [M!Next]_(M!vars)
  <1> DEFINE Same ==
        /\ "Fifo" # part => UNCHANGED fifoVars
        /\ "SharedPtr" # part => UNCHANGED sharedVars
        /\ "UniquePtr" # part => UNCHANGED uniqueVars
        /\ "Function" # part => UNCHANGED functionVars
        /\ "Variant" # part => UNCHANGED variantVars
        /\ "Vector" # part => UNCHANGED vectorVars
        /\ "HashMap" # part => UNCHANGED hashMapVars
        /\ "Future" # part => UNCHANGED futureVars
        /\ "SpinLock" # part => UNCHANGED spinLockVars
        /\ "MatrixBenchmark" # part => UNCHANGED matrixVars
  <1>1. /\ UNCHANGED fifoVars <=> UNCHANGED Q!vars
        /\ UNCHANGED sharedVars <=> UNCHANGED S!vars
        /\ UNCHANGED uniqueVars <=> UNCHANGED U!vars
        /\ UNCHANGED functionVars <=> UNCHANGED F!vars
        /\ UNCHANGED variantVars <=> UNCHANGED A!vars
        /\ UNCHANGED vectorVars <=> UNCHANGED vars
        /\ UNCHANGED hashMapVars <=> UNCHANGED H!vars
        /\ UNCHANGED futureVars <=> UNCHANGED P!vars
        /\ UNCHANGED spinLockVars <=> UNCHANGED L!vars
        /\ UNCHANGED matrixVars <=> UNCHANGED M!vars
    BY DEF fifoVars, sharedVars, uniqueVars, functionVars, variantVars,
           vectorVars, hashMapVars, futureVars, spinLockVars, matrixVars,
           Q!vars, S!vars, U!vars, F!vars, A!vars, vars, H!vars, P!vars,
           L!vars, M!vars
  <1>2. ASSUME NEW p, Only(p) PROVE Same /\ part = p
    BY <1>2 DEF Only
  <1>3. UNCHANGED allVars => Same
    BY DEF allVars
  <1>4. NextOfOne \/ UNCHANGED allVars =>
          /\ Same
          /\ \/ UNCHANGED allVars
             \/ part = "Fifo" /\ Q!Next
             \/ part = "SharedPtr" /\ S!Next
             \/ part = "UniquePtr" /\ U!Next
             \/ part = "Function" /\ F!Next
             \/ part = "Variant" /\ A!Next
             \/ part = "Vector" /\ Next
             \/ part = "HashMap" /\ H!Next
             \/ part = "Future" /\ P!Next
             \/ part = "SpinLock" /\ L!Next
             \/ part = "MatrixBenchmark" /\ M!Next
    BY <1>2, <1>3 DEF NextOfOne
  <1> SUFFICES ASSUME NextOfOne \/ UNCHANGED allVars
      PROVE  /\ Q!Next \/ UNCHANGED fifoVars
             /\ S!Next \/ UNCHANGED sharedVars
             /\ U!Next \/ UNCHANGED uniqueVars
             /\ F!Next \/ UNCHANGED functionVars
             /\ A!Next \/ UNCHANGED variantVars
             /\ Next \/ UNCHANGED vectorVars
             /\ H!Next \/ UNCHANGED hashMapVars
             /\ P!Next \/ UNCHANGED futureVars
             /\ L!Next \/ UNCHANGED spinLockVars
             /\ M!Next \/ UNCHANGED matrixVars
    BY <1>1
  <1>5. CASE UNCHANGED allVars
    BY <1>5 DEF allVars
  <1>6. CASE ~ UNCHANGED allVars
    BY <1>4, <1>6
  <1> QED BY <1>5, <1>6

(* Every behaviour of Components is one of each component, and keeps what  *)
(* all of them promise.                                                    *)
THEOREM ComponentsAreExact ==
  FairSpec => /\ [](/\ RingExact /\ StreamIntact /\ SharedExactly
                    /\ OwnedOnce /\ FunctorsHeldOnce /\ VectorExact
                    /\ TableExact /\ FailsOnlyAtFirst
                    /\ NoneSleepsOnValue /\ NoneOverwritten)
              /\ ImplementsVariant /\ ReallocationsApart
  <1>1. VectorAssumption
    BY ComponentsAssumption DEF ComponentsAssumption
  <1>2. FairSpec => /\ Q!Spec /\ S!Spec /\ U!Spec /\ F!Spec /\ A!Spec /\ Spec
                    /\ H!Spec /\ M!Spec
                    /\ P!Init /\ [][P!Next]_(P!vars)
                    /\ L!Init /\ [][L!Next]_(L!vars)
    BY InitOfEach, StepOfEach, PTL
    DEF FairSpec, Q!Spec, S!Spec, U!Spec, F!Spec, A!Spec, Spec, H!Spec, M!Spec
  <1>3. (Spec => []VectorExact) /\ (Spec => ReallocationsApart)
    BY <1>1, VectorIsExact, VectorReallocatesRarely
  <1> QED
    BY <1>2, <1>3, FifoRingIsExact, FifoStreamIsIntact, SharedPtrIsExact,
       UniquePtrIsExact, FunctionIsExact, VariantImplements, HashMapIsExact,
       MatrixVerifies, FutureWakesAll, SpinLockExcludes, PTL
=============================================================================
