-------------------------- MODULE PageServer_proofs --------------------------
(***************************************************************************)
(* Every page the process has mapped is on its way to one thread, for any  *)
(* size of the chunks and of the queue and any number of threads: no       *)
(* munmap takes a page of a chunk that somebody has.                       *)
(***************************************************************************)
EXTENDS PageServer, SequenceTheorems, TLAPS

(* Division with remainder.                                                *)
LEMMA Division ==
  ASSUME NEW n \in Nat \ {0}, NEW k \in Int
  PROVE  /\ k \div n \in Int /\ k % n \in 0 .. n - 1
         /\ k = n * (k \div n) + (k % n)
  OBVIOUS

(* It is the only one.                                                     *)
LEMMA Remainder ==
  ASSUME NEW n \in Nat \ {0}, NEW k \in Int, NEW q \in Int,
         NEW c \in 0 .. n - 1, k = n * q + c
  PROVE  k % n = c
  <1> DEFINE p == k \div n
             d == k % n
  <1>1. p \in Int /\ d \in 0 .. n - 1 /\ k = n * p + d
    BY Division
  <1> HIDE DEF p, d
  <1>2. n * (q - p) = d - c
    BY <1>1
  <1>3. q - p = 0
    <2>1. ASSUME NEW m \in Int, n * m < n PROVE m < 1
      BY <2>1
    <2>2. ASSUME NEW m \in Int, n * m > 0 - n PROVE m > 0 - 1
      BY <2>2
    <2>3. n * (q - p) < n /\ n * (q - p) > 0 - n
      BY <1>1, <1>2
    <2>4. q - p \in Int
      BY <1>1
    <2> QED BY <2>1, <2>2, <2>3, <2>4
  <1>4. p = q
    BY <1>1, <1>3
  <1>5. d = c
    BY <1>1, <1>4
  <1> QED BY <1>5 DEF d
-----------------------------------------------------------------------------
(* Chunks *)

Whole(a) == PageRange(a, CHUNK_SIZE)

(* The constants are numbers, and there are no pages below two chunks.     *)
LEMMA Constants ==
  /\ CHUNK_SIZE \in Nat \ {0} /\ QUEUE_SIZE \in Nat \ {0}
  /\ Pages \subseteq Nat /\ nullptr \notin Pages
  /\ \A a \in Pages : a >= CHUNK_SIZE + CHUNK_SIZE
  /\ Daemon \in Threads
  BY ChunkAssumption, ServerAssumption DEF Pages, nullptr

(* Aligned chunks are the same or apart.                                   *)
LEMMA Apart ==
  ASSUME NEW a \in Pages, NEW b \in Pages,
         chunkOffset(a) = 0, chunkOffset(b) = 0, a # b
  PROVE  Whole(a) \cap Whole(b) = {}
  <1> DEFINE n == CHUNK_SIZE
             p == a \div n
             q == b \div n
  <1>1. n \in Nat \ {0} /\ a \in Nat /\ b \in Nat
    BY Constants
  <1>2. p \in Int /\ q \in Int /\ a = n * p /\ b = n * q
    <2>1. a = n * p + (a % n) /\ b = n * q + (b % n) /\ p \in Int /\ q \in Int
      BY <1>1, Division
    <2>2. a % n = 0 /\ b % n = 0
      BY DEF chunkOffset
    <2> HIDE DEF n, p, q
    <2>3. n * p \in Int /\ n * q \in Int
      BY <1>1, <2>1
    <2> QED BY <2>1, <2>2, <2>3
  <1> HIDE DEF n, p, q
  <1>3. ASSUME NEW m \in Int, n * m > 0 PROVE n * m >= n
    <2>1. m >= 1
      BY <1>1, <1>3
    <2> QED BY <1>1, <2>1
  <1>4. /\ q - p \in Int /\ n * (q - p) = b - a
        /\ p - q \in Int /\ n * (p - q) = a - b
    BY <1>1, <1>2
  <1>5. b - a > 0 => b - a >= n
    BY <1>3, <1>4
  <1>6. a - b > 0 => a - b >= n
    BY <1>3, <1>4
  <1>7. b >= a + n \/ a >= b + n
    BY <1>1, <1>5, <1>6
  <1> QED BY <1>1, <1>7 DEF Whole, PageRange, n

(* A chunk begins with its first page.                                     *)
LEMMA FirstPage ==
  ASSUME NEW a \in Pages PROVE a \in Whole(a)
  BY Constants DEF Whole, PageRange

(* What allocateAlignedChunkSlow trims: behind the head an aligned chunk   *)
(* begins, with the tail behind it.                                        *)
LEMMA Trimmed ==
  ASSUME NEW a \in Pages
  PROVE  LET n == CHUNK_SIZE
             h == n - chunkOffset(a)
         IN  /\ chunkOffset(a) \in 0 .. n - 1 /\ chunkOffset(a + h) = 0
             /\ a + h \in Nat /\ a + h \in PageRange(a, n + n)
             /\ PageRange(a, h) \subseteq PageRange(a, n + n)
             /\ PageRange(a, n + n) \ PageRange(a, h) =
                  PageRange(a + h, n + chunkOffset(a))
             /\ PageRange(a, n + n) \ PageRange(a + n, n) = Whole(a)
             /\ PageRange(a + n, n) \subseteq PageRange(a, n + n)
  <1> DEFINE n == CHUNK_SIZE
             p == a \div n
             o == a % n
             h == n - o
  <1>1. n \in Nat \ {0} /\ a \in Nat
    BY Constants
  <1>2. p \in Int /\ o \in 0 .. n - 1 /\ a = n * p + o
    BY <1>1, Division
  <1>3. chunkOffset(a) = o
    BY DEF chunkOffset
  <1> HIDE DEF p, o, n
  <1>4. h \in 1 .. n /\ a + h \in Nat
    BY <1>1, <1>2
  <1>5. (a + h) % n = 0
    <2>1. a + h = n * (p + 1) + 0 /\ p + 1 \in Int /\ 0 \in 0 .. n - 1
      BY <1>1, <1>2
    <2>2. a + h \in Int
      BY <1>4
    <2> HIDE DEF h
    <2> QED BY <1>1, <2>1, <2>2, Remainder
  <1>6. chunkOffset(a + h) = 0
    BY <1>5 DEF chunkOffset, n
  <1>7. /\ a + h \in PageRange(a, n + n)
        /\ PageRange(a, h) \subseteq PageRange(a, n + n)
        /\ PageRange(a, n + n) \ PageRange(a, h) = PageRange(a + h, n + o)
        /\ PageRange(a, n + n) \ PageRange(a + n, n) = PageRange(a, n)
        /\ PageRange(a + n, n) \subseteq PageRange(a, n + n)
    <2>1. /\ a + h \in PageRange(a, n + n)
          /\ PageRange(a, h) \subseteq PageRange(a, n + n)
          /\ PageRange(a + n, n) \subseteq PageRange(a, n + n)
      BY <1>1, <1>2, <1>4 DEF PageRange
    <2>2. (a + h) + (n + o) = a + (n + n)
      BY <1>1, <1>2
    <2>3. PageRange(a, n + n) \ PageRange(a, h) = PageRange(a + h, n + o)
      BY <1>1, <1>2, <1>4, <2>2 DEF PageRange
    <2>4. PageRange(a, n + n) \ PageRange(a + n, n) = PageRange(a, n)
      BY <1>1 DEF PageRange
    <2> QED BY <2>1, <2>3, <2>4
  <1> QED BY <1>2, <1>3, <1>4, <1>6, <1>7 DEF n, Whole
-----------------------------------------------------------------------------
(* The mapped pages, the chunks and what is in flight *)

\* The pages m are those of the chunks cs and of the mappings fl that the
\* threads are at, which overlap nowhere.
Exact(m, cs, fl) ==
  /\ \A a \in cs : a \in Pages /\ chunkOffset(a) = 0
  /\ m = (UNION {Whole(a) : a \in cs}) \cup (UNION {fl[t] : t \in Threads})
  /\ \A t \in Threads, a \in cs : fl[t] \cap Whole(a) = {}
  /\ \A t, u \in Threads : t # u => fl[t] \cap fl[u] = {}

\* The same, page by page.
Spread(m, cs, fl) ==
  /\ \A a \in cs : a \in Pages /\ chunkOffset(a) = 0
  /\ \A x : x \in m <=> \/ \E a \in cs : x \in Whole(a)
                       \/ \E t \in Threads : x \in fl[t]
  /\ \A t \in Threads, a \in cs : \A x \in fl[t] : x \notin Whole(a)
  /\ \A t, u \in Threads : t # u => \A x \in fl[t] : x \notin fl[u]

(* It is the same.                                                         *)
LEMMA PageByPage ==
  ASSUME NEW m, NEW cs, NEW fl PROVE Exact(m, cs, fl) <=> Spread(m, cs, fl)
  <1> DEFINE all == (UNION {Whole(a) : a \in cs})
                      \cup (UNION {fl[t] : t \in Threads})
  <1>1. \A x : x \in all <=> \/ \E a \in cs : x \in Whole(a)
                           \/ \E t \in Threads : x \in fl[t]
    OBVIOUS
  <1>2. m = all <=> \A x : x \in m <=> x \in all
    <2>1. ASSUME \A x : x \in m <=> x \in all PROVE m = all
      <3> HIDE DEF all
      <3>1. m \subseteq all /\ all \subseteq m
        BY <2>1
      <3> QED BY <3>1
    <2> QED BY <2>1
  <1> HIDE DEF all
  <1>3. m = all <=> \A x : x \in m <=> \/ \E a \in cs : x \in Whole(a)
                                    \/ \E t \in Threads : x \in fl[t]
    BY <1>1, <1>2
  <1>4. \A t \in Threads, a \in cs :
          fl[t] \cap Whole(a) = {} <=> \A x \in fl[t] : x \notin Whole(a)
    OBVIOUS
  <1>5. \A t, u \in Threads :
          fl[t] \cap fl[u] = {} <=> \A x \in fl[t] : x \notin fl[u]
    OBVIOUS
  <1> QED BY <1>3, <1>4, <1>5 DEF Exact, Spread, all

(* A thread maps pages, which are free.                                    *)
LEMMA FlightMapped ==
  ASSUME NEW m, NEW cs, NEW fl, fl = [t \in Threads |-> fl[t]],
         Exact(m, cs, fl), NEW t \in Threads, fl[t] = {},
         NEW r, r \cap m = {}
  PROVE  Exact(m \cup r, cs, [fl EXCEPT ![t] = r])
  <1> DEFINE g == [fl EXCEPT ![t] = r]
  <1>1. \A u \in Threads : g[u] = IF u = t THEN r ELSE fl[u]
    OBVIOUS
  <1> HIDE DEF g
  <1>2. Spread(m, cs, fl) /\ \A x \in r : x \notin m
    BY PageByPage
  <1>3. Spread(m \cup r, cs, g)
    BY <1>1, <1>2 DEF Spread
  <1> QED BY <1>3, PageByPage DEF g

(* A thread unmaps pages of its mapping.                                   *)
LEMMA FlightUnmapped ==
  ASSUME NEW m, NEW cs, NEW fl, fl = [t \in Threads |-> fl[t]],
         Exact(m, cs, fl), NEW t \in Threads, NEW r, r \subseteq fl[t]
  PROVE  Exact(m \ r, cs, [fl EXCEPT ![t] = fl[t] \ r])
  <1> DEFINE g == [fl EXCEPT ![t] = fl[t] \ r]
  <1>1. \A u \in Threads : g[u] = IF u = t THEN fl[t] \ r ELSE fl[u]
    OBVIOUS
  <1> HIDE DEF g
  <1>2. Spread(m, cs, fl) /\ \A x \in r : x \in fl[t]
    BY PageByPage
  <1>3. Spread(m \ r, cs, g)
    BY <1>1, <1>2 DEF Spread
  <1> QED BY <1>3, PageByPage DEF g

(* A mapping that is trimmed to a chunk becomes one.                       *)
LEMMA FlightLands ==
  ASSUME NEW m, NEW cs, NEW fl, fl = [t \in Threads |-> fl[t]],
         Exact(m, cs, fl), NEW t \in Threads,
         NEW a \in Pages, chunkOffset(a) = 0, fl[t] = Whole(a)
  PROVE  a \notin cs /\ Exact(m, cs \cup {a}, [fl EXCEPT ![t] = {}])
  <1> DEFINE g == [fl EXCEPT ![t] = {}]
  <1>1. \A u \in Threads : g[u] = IF u = t THEN {} ELSE fl[u]
    OBVIOUS
  <1> HIDE DEF g
  <1>2. Spread(m, cs, fl) /\ a \in fl[t]
    BY PageByPage, FirstPage
  <1>3. a \notin cs
    BY <1>2 DEF Spread
  <1>4. Spread(m, cs \cup {a}, g)
    BY <1>1, <1>2 DEF Spread
  <1> QED BY <1>3, <1>4, PageByPage DEF g

(* mmap returns a chunk.                                                   *)
LEMMA ChunkMapped ==
  ASSUME NEW m, NEW cs, NEW fl, Exact(m, cs, fl),
         NEW a \in Pages, chunkOffset(a) = 0, Whole(a) \cap m = {}
  PROVE  a \notin cs /\ Exact(m \cup Whole(a), cs \cup {a}, fl)
  <1>1. /\ Spread(m, cs, fl) /\ a \in Whole(a)
        /\ \A x \in Whole(a) : x \notin m
    BY PageByPage, FirstPage
  <1>2. a \notin cs
    BY <1>1 DEF Spread
  <1>3. Spread(m \cup Whole(a), cs \cup {a}, fl)
    BY <1>1 DEF Spread
  <1> QED BY <1>2, <1>3, PageByPage

(* munmap takes back a chunk.                                              *)
LEMMA ChunkUnmapped ==
  ASSUME NEW m, NEW cs, NEW fl, Exact(m, cs, fl), NEW a \in cs
  PROVE  Exact(m \ Whole(a), cs \ {a}, fl)
  <1>1. Spread(m, cs, fl)
    BY PageByPage
  <1>2. \A b \in cs \ {a} : \A x \in Whole(b) : x \notin Whole(a)
    <2> SUFFICES ASSUME NEW b \in cs \ {a}
                 PROVE  \A x \in Whole(b) : x \notin Whole(a)
      OBVIOUS
    <2>1. Whole(b) \cap Whole(a) = {}
      BY <1>1, Apart DEF Spread
    <2> QED BY <2>1
  <1>3. Spread(m \ Whole(a), cs \ {a}, fl)
    BY <1>1, <1>2 DEF Spread
  <1> QED BY <1>3, PageByPage
-----------------------------------------------------------------------------
(* The queue *)

OnRing == {pushed[i] : i \in 1 .. Len(pushed)} \ {nullptr}

\* No chunk is in the queue twice.
RingOnce ==
  \A i, j \in 1 .. Len(pushed) :
    pushed[i] = pushed[j] /\ pushed[i] # nullptr => i = j

RingTypeOK ==
  /\ buffer \in [Slots -> Pages \cup {nullptr}]
  /\ begin \in Slots /\ end \in Slots
  /\ pushed \in Seq(Pages \cup {nullptr})

RingInv == RingTypeOK /\ RingInOrder /\ RingOnce

\* The slots are counted around.
SlotOf(x) == IF x < QUEUE_SIZE THEN x ELSE x - QUEUE_SIZE

(* Counting goes round once at most.                                       *)
LEMMA Around ==
  ASSUME NEW x \in Nat, x < QUEUE_SIZE + QUEUE_SIZE
  PROVE  x % QUEUE_SIZE = SlotOf(x)
  <1> DEFINE n == QUEUE_SIZE
  <1>1. n \in Nat \ {0}
    BY Constants
  <1> HIDE DEF n
  <1>2. x < n => x % n = x
    BY <1>1
  <1>3. CASE x >= n
    <2>1. x - n \in 0 .. n - 1 /\ x = n * 1 + (x - n) /\ x \in Int /\ 1 \in Int
      BY <1>1, <1>3 DEF n
    <2>2. x % n = x - n
      BY <1>1, <2>1, Remainder
    <2> QED BY <1>1, <1>3, <2>2 DEF n, SlotOf
  <1> QED BY <1>1, <1>2, <1>3 DEF n, SlotOf

(* The slots between begin and end hold what was pushed.                   *)
LEMMA RingHolds ==
  ASSUME RingInv
  PROVE  /\ size \in 0 .. QUEUE_SIZE /\ size = Len(pushed)
         /\ begin \in 0 .. QUEUE_SIZE - 1 /\ end = SlotOf(begin + size)
         /\ \A i \in 1 .. size : buffer[SlotOf(begin + i - 1)] = pushed[i]
         /\ size # 0 => buffer[begin] = pushed[1]
         /\ Queued = OnRing
  <1>1. /\ size \in 0 .. QUEUE_SIZE /\ size = Len(pushed)
        /\ begin \in 0 .. QUEUE_SIZE - 1 /\ QUEUE_SIZE \in Nat \ {0}
    <2>1. Len(pushed) \in Nat
      BY DEF RingInv, RingTypeOK
    <2> QED BY <2>1, Constants DEF RingInv, RingInOrder, RingTypeOK, Slots
  <1>2. end = SlotOf(begin + size)
    <2>1. begin + size \in Nat /\ begin + size < QUEUE_SIZE + QUEUE_SIZE
      BY <1>1
    <2>2. (begin + size) % QUEUE_SIZE = SlotOf(begin + size)
      BY <2>1, Around
    <2> QED BY <2>2 DEF RingInv, RingInOrder
  <1>3. ASSUME NEW i \in 1 .. size
        PROVE  buffer[SlotOf(begin + i - 1)] = pushed[i]
    <2>1. begin + i - 1 \in Nat /\ begin + i - 1 < QUEUE_SIZE + QUEUE_SIZE
      BY <1>1
    <2>2. (begin + i - 1) % QUEUE_SIZE = SlotOf(begin + i - 1)
      BY <2>1, Around
    <2> QED BY <2>2 DEF RingInv, RingInOrder
  <1>4. size # 0 => buffer[begin] = pushed[1]
    <2> SUFFICES ASSUME size # 0 PROVE buffer[begin] = pushed[1]
      OBVIOUS
    <2>1. 1 \in 1 .. size /\ begin + 1 - 1 = begin /\ begin < QUEUE_SIZE
      BY <1>1
    <2>2. SlotOf(begin + 1 - 1) = begin
      BY <2>1 DEF SlotOf
    <2> QED BY <1>3, <2>1, <2>2
  <1>5. ASSUME NEW i \in 0 .. size - 1
        PROVE  buffer[(begin + i) % QUEUE_SIZE] = pushed[i + 1]
    <2>1. i + 1 \in 1 .. size /\ begin + (i + 1) - 1 = begin + i
      BY <1>1
    <2>2. buffer[(begin + (i + 1) - 1) % QUEUE_SIZE] = pushed[i + 1]
      BY <2>1 DEF RingInv, RingInOrder
    <2> QED BY <2>1, <2>2
  <1>6. Queued = OnRing
    <2>1. \A i \in 0 .. size - 1 : i + 1 \in 1 .. Len(pushed)
      BY <1>1
    <2>2. ASSUME NEW i \in 1 .. Len(pushed)
          PROVE  \E j \in 0 .. size - 1 :
                   pushed[i] = buffer[(begin + j) % QUEUE_SIZE]
      <3>1. i - 1 \in 0 .. size - 1 /\ (i - 1) + 1 = i
        BY <1>1
      <3> QED BY <1>5, <3>1
    <2> QED BY <1>5, <2>1, <2>2 DEF Queued, OnRing
  <1> QED BY <1>1, <1>2, <1>3, <1>4, <1>6

(* The chunks in the queue are those that were pushed and not popped.      *)
LEMMA RingQueued == RingInv => Queued = OnRing
  BY RingHolds

(* push puts a chunk that is not there, or a nullptr, behind the others.   *)
LEMMA PushKeepsRing ==
  ASSUME RingInv, NEW a \in Pages \cup {nullptr}, a \notin OnRing, push(a)
  PROVE  RingInv' /\ Queued' = Queued \cup ({a} \ {nullptr})
  <1> DEFINE n == QUEUE_SIZE
  <1>1. /\ size \in 0 .. n /\ size = Len(pushed) /\ begin \in 0 .. n - 1
        /\ end = SlotOf(begin + size)
        /\ \A i \in 1 .. size : buffer[SlotOf(begin + i - 1)] = pushed[i]
        /\ Queued = OnRing
    BY RingHolds
  <1>2. /\ size < n /\ n \in Nat \ {0} /\ size' = size + 1
        /\ buffer' = [buffer EXCEPT ![end] = a] /\ begin' = begin
        /\ end' = IF end + 1 = n THEN 0 ELSE end + 1
    BY <1>1, Constants DEF push, HasRoom, NextSlot
  <1>3. /\ pushed' \in Seq(Pages \cup {nullptr}) /\ Len(pushed') = size + 1
        /\ \A i \in 1 .. size : pushed'[i] = pushed[i]
        /\ pushed'[size + 1] = a
    BY <1>1 DEF push, RingInv, RingTypeOK
  <1>4. RingTypeOK'
    <2>1. end' \in Slots
      BY <1>1, <1>2 DEF RingInv, RingTypeOK, Slots
    <2> QED BY <1>2, <1>3, <2>1 DEF RingInv, RingTypeOK
  <1>5. end' = SlotOf(begin + (size + 1))
    BY <1>1, <1>2 DEF SlotOf
  <1>6. ASSUME NEW i \in 1 .. size + 1
        PROVE  buffer'[SlotOf(begin + i - 1)] = pushed'[i]
    <2> DEFINE s == SlotOf(begin + i - 1)
    <2>1. s \in Slots
      BY <1>1, <1>2 DEF Slots, SlotOf
    <2>2. CASE i = size + 1
      <3>1. s = end
        BY <1>1, <1>2, <2>2
      <3> QED BY <1>2, <1>3, <2>1, <2>2, <3>1 DEF RingInv, RingTypeOK
    <2>3. CASE i # size + 1
      <3>1. s # end /\ i \in 1 .. size
        BY <1>1, <1>2, <2>3 DEF SlotOf
      <3>2. buffer[s] = pushed[i]
        BY <1>1, <3>1
      <3> HIDE DEF s
      <3>3. buffer'[s] = buffer[s]
        BY <1>2, <2>1, <3>1 DEF RingInv, RingTypeOK
      <3> QED BY <1>3, <3>1, <3>2, <3>3 DEF s
    <2> QED BY <2>2, <2>3
  <1>7. RingInOrder'
    <2>1. size' = Len(pushed') /\ size' <= n
      BY <1>1, <1>2, <1>3
    <2>2. end' = (begin' + size') % QUEUE_SIZE
      <3>1. begin + (size + 1) \in Nat /\ begin + (size + 1) < n + n
        BY <1>1, <1>2
      <3>2. (begin + (size + 1)) % QUEUE_SIZE = SlotOf(begin + (size + 1))
        BY <3>1, Around
      <3> QED BY <1>2, <1>5, <3>2
    <2>3. ASSUME NEW i \in 1 .. size'
          PROVE  buffer'[(begin' + i - 1) % QUEUE_SIZE] = pushed'[i]
      <3>1. /\ i \in 1 .. size + 1
            /\ begin + i - 1 \in Nat /\ begin + i - 1 < n + n
        BY <1>1, <1>2
      <3>2. (begin + i - 1) % QUEUE_SIZE = SlotOf(begin + i - 1)
        BY <3>1, Around
      <3> QED BY <1>2, <1>6, <3>1, <3>2
    <2> QED BY <2>1, <2>2, <2>3 DEF RingInOrder
  <1>8. RingOnce'
    <2>1. \A i \in 1 .. size : pushed[i] = a => a = nullptr
      BY <1>1 DEF OnRing
    <2>2. \A i \in 1 .. Len(pushed') : i \in 1 .. size \/ i = size + 1
      BY <1>1, <1>3
    <2>3. \A i, j \in 1 .. size :
            pushed[i] = pushed[j] /\ pushed[i] # nullptr => i = j
      BY <1>1 DEF RingInv, RingOnce
    <2> QED BY <1>3, <2>1, <2>2, <2>3 DEF RingOnce
  <1>9. OnRing' = OnRing \cup ({a} \ {nullptr})
    <2>1. \A i \in 1 .. Len(pushed') : i \in 1 .. size \/ i = size + 1
      BY <1>1, <1>3
    <2>2. \A i \in 1 .. size : i \in 1 .. Len(pushed')
      BY <1>1, <1>3
    <2>3. size + 1 \in 1 .. Len(pushed')
      BY <1>1, <1>3
    <2> QED BY <1>1, <1>3, <2>1, <2>2, <2>3 DEF OnRing
  <1>10. RingInv'
    BY <1>4, <1>7, <1>8 DEF RingInv
  <1>11. Queued' = OnRing'
    <2>1. (RingInv => Queued = OnRing)'
      BY RingQueued, PTL
    <2> QED BY <1>10, <2>1
  <1> QED BY <1>1, <1>9, <1>10, <1>11

(* pop takes the first away.                                               *)
LEMMA PopKeepsRing ==
  ASSUME RingInv, pop
  PROVE  /\ RingInv' /\ Queued' = Queued \ {buffer[begin]}
         /\ buffer[begin] \in Queued \cup {nullptr}
  <1> DEFINE n == QUEUE_SIZE
  <1>1. /\ size \in 0 .. n /\ size = Len(pushed) /\ begin \in 0 .. n - 1
        /\ end = SlotOf(begin + size)
        /\ \A i \in 1 .. size : buffer[SlotOf(begin + i - 1)] = pushed[i]
        /\ size # 0 /\ buffer[begin] = pushed[1]
        /\ Queued = OnRing
    BY RingHolds DEF pop
  <1>2. /\ size' = size - 1 /\ buffer' = buffer /\ end' = end
        /\ begin' = IF begin + 1 = n THEN 0 ELSE begin + 1
        /\ n \in Nat \ {0}
    BY Constants DEF pop, NextSlot
  <1>3. /\ pushed' \in Seq(Pages \cup {nullptr}) /\ Len(pushed') = size - 1
        /\ \A i \in 1 .. size - 1 : pushed'[i] = pushed[i + 1]
    BY <1>1 DEF pop, RingInv, RingTypeOK
  <1>4. RingTypeOK'
    <2>1. begin' \in Slots
      BY <1>1, <1>2 DEF Slots
    <2> QED BY <1>2, <1>3, <2>1 DEF RingInv, RingTypeOK
  <1>5. begin' \in 0 .. n - 1 /\ end' = SlotOf(begin' + (size - 1))
    BY <1>1, <1>2 DEF SlotOf
  <1>6. ASSUME NEW i \in 1 .. size - 1
        PROVE  buffer'[SlotOf(begin' + i - 1)] = pushed'[i]
    <2>1. /\ i + 1 \in 1 .. size
          /\ SlotOf(begin' + i - 1) = SlotOf(begin + (i + 1) - 1)
      BY <1>1, <1>2 DEF SlotOf
    <2>2. buffer[SlotOf(begin + (i + 1) - 1)] = pushed[i + 1]
      BY <1>1, <2>1
    <2> QED BY <1>2, <1>3, <2>1, <2>2
  <1>7. RingInOrder'
    <2>1. size' = Len(pushed') /\ size' <= n
      BY <1>1, <1>2, <1>3
    <2>2. end' = (begin' + size') % QUEUE_SIZE
      <3>1. begin' + (size - 1) \in Nat /\ begin' + (size - 1) < n + n
        BY <1>1, <1>2, <1>5
      <3>2. (begin' + (size - 1)) % QUEUE_SIZE = SlotOf(begin' + (size - 1))
        BY <3>1, Around
      <3> QED BY <1>2, <1>5, <3>2
    <2>3. ASSUME NEW i \in 1 .. size'
          PROVE  buffer'[(begin' + i - 1) % QUEUE_SIZE] = pushed'[i]
      <3>1. /\ i \in 1 .. size - 1
            /\ begin' + i - 1 \in Nat /\ begin' + i - 1 < n + n
        BY <1>1, <1>2, <1>5
      <3>2. (begin' + i - 1) % QUEUE_SIZE = SlotOf(begin' + i - 1)
        BY <3>1, Around
      <3> QED BY <1>6, <3>1, <3>2
    <2> QED BY <2>1, <2>2, <2>3 DEF RingInOrder
  <1>8. /\ 1 \in 1 .. Len(pushed)
        /\ \A i \in 1 .. size - 1 : i + 1 \in 1 .. Len(pushed) /\ i + 1 # 1
        /\ \A i \in 1 .. Len(pushed) : i # 1 =>
             i - 1 \in 1 .. size - 1 /\ (i - 1) + 1 = i
    BY <1>1
  <1>9. \A i, j \in 1 .. Len(pushed) :
          pushed[i] = pushed[j] /\ pushed[i] # nullptr => i = j
    BY DEF RingInv, RingOnce
  <1>10. RingOnce'
    <2>1. ASSUME NEW i \in 1 .. size - 1, NEW j \in 1 .. size - 1,
                 pushed'[i] = pushed'[j], pushed'[i] # nullptr
          PROVE  i = j
      <3>1. i + 1 = j + 1
        BY <1>3, <1>8, <1>9, <2>1
      <3> QED BY <3>1
    <2> QED BY <1>3, <2>1 DEF RingOnce
  <1>11. OnRing' = OnRing \ {pushed[1]}
    <2>1. \A x : x \in OnRing <=>
            x # nullptr /\ \E i \in 1 .. Len(pushed) : x = pushed[i]
      BY DEF OnRing
    <2>2. \A x : x \in OnRing' <=>
            x # nullptr /\ \E i \in 1 .. size - 1 : x = pushed[i + 1]
      BY <1>3 DEF OnRing
    <2>3. ASSUME NEW x \in OnRing' PROVE x \in OnRing /\ x # pushed[1]
      <3>1. PICK i \in 1 .. size - 1 : x = pushed[i + 1] /\ x # nullptr
        BY <2>2
      <3> QED BY <1>8, <1>9, <2>1, <3>1
    <2>4. ASSUME NEW x \in OnRing, x # pushed[1] PROVE x \in OnRing'
      <3>1. PICK i \in 1 .. Len(pushed) : x = pushed[i] /\ x # nullptr
        BY <2>1
      <3>2. i - 1 \in 1 .. size - 1 /\ x = pushed[(i - 1) + 1]
        BY <1>8, <2>4, <3>1
      <3> QED BY <2>2, <3>1, <3>2
    <2> QED BY <2>3, <2>4
  <1>12. pushed[1] \in OnRing \cup {nullptr}
    BY <1>8 DEF OnRing
  <1>13. RingInv'
    BY <1>4, <1>7, <1>10 DEF RingInv
  <1>14. Queued' = OnRing'
    <2>1. (RingInv => Queued = OnRing)'
      BY RingQueued, PTL
    <2> QED BY <1>13, <2>1
  <1> QED BY <1>1, <1>11, <1>12, <1>13, <1>14
-----------------------------------------------------------------------------
(* The inductive invariant *)

PagesTypeOK ==
  /\ mapped \subseteq Pages
  /\ held \in [Threads -> SUBSET Pages]
  /\ pc \in [Threads -> {"idle", "map", "unmap", "slow", "trim", "tail",
                         "failed"}]
  /\ addr \in [Threads -> Nat]
  /\ offset \in [Threads -> Nat]

\* addr is a page while something is mapped there, and behind the head of
\* what was mapped a chunk begins.
LocalsOK ==
  \A t \in Threads :
    /\ pc[t] \in {"unmap", "trim", "tail"} => addr[t] \in Pages
    /\ pc[t] = "tail" => chunkOffset(addr[t]) = 0

\* A chunk is in one place.
Placed ==
  /\ \A t, u \in Threads : t # u => held[t] \cap held[u] = {}
  /\ \A t \in Threads : held[t] \cap Queued = {}

\* The daemon has the chunk it is about to push, and no other.
DaemonOK ==
  /\ \A a, b \in held[Daemon] : a = b
  /\ pc[Daemon] # "idle" => held[Daemon] = {}

Flights == [t \in Threads |-> InFlight(t)]

PagesInv ==
  /\ PagesTypeOK /\ LocalsOK /\ Placed /\ DaemonOK /\ RingInv
  /\ Exact(mapped, Chunks, Flights)

(* The property is part of it.                                             *)
LEMMA PagesPromise == PagesInv => PagesExact
  <1> SUFFICES ASSUME PagesInv PROVE PagesExact
    OBVIOUS
  <1>1. \A t \in Threads : Flights[t] = InFlight(t)
    BY DEF Flights
  <1>2. (UNION {Flights[t] : t \in Threads})
          = (UNION {InFlight(t) : t \in Threads})
    BY <1>1
  <1>3. mapped = (UNION {PageRange(a, CHUNK_SIZE) : a \in Chunks})
                   \cup (UNION {InFlight(t) : t \in Threads})
    BY <1>2 DEF PagesInv, Exact, Whole
  <1>4. /\ \A a \in Chunks : chunkOffset(a) = 0
        /\ \A t \in Threads : \A a \in Chunks :
             InFlight(t) \cap PageRange(a, CHUNK_SIZE) = {}
        /\ \A t \in Threads : \A u \in Threads \ {t} :
             InFlight(t) \cap InFlight(u) = {}
    BY <1>1 DEF PagesInv, Exact, Whole
  <1>5. ChunksExact
    BY <1>3, <1>4 DEF ChunksExact, PagesInv, Placed
  <1> QED BY <1>5 DEF PagesExact, PagesInv, RingInv

(* What a thread has mapped shows in where it is.                          *)
LEMMA FlightOf ==
  ASSUME NEW t \in Threads
  PROVE  /\ pc[t] = "unmap" => InFlight(t) = Whole(addr[t])
         /\ pc[t] = "trim" =>
              InFlight(t) = PageRange(addr[t], CHUNK_SIZE + CHUNK_SIZE)
         /\ pc[t] = "tail" =>
              InFlight(t) = PageRange(addr[t], CHUNK_SIZE + offset[t])
         /\ pc[t] \in {"idle", "map", "slow", "failed"} => InFlight(t) = {}
         /\ pc'[t] = "unmap" => InFlight(t)' = Whole(addr'[t])
         /\ pc'[t] = "trim" =>
              InFlight(t)' = PageRange(addr'[t], CHUNK_SIZE + CHUNK_SIZE)
         /\ pc'[t] = "tail" =>
              InFlight(t)' = PageRange(addr'[t], CHUNK_SIZE + offset'[t])
         /\ pc'[t] \in {"idle", "map", "slow", "failed"} => InFlight(t)' = {}
  BY DEF InFlight, Whole

(* The step of a thread changes what this thread has mapped.               *)
LEMMA FlightsAfter ==
  ASSUME NEW t \in Threads, NEW r, InFlight(t)' = r,
         \A u \in Threads \ {t} :
           pc'[u] = pc[u] /\ addr'[u] = addr[u] /\ offset'[u] = offset[u]
  PROVE  /\ Flights' = [Flights EXCEPT ![t] = r]
         /\ Flights = [u \in Threads |-> Flights[u]]
         /\ Flights[t] = InFlight(t)
         /\ InFlight(t) = r => Flights' = Flights
  <1>1. \A u \in Threads \ {t} : InFlight(u)' = InFlight(u)
    BY DEF InFlight
  <1>2. \A u \in Threads : InFlight(u)' = IF u = t THEN r ELSE InFlight(u)
    BY <1>1
  <1>3. /\ Flights' = [u \in Threads |-> InFlight(u)']
        /\ Flights = [u \in Threads |-> InFlight(u)]
    BY DEF Flights
  <1>4. Flights' = [u \in Threads |-> IF u = t THEN r ELSE InFlight(u)]
    BY <1>2, <1>3
  <1> QED BY <1>3, <1>4

(* Every chunk stays where it is.                                          *)
LEMMA HeldKept ==
  ASSUME PagesInv, held' = held, UNCHANGED queueVars,
         pc'[Daemon] = pc[Daemon] \/ held[Daemon] = {}
  PROVE  /\ Chunks' = Chunks /\ Placed' /\ RingInv' /\ DaemonOK'
         /\ held' \in [Threads -> SUBSET Pages]
  <1>1. Queued' = Queued
    BY DEF Queued, queueVars
  <1>2. Chunks' = Chunks /\ Placed'
    BY <1>1 DEF Chunks, Placed, PagesInv
  <1>3. RingInv'
    BY DEF PagesInv, RingInv, RingTypeOK, RingInOrder, RingOnce, queueVars
  <1>4. DaemonOK'
    BY DEF PagesInv, DaemonOK
  <1> QED BY <1>2, <1>3, <1>4 DEF PagesInv, PagesTypeOK

(* A thread gets a chunk that was nowhere.                                 *)
LEMMA HeldGiven ==
  ASSUME PagesInv, NEW t \in Threads, NEW a \in Pages, a \notin Chunks,
         held' = [held EXCEPT ![t] = @ \cup {a}], UNCHANGED queueVars,
         pc' = [pc EXCEPT ![t] = "idle"], pc[t] # "idle"
  PROVE  /\ Chunks' = Chunks \cup {a} /\ Placed' /\ RingInv' /\ DaemonOK'
         /\ held' \in [Threads -> SUBSET Pages]
  <1>1. Queued' = Queued
    BY DEF Queued, queueVars
  <1>2. /\ \A u \in Threads :
             held'[u] = IF u = t THEN held[u] \cup {a} ELSE held[u]
        /\ held' \in [Threads -> SUBSET Pages]
    BY DEF PagesInv, PagesTypeOK
  <1>3. Chunks' = Chunks \cup {a}
    BY <1>1, <1>2 DEF Chunks
  <1>4. a \notin Queued /\ \A u \in Threads : a \notin held[u]
    BY DEF Chunks
  <1>5. Placed'
    BY <1>1, <1>2, <1>4 DEF PagesInv, Placed
  <1>6. RingInv'
    BY DEF PagesInv, RingInv, RingTypeOK, RingInOrder, RingOnce, queueVars
  <1>7. DaemonOK'
    <2>1. CASE t = Daemon
      <3>1. held'[Daemon] = {a} /\ pc'[Daemon] = "idle"
        BY <1>2, <2>1, Constants DEF PagesInv, PagesTypeOK, DaemonOK
      <3> QED BY <3>1 DEF DaemonOK
    <2>2. CASE t # Daemon
      <3>1. held'[Daemon] = held[Daemon] /\ pc'[Daemon] = pc[Daemon]
        BY <1>2, <2>2, Constants DEF PagesInv, PagesTypeOK
      <3> QED BY <3>1 DEF PagesInv, DaemonOK
    <2> QED BY <2>1, <2>2
  <1> QED BY <1>2, <1>3, <1>5, <1>6, <1>7
-----------------------------------------------------------------------------
(* The steps of allocateAlignedChunk *)

\* What a step of t does to the locals of the other threads: nothing.
Alone(t) ==
  \A u \in Threads \ {t} :
    pc'[u] = pc[u] /\ addr'[u] = addr[u] /\ offset'[u] = offset[u]

(* The locals of the thread that takes the step.                           *)
LEMMA LocalsAfter ==
  ASSUME PagesInv, NEW t \in Threads, Alone(t),
         pc'[t] \in {"unmap", "trim", "tail"} => addr'[t] \in Pages,
         pc'[t] = "tail" => chunkOffset(addr'[t]) = 0
  PROVE  LocalsOK'
  <1>1. \A u \in Threads \ {t} :
          /\ pc'[u] \in {"unmap", "trim", "tail"} => addr'[u] \in Pages
          /\ pc'[u] = "tail" => chunkOffset(addr'[u]) = 0
    BY DEF PagesInv, LocalsOK, Alone
  <1> QED BY <1>1 DEF LocalsOK

(* mmap returns a chunk that is aligned.                                   *)
LEMMA MapAlignedKeeps ==
  ASSUME PagesInv, NEW t \in Threads, MapAligned(t), UNCHANGED queueVars
  PROVE  PagesInv'
  <1>1. PICK a \in Pages :
          /\ chunkOffset(a) = 0 /\ Whole(a) \subseteq Pages \ mapped
          /\ mapped' = mapped \cup Whole(a)
          /\ held' = [held EXCEPT ![t] = @ \cup {a}]
    BY DEF MapAligned, Mmap, Give, Whole
  <1>2. /\ pc[t] = "map" /\ pc' = [pc EXCEPT ![t] = "idle"]
        /\ addr' = addr /\ offset' = offset
    BY DEF MapAligned, At
  <1>3. Alone(t) /\ pc'[t] = "idle"
    BY <1>2 DEF Alone, PagesInv, PagesTypeOK
  <1>4. Flights' = Flights
    <2>1. InFlight(t) = {} /\ InFlight(t)' = {}
      BY <1>2, <1>3, FlightOf
    <2> QED BY <1>3, <2>1, FlightsAfter DEF Alone
  <1>5. a \notin Chunks /\ Exact(mapped', Chunks \cup {a}, Flights)
    BY <1>1, ChunkMapped DEF PagesInv
  <1>6. /\ Chunks' = Chunks \cup {a} /\ Placed' /\ RingInv' /\ DaemonOK'
        /\ held' \in [Threads -> SUBSET Pages]
    BY <1>1, <1>2, <1>5, HeldGiven
  <1>7. LocalsOK'
    BY <1>3, LocalsAfter
  <1>8. PagesTypeOK'
    BY <1>1, <1>2, <1>6 DEF PagesInv, PagesTypeOK
  <1> QED BY <1>4, <1>5, <1>6, <1>7, <1>8 DEF PagesInv

(* mmap returns pages to unmap or to trim.                                 *)
LEMMA MapKeeps ==
  ASSUME PagesInv, NEW t \in Threads, MapUnaligned(t) \/ MapSlow(t),
         UNCHANGED queueVars
  PROVE  PagesInv'
  <1>1. PICK a \in Pages, n \in {CHUNK_SIZE, CHUNK_SIZE + CHUNK_SIZE} :
          /\ PageRange(a, n) \subseteq Pages \ mapped
          /\ mapped' = mapped \cup PageRange(a, n)
          /\ addr' = [addr EXCEPT ![t] = a]
          /\ \/ /\ n = CHUNK_SIZE /\ pc[t] = "map"
                /\ pc' = [pc EXCEPT ![t] = "unmap"]
             \/ /\ n = CHUNK_SIZE + CHUNK_SIZE /\ pc[t] = "slow"
                /\ pc' = [pc EXCEPT ![t] = "trim"]
    BY DEF MapUnaligned, MapSlow, Mmap, At
  <1>2. held' = held /\ offset' = offset
    BY DEF MapUnaligned, MapSlow
  <1>3. Alone(t) /\ addr'[t] = a /\ pc'[t] \in {"unmap", "trim"}
    BY <1>1, <1>2 DEF Alone, PagesInv, PagesTypeOK
  <1>4. InFlight(t) = {} /\ InFlight(t)' = PageRange(a, n)
    <2>1. /\ pc[t] \in {"map", "slow"}
          /\ \/ n = CHUNK_SIZE /\ pc'[t] = "unmap"
             \/ n = CHUNK_SIZE + CHUNK_SIZE /\ pc'[t] = "trim"
      BY <1>1 DEF PagesInv, PagesTypeOK
    <2>2. InFlight(t) = {}
      BY <2>1, FlightOf
    <2>3. InFlight(t)' = PageRange(a, n)
      BY <1>3, <2>1, FlightOf DEF Whole
    <2> QED BY <2>2, <2>3
  <1>5. Exact(mapped', Chunks, Flights')
    <2>1. /\ Flights' = [Flights EXCEPT ![t] = PageRange(a, n)]
          /\ Flights = [u \in Threads |-> Flights[u]] /\ Flights[t] = {}
      BY <1>3, <1>4, FlightsAfter DEF Alone
    <2>2. Exact(mapped, Chunks, Flights) /\ PageRange(a, n) \cap mapped = {}
      BY <1>1 DEF PagesInv
    <2>3. Exact(mapped \cup PageRange(a, n), Chunks,
                [Flights EXCEPT ![t] = PageRange(a, n)])
      BY <2>1, <2>2, FlightMapped
    <2> QED BY <1>1, <2>1, <2>3
  <1>6. pc'[Daemon] = pc[Daemon] \/ held[Daemon] = {}
    BY <1>1, <1>3, Constants DEF Alone, PagesInv, DaemonOK
  <1>7. /\ Chunks' = Chunks /\ Placed' /\ RingInv' /\ DaemonOK'
        /\ held' \in [Threads -> SUBSET Pages]
    BY <1>2, <1>6, HeldKept
  <1>8. LocalsOK'
    BY <1>3, LocalsAfter
  <1>9. PagesTypeOK'
    <2>1. a \in Nat
      BY Constants
    <2> QED BY <1>1, <1>2, <1>7, <2>1 DEF PagesInv, PagesTypeOK
  <1> QED BY <1>5, <1>7, <1>8, <1>9 DEF PagesInv

(* A thread unmaps what mmap returned, or the head of it.                  *)
LEMMA UnmapKeeps ==
  ASSUME PagesInv, NEW t \in Threads, UnmapUnaligned(t) \/ TrimHead(t),
         UNCHANGED queueVars
  PROVE  PagesInv'
  <1>1. /\ held' = held
        /\ pc[t] \in {"unmap", "trim"} /\ addr[t] \in Pages /\ addr[t] \in Nat
    BY Constants DEF UnmapUnaligned, TrimHead, At, PagesInv, LocalsOK
  <1>2. PICK r : /\ r \subseteq InFlight(t) /\ mapped' = mapped \ r
                 /\ InFlight(t)' = InFlight(t) \ r
                 /\ Alone(t) /\ addr' \in [Threads -> Nat]
                 /\ offset' \in [Threads -> Nat]
                 /\ \/ pc' = [pc EXCEPT ![t] = "slow"]
                    \/ /\ pc' = [pc EXCEPT ![t] = "tail"]
                       /\ addr'[t] \in Pages /\ chunkOffset(addr'[t]) = 0
    <2>1. CASE UnmapUnaligned(t)
      <3>1. /\ mapped' = mapped \ Whole(addr[t])
            /\ pc[t] = "unmap" /\ pc' = [pc EXCEPT ![t] = "slow"]
            /\ addr' = [addr EXCEPT ![t] = 0] /\ offset' = offset
        BY <2>1 DEF UnmapUnaligned, Munmap, At, Whole
      <3>2. Alone(t) /\ pc'[t] = "slow" /\ addr' \in [Threads -> Nat]
        BY <3>1 DEF Alone, PagesInv, PagesTypeOK
      <3>3. InFlight(t) = Whole(addr[t]) /\ InFlight(t)' = {}
        BY <3>1, <3>2, FlightOf
      <3> QED BY <3>1, <3>2, <3>3 DEF PagesInv, PagesTypeOK
    <2>2. CASE TrimHead(t)
      <3> DEFINE a == addr[t]
                 h == CHUNK_SIZE - chunkOffset(a)
                 all == PageRange(a, CHUNK_SIZE + CHUNK_SIZE)
                 rest == PageRange(a + h, CHUNK_SIZE + chunkOffset(a))
      <3>1. /\ mapped' = mapped \ PageRange(a, h)
            /\ pc[t] = "trim" /\ pc' = [pc EXCEPT ![t] = "tail"]
            /\ addr' = [addr EXCEPT ![t] = a + h]
            /\ offset' = [offset EXCEPT ![t] = chunkOffset(a)]
        BY <2>2 DEF TrimHead, Munmap, At, HeadLength
      <3>2. /\ chunkOffset(a) \in Nat /\ chunkOffset(a + h) = 0
            /\ a + h \in Nat /\ a + h \in all
            /\ PageRange(a, h) \subseteq all
            /\ all \ PageRange(a, h) = rest
        <4>1. chunkOffset(a) \in 0 .. CHUNK_SIZE - 1
          BY <1>1, Trimmed
        <4> QED BY <1>1, <4>1, Trimmed
      <3> HIDE DEF h, all, rest
      <3>3. /\ Alone(t) /\ pc'[t] = "tail" /\ addr' \in [Threads -> Nat]
            /\ offset' \in [Threads -> Nat]
            /\ addr'[t] = a + h /\ offset'[t] = chunkOffset(a)
        BY <3>1, <3>2 DEF Alone, PagesInv, PagesTypeOK
      <3>4. InFlight(t) = all /\ InFlight(t)' = rest
        BY <3>1, <3>3, FlightOf DEF all, rest
      <3>5. addr'[t] \in Pages
        <4>1. Flights[t] = InFlight(t)
          BY DEF Flights
        <4>2. InFlight(t) \subseteq mapped
          BY <4>1 DEF PagesInv, Exact
        <4> QED BY <3>2, <3>3, <3>4, <4>2 DEF PagesInv, PagesTypeOK
      <3> QED BY <3>1, <3>2, <3>3, <3>4, <3>5
    <2> QED BY <2>1, <2>2
  <1>3. Exact(mapped', Chunks, Flights')
    <2>1. /\ Flights' = [Flights EXCEPT ![t] = InFlight(t) \ r]
          /\ Flights = [u \in Threads |-> Flights[u]]
          /\ Flights[t] = InFlight(t)
      BY <1>2, FlightsAfter DEF Alone
    <2>2. r \subseteq Flights[t] /\ Exact(mapped, Chunks, Flights)
      BY <1>2, <2>1 DEF PagesInv
    <2>3. Exact(mapped \ r, Chunks, [Flights EXCEPT ![t] = Flights[t] \ r])
      BY ONLY <2>1, <2>2, FlightUnmapped
    <2> QED BY <1>2, <2>1, <2>3
  <1>4. pc'[Daemon] = pc[Daemon] \/ held[Daemon] = {}
    BY <1>1, <1>2, Constants DEF Alone, PagesInv, DaemonOK
  <1>5. /\ Chunks' = Chunks /\ Placed' /\ RingInv' /\ DaemonOK'
        /\ held' \in [Threads -> SUBSET Pages]
    BY <1>1, <1>4, HeldKept
  <1>6. LocalsOK'
    <2>1. pc'[t] \in {"slow", "tail"} /\ (pc'[t] = "tail" =>
            addr'[t] \in Pages /\ chunkOffset(addr'[t]) = 0)
      BY <1>2 DEF PagesInv, PagesTypeOK
    <2> QED BY <1>2, <2>1, LocalsAfter
  <1>7. PagesTypeOK'
    BY <1>2, <1>5 DEF PagesInv, PagesTypeOK
  <1> QED BY <1>3, <1>5, <1>6, <1>7 DEF PagesInv

(* A thread has trimmed its mapping to a chunk.                            *)
LEMMA TrimKeeps ==
  ASSUME PagesInv, NEW t \in Threads, TrimTail(t) \/ TrimHalf(t),
         UNCHANGED queueVars
  PROVE  PagesInv'
  <1> DEFINE a == addr[t]
  <1>1. /\ pc[t] \in {"tail", "trim"} /\ a \in Pages /\ a \in Nat
        /\ chunkOffset(a) = 0
        /\ pc' = [pc EXCEPT ![t] = "idle"]
        /\ held' = [held EXCEPT ![t] = @ \cup {a}]
        /\ addr' = [addr EXCEPT ![t] = 0]
    BY Constants DEF TrimTail, TrimHalf, At, Give, PagesInv, LocalsOK
  <1>2. PICK r : /\ r \subseteq InFlight(t) /\ mapped' = mapped \ r
                 /\ InFlight(t) \ r = Whole(a)
                 /\ offset' \in [Threads -> Nat]
                 /\ \A u \in Threads \ {t} : offset'[u] = offset[u]
    <2>1. CASE TrimTail(t)
      <3> DEFINE o == offset[t]
      <3>1. /\ mapped' = mapped \ PageRange(a + CHUNK_SIZE, o)
            /\ pc[t] = "tail" /\ offset' = [offset EXCEPT ![t] = 0]
        BY <2>1 DEF TrimTail, Munmap, At, TailLength
      <3>2. InFlight(t) = PageRange(a, CHUNK_SIZE + o) /\ o \in Nat
        BY <3>1, FlightOf DEF PagesInv, PagesTypeOK
      <3>3. /\ PageRange(a + CHUNK_SIZE, o) \subseteq InFlight(t)
            /\ InFlight(t) \ PageRange(a + CHUNK_SIZE, o) = Whole(a)
        <4> HIDE DEF a, o
        <4> QED BY <1>1, <3>2, Constants DEF PageRange, Whole
      <3> QED BY <3>1, <3>3 DEF PagesInv, PagesTypeOK
    <2>2. CASE TrimHalf(t)
      <3>1. /\ mapped' = mapped \ PageRange(a + CHUNK_SIZE, CHUNK_SIZE)
            /\ pc[t] = "trim" /\ offset' = offset
        BY <2>2 DEF TrimHalf, Munmap, At
      <3>2. InFlight(t) = PageRange(a, CHUNK_SIZE + CHUNK_SIZE)
        BY <3>1, FlightOf
      <3> HIDE DEF a
      <3>3. /\ PageRange(a + CHUNK_SIZE, CHUNK_SIZE) \subseteq InFlight(t)
            /\ InFlight(t) \ PageRange(a + CHUNK_SIZE, CHUNK_SIZE) = Whole(a)
        BY <1>1, <3>2, Trimmed
      <3> QED BY <3>1, <3>3 DEF PagesInv, PagesTypeOK
    <2> QED BY <2>1, <2>2
  <1>3. Alone(t) /\ pc'[t] = "idle" /\ addr' \in [Threads -> Nat]
    BY <1>1, <1>2 DEF Alone, PagesInv, PagesTypeOK
  <1>4. /\ a \notin Chunks /\ Exact(mapped', Chunks \cup {a}, Flights')
    <2>1. InFlight(t)' = {}
      BY <1>3, FlightOf
    <2>2. /\ Flights' = [Flights EXCEPT ![t] = {}]
          /\ Flights = [u \in Threads |-> Flights[u]]
          /\ Flights[t] = InFlight(t)
      BY <1>3, <2>1, FlightsAfter DEF Alone
    <2> DEFINE g == [Flights EXCEPT ![t] = Flights[t] \ r]
    <2>3. Exact(mapped', Chunks, g)
      BY <1>2, <2>2, FlightUnmapped DEF PagesInv
    <2>4. /\ g = [u \in Threads |-> g[u]] /\ g[t] = Whole(a)
          /\ [g EXCEPT ![t] = {}] = Flights'
      BY <1>2, <2>2
    <2> HIDE DEF g
    <2>5. a \notin Chunks /\ Exact(mapped', Chunks \cup {a},
                                   [g EXCEPT ![t] = {}])
      BY <1>1, <2>3, <2>4, FlightLands
    <2> QED BY <2>4, <2>5
  <1>5. /\ Chunks' = Chunks \cup {a} /\ Placed' /\ RingInv' /\ DaemonOK'
        /\ held' \in [Threads -> SUBSET Pages]
    BY <1>1, <1>4, HeldGiven
  <1>6. LocalsOK'
    BY <1>3, LocalsAfter
  <1>7. PagesTypeOK'
    BY <1>1, <1>2, <1>3, <1>5 DEF PagesInv, PagesTypeOK
  <1> QED BY <1>4, <1>5, <1>6, <1>7 DEF PagesInv

(* mmap fails: nothing is mapped below FLOOR that could be unmapped.       *)
LEMMA FailKeeps ==
  ASSUME PagesInv, NEW t \in Threads, UNCHANGED queueVars,
         \/ MapFails(t) \/ SlowMapFails(t) \/ TrimFailed(t)
         \/ t # Daemon /\ allocateAlignedChunk(t)
  PROVE  PagesInv'
  <1>1. /\ held' = held /\ addr' = addr /\ offset' = offset
        /\ pc[t] \in {"idle", "map", "slow", "failed"}
        /\ \E to \in {"idle", "map", "slow", "failed"} :
             pc' = [pc EXCEPT ![t] = to]
        /\ t = Daemon => pc[t] # "idle"
    BY DEF MapFails, SlowMapFails, TrimFailed, allocateAlignedChunk, At
  <1>2. mapped' = mapped
    <2>1. CASE TrimFailed(t)
      <3>1. mapped' = mapped \ PageRange(nullptr + CHUNK_SIZE, CHUNK_SIZE)
        BY <2>1 DEF TrimFailed, Munmap
      <3>2. \A a \in mapped :
              a \notin PageRange(nullptr + CHUNK_SIZE, CHUNK_SIZE)
        <4>1. ASSUME NEW a \in Pages
              PROVE  a \notin PageRange(nullptr + CHUNK_SIZE, CHUNK_SIZE)
          BY Constants DEF PageRange, nullptr
        <4> QED BY <4>1 DEF PagesInv, PagesTypeOK
      <3> QED BY <3>1, <3>2
    <2> QED BY <2>1 DEF MapFails, SlowMapFails, allocateAlignedChunk
  <1>3. Alone(t) /\ pc'[t] \in {"idle", "map", "slow", "failed"}
    BY <1>1 DEF Alone, PagesInv, PagesTypeOK
  <1>4. Flights' = Flights
    <2>1. InFlight(t) = {} /\ InFlight(t)' = {}
      BY <1>1, <1>3, FlightOf
    <2> QED BY <1>3, <2>1, FlightsAfter DEF Alone
  <1>5. pc'[Daemon] = pc[Daemon] \/ held[Daemon] = {}
    BY <1>1, <1>3, Constants DEF Alone, PagesInv, DaemonOK
  <1>6. /\ Chunks' = Chunks /\ Placed' /\ RingInv' /\ DaemonOK'
        /\ held' \in [Threads -> SUBSET Pages]
    BY <1>1, <1>5, HeldKept
  <1>7. LocalsOK'
    BY <1>3, LocalsAfter
  <1>8. PagesTypeOK'
    BY <1>1, <1>2, <1>6 DEF PagesInv, PagesTypeOK
  <1> QED BY <1>2, <1>4, <1>6, <1>7, <1>8 DEF PagesInv

(* Each step of an allocation.                                             *)
LEMMA AllocationKeeps ==
  ASSUME PagesInv, NEW t \in Threads, AllocateStep(t), UNCHANGED queueVars
  PROVE  PagesInv'
  BY MapAlignedKeeps, MapKeeps, UnmapKeeps, TrimKeeps, FailKeeps
     DEF AllocateStep
-----------------------------------------------------------------------------
(* The steps that move chunks *)

(* No step but those of an allocation changes what is in flight.           *)
LEMMA Moved ==
  ASSUME PagesInv, NEW t \in Threads,
         addr' = addr, offset' = offset, InFlight(t)' = InFlight(t),
         Alone(t), pc'[t] \in {"idle", "map"},
         held' \in [Threads -> SUBSET Pages],
         pc' \in [Threads -> {"idle", "map", "unmap", "slow", "trim", "tail",
                              "failed"}],
         mapped' \subseteq Pages,
         Placed', DaemonOK', RingInv', Exact(mapped', Chunks', Flights)
  PROVE  PagesInv'
  <1>1. Flights' = Flights
    BY FlightsAfter DEF Alone
  <1>2. LocalsOK'
    BY LocalsAfter
  <1>3. PagesTypeOK'
    BY DEF PagesInv, PagesTypeOK
  <1> QED BY <1>1, <1>2, <1>3 DEF PagesInv

(* The daemon pushes its chunk, or the nullptr it got.                     *)
LEMMA PushKeeps == PagesInv /\ DaemonPushes => PagesInv'
  <1> SUFFICES ASSUME PagesInv, DaemonPushes PROVE PagesInv'
    OBVIOUS
  <1>1. /\ pc[Daemon] = "idle" /\ pc' = [pc EXCEPT ![Daemon] = "map"]
        /\ push(page) /\ held' = [held EXCEPT ![Daemon] = {}]
        /\ mapped' = mapped /\ addr' = addr /\ offset' = offset
    BY DEF DaemonPushes, At
  <1>2. /\ Daemon \in Threads /\ held[Daemon] \subseteq Pages
        /\ nullptr \notin Pages
    BY Constants DEF PagesInv, PagesTypeOK
  <1>3. {page} \ {nullptr} = held[Daemon] /\ page \in Pages \cup {nullptr}
    <2>1. CASE held[Daemon] = {}
      BY <2>1 DEF page
    <2>2. CASE held[Daemon] # {}
      <3>1. page \in held[Daemon]
        BY <2>2 DEF page
      <3> QED BY <1>2, <3>1 DEF PagesInv, DaemonOK
    <2> QED BY <2>1, <2>2
  <1>4. page \notin OnRing
    <2>1. Queued = OnRing /\ held[Daemon] \cap Queued = {}
      BY <1>2, RingQueued DEF PagesInv, Placed
    <2>2. nullptr \notin OnRing
      BY DEF OnRing
    <2> QED BY <1>3, <2>1, <2>2
  <1>5. RingInv' /\ Queued' = Queued \cup held[Daemon]
    BY <1>1, <1>3, <1>4, PushKeepsRing DEF PagesInv
  <1>6. /\ \A u \in Threads :
             held'[u] = IF u = Daemon THEN {} ELSE held[u]
        /\ held' \in [Threads -> SUBSET Pages]
    BY <1>1, <1>2 DEF PagesInv, PagesTypeOK
  <1>7. Chunks' = Chunks
    BY <1>2, <1>5, <1>6 DEF Chunks
  <1>8. Placed' /\ DaemonOK'
    BY <1>2, <1>5, <1>6 DEF PagesInv, Placed, DaemonOK
  <1>9. /\ Alone(Daemon) /\ pc'[Daemon] = "map"
        /\ pc' \in [Threads -> {"idle", "map", "unmap", "slow", "trim",
                                "tail", "failed"}]
    BY <1>1, <1>2 DEF Alone, PagesInv, PagesTypeOK
  <1>10. InFlight(Daemon)' = InFlight(Daemon)
    BY <1>1, <1>2, <1>9, FlightOf
  <1>11. Exact(mapped', Chunks', Flights) /\ mapped' \subseteq Pages
    BY <1>1, <1>7 DEF PagesInv, PagesTypeOK
  <1> QED BY <1>1, <1>2, <1>5, <1>6, <1>8, <1>9, <1>10, <1>11, Moved

(* A client takes a chunk from the queue.                                  *)
LEMMA GetQueuedKeeps ==
  ASSUME PagesInv, NEW t \in Clients, GetQueued(t) PROVE PagesInv'
  <1> DEFINE a == buffer[begin]
  <1>1. /\ pc[t] = "idle" /\ pop /\ a # nullptr
        /\ held' = [held EXCEPT ![t] = @ \cup {a}]
        /\ mapped' = mapped /\ pc' = pc /\ addr' = addr /\ offset' = offset
        /\ t \in Threads /\ t # Daemon /\ Daemon \in Threads
    BY Constants DEF GetQueued, Give, Clients
  <1>2. RingInv' /\ Queued' = Queued \ {a} /\ a \in Queued
    BY <1>1, PopKeepsRing DEF PagesInv
  <1>3. a \in Pages
    BY <1>1 DEF PagesInv, RingInv, RingTypeOK
  <1> HIDE DEF a
  <1>4. /\ \A u \in Threads :
             held'[u] = IF u = t THEN held[u] \cup {a} ELSE held[u]
        /\ held' \in [Threads -> SUBSET Pages]
    BY <1>1, <1>3 DEF PagesInv, PagesTypeOK
  <1>5. \A u \in Threads : a \notin held[u]
    BY <1>2 DEF PagesInv, Placed
  <1>6. Chunks' = Chunks
    BY <1>1, <1>2, <1>4 DEF Chunks
  <1>7. Placed'
    BY <1>2, <1>4, <1>5 DEF PagesInv, Placed
  <1>8. DaemonOK'
    BY <1>1, <1>4 DEF PagesInv, DaemonOK
  <1>9. Alone(t) /\ InFlight(t)' = InFlight(t) /\ pc'[t] = "idle"
    BY <1>1, FlightOf DEF Alone
  <1>10. /\ Exact(mapped', Chunks', Flights) /\ mapped' \subseteq Pages
         /\ pc' \in [Threads -> {"idle", "map", "unmap", "slow", "trim",
                                 "tail", "failed"}]
    BY <1>1, <1>6 DEF PagesInv, PagesTypeOK
  <1> QED BY <1>1, <1>2, <1>4, <1>7, <1>8, <1>9, <1>10, Moved

(* A client takes a nullptr from the queue, and goes on by itself.         *)
LEMMA GetNullKeeps ==
  ASSUME PagesInv, NEW t \in Clients, GetNull(t) PROVE PagesInv'
  <1>1. /\ pc[t] = "idle" /\ pop /\ buffer[begin] = nullptr
        /\ pc' = [pc EXCEPT ![t] = "map"] /\ held' = held
        /\ mapped' = mapped /\ addr' = addr /\ offset' = offset
        /\ t \in Threads /\ t # Daemon /\ Daemon \in Threads
    BY Constants DEF GetNull, allocateAlignedChunk, At, Clients
  <1>2. RingInv' /\ Queued' = Queued
    BY <1>1, PopKeepsRing DEF PagesInv, Queued
  <1>3. Chunks' = Chunks /\ Placed'
    BY <1>1, <1>2 DEF Chunks, PagesInv, Placed
  <1>4. /\ Alone(t) /\ pc'[t] = "map" /\ pc'[Daemon] = pc[Daemon]
        /\ pc' \in [Threads -> {"idle", "map", "unmap", "slow", "trim",
                                "tail", "failed"}]
    BY <1>1 DEF Alone, PagesInv, PagesTypeOK
  <1>5. DaemonOK'
    BY <1>1, <1>4 DEF PagesInv, DaemonOK
  <1>6. InFlight(t)' = InFlight(t)
    BY <1>1, <1>4, FlightOf
  <1>7. /\ Exact(mapped', Chunks', Flights) /\ mapped' \subseteq Pages
        /\ held' \in [Threads -> SUBSET Pages]
    BY <1>1, <1>3 DEF PagesInv, PagesTypeOK
  <1> QED BY <1>1, <1>2, <1>3, <1>4, <1>5, <1>6, <1>7, Moved

(* A client gives a chunk back.                                            *)
LEMMA GiveBackKeeps ==
  ASSUME PagesInv, NEW t \in Clients, GiveBack(t) PROVE PagesInv'
  <1>1. PICK a \in held[t] :
          /\ pc[t] = "idle" /\ mapped' = mapped \ Whole(a)
          /\ held' = [held EXCEPT ![t] = @ \ {a}]
          /\ pc' = pc /\ addr' = addr /\ offset' = offset
    BY DEF GiveBack, deallocateAlignedChunk, Munmap, Whole
  <1>2. t \in Threads /\ t # Daemon /\ Daemon \in Threads
    BY Constants DEF Clients
  <1>3. Queued' = Queued /\ RingInv'
    BY DEF GiveBack, Queued, queueVars, PagesInv, RingInv, RingTypeOK,
           RingInOrder, RingOnce
  <1>4. /\ \A u \in Threads :
             held'[u] = IF u = t THEN held[u] \ {a} ELSE held[u]
        /\ held' \in [Threads -> SUBSET Pages]
    BY <1>1, <1>2 DEF PagesInv, PagesTypeOK
  <1>5. a \notin Queued /\ \A u \in Threads : u # t => a \notin held[u]
    BY <1>1, <1>2 DEF PagesInv, Placed
  <1>6. Chunks' = Chunks \ {a} /\ a \in Chunks
    BY <1>2, <1>3, <1>4, <1>5 DEF Chunks
  <1>7. Placed'
    BY <1>3, <1>4 DEF PagesInv, Placed
  <1>8. DaemonOK'
    BY <1>1, <1>2, <1>4 DEF PagesInv, DaemonOK
  <1>9. Alone(t) /\ InFlight(t)' = InFlight(t) /\ pc'[t] = "idle"
    BY <1>1, <1>2, FlightOf DEF Alone
  <1>10. /\ mapped' \subseteq Pages
         /\ pc' \in [Threads -> {"idle", "map", "unmap", "slow", "trim",
                                 "tail", "failed"}]
    BY <1>1 DEF PagesInv, PagesTypeOK
  <1>11. Exact(mapped', Chunks', Flights)
    BY <1>1, <1>6, ChunkUnmapped DEF PagesInv
  <1> QED BY <1>1, <1>2, <1>3, <1>4, <1>7, <1>8, <1>9, <1>10, <1>11, Moved
-----------------------------------------------------------------------------
(* Nothing is mapped at first.                                             *)
LEMMA PagesInit == Init => PagesInv
  <1> SUFFICES ASSUME Init PROVE PagesInv
    OBVIOUS
  <1>1. PagesTypeOK /\ LocalsOK
    BY DEF Init, PagesTypeOK, LocalsOK, nullptr
  <1>2. Queued = {} /\ Chunks = {}
    <2>1. Queued = {}
      BY DEF Init, Queued
    <2> QED BY <2>1 DEF Init, Chunks
  <1>3. Placed /\ DaemonOK
    BY <1>2, Constants DEF Init, Placed, DaemonOK
  <1>4. RingInv
    <2>1. 0 \in Slots /\ 0 < QUEUE_SIZE /\ 0 <= QUEUE_SIZE
      BY Constants DEF Slots
    <2>2. RingTypeOK
      BY <2>1 DEF Init, RingTypeOK
    <2>3. end = (begin + size) % QUEUE_SIZE
      <3>1. 0 % QUEUE_SIZE = 0
        BY <2>1, Around, Constants DEF SlotOf
      <3> QED BY <3>1 DEF Init
    <2>4. Len(pushed) = 0 /\ size = 0
      BY DEF Init
    <2> QED BY <2>1, <2>2, <2>3, <2>4 DEF RingInv, RingInOrder, RingOnce
  <1>5. \A t \in Threads : Flights[t] = {}
    <2>1. \A t \in Threads : pc[t] \in {"idle", "map"}
      BY DEF Init
    <2> QED BY <2>1, FlightOf DEF Flights
  <1>6. Exact(mapped, Chunks, Flights)
    BY <1>2, <1>5 DEF Init, Exact
  <1> QED BY <1>1, <1>3, <1>4, <1>6 DEF PagesInv

(* Every step keeps the invariant.                                         *)
LEMMA PagesStep == PagesInv /\ [Next]_vars => PagesInv'
  <1> SUFFICES ASSUME PagesInv, [Next]_vars PROVE PagesInv'
    OBVIOUS
  <1>1. CASE DaemonAllocates
    BY <1>1, AllocationKeeps, Constants DEF DaemonAllocates
  <1>2. CASE DaemonPushes
    BY <1>2, PushKeeps
  <1>3. ASSUME NEW t \in Clients, Allocates(t) \/ ClientAllocates(t)
        PROVE  PagesInv'
    <2>1. t \in Threads /\ t # Daemon
      BY DEF Clients
    <2> QED BY <1>3, <2>1, AllocationKeeps, FailKeeps
            DEF Allocates, ClientAllocates
  <1>4. CASE UNCHANGED vars
    <2>1. /\ mapped' = mapped /\ held' = held /\ pc' = pc /\ addr' = addr
          /\ offset' = offset /\ UNCHANGED queueVars
      BY <1>4 DEF vars, chunkVars
    <2>2. /\ Chunks' = Chunks /\ Placed' /\ RingInv' /\ DaemonOK'
          /\ held' \in [Threads -> SUBSET Pages]
      BY <2>1, HeldKept
    <2>3. Flights' = Flights
      BY <2>1 DEF Flights, InFlight
    <2> QED BY <2>1, <2>2, <2>3 DEF PagesInv, PagesTypeOK, LocalsOK
  <1> QED BY <1>1, <1>2, <1>3, <1>4, GetQueuedKeeps, GetNullKeeps,
             GiveBackKeeps DEF Next

\* No munmap takes a page of a chunk that somebody has, nothing that mmap
\* returned in excess stays mapped, and the ring hands out what was pushed,
\* in that order.
THEOREM PagesAreExact == Spec => []PagesExact
  <1>1. Spec => []PagesInv
    BY PagesInit, PagesStep, PTL DEF Spec
  <1> QED BY <1>1, PagesPromise, PTL
=============================================================================
