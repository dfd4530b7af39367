------------------------- MODULE BitAllocator_proofs -------------------------
(***************************************************************************)
(* The arena grants every block once, for any size of the bitmaps, of the  *)
(* header and of the chunks.                                               *)
(***************************************************************************)
EXTENDS BitAllocator, FiniteSetTheorems, SequenceTheorems,
        WellFoundedInduction, TLAPS

(* Division with remainder.                                                *)
LEMMA Division ==
  ASSUME NEW n \in Nat \ {0}, NEW k \in Int
  PROVE  /\ k \div n \in Int /\ k % n \in 0 .. n - 1
         /\ k = n * (k \div n) + (k % n)
  OBVIOUS

(* It is the only one.                                                     *)
LEMMA Remainder ==
  ASSUME NEW n \in Nat \ {0}, NEW k \in Int, NEW q \in Int,
         NEW c \in 0 .. n - 1, k = n * q + c
  PROVE  k % n = c
  <1> DEFINE p == k \div n
             d == k % n
  <1>1. p \in Int /\ d \in 0 .. n - 1 /\ k = n * p + d
    BY Division
  <1> HIDE DEF p, d
  <1>2. n * (q - p) = d - c
    BY <1>1
  <1>3. q - p = 0
    <2>1. ASSUME NEW m \in Int, n * m < n PROVE m < 1
      BY <2>1
    <2>2. ASSUME NEW m \in Int, n * m > 0 - n PROVE m > 0 - 1
      BY <2>2
    <2>3. n * (q - p) < n /\ n * (q - p) > 0 - n
      BY <1>1, <1>2
    <2>4. q - p \in Int
      BY <1>1
    <2> QED BY <2>1, <2>2, <2>3, <2>4
  <1>4. p = q
    BY <1>1, <1>3
  <1>5. d = c
    BY <1>1, <1>4
  <1> QED BY <1>5 DEF d

(* Every set of numbers has a least one.                                   *)
LEMMA Least ==
  ASSUME NEW T, T \subseteq Nat, T # {}
  PROVE  \E x \in T : \A y \in T : x =< y
  <1> DEFINE R == {ss \in Nat \X Nat : ss[1] < ss[2]}
  <1>1. IsWellFoundedOn(R, Nat)
    BY NatLessThanWellFounded DEF OpToRel
  <1>2. \A x, y \in Nat : <<y, x>> \notin R => x =< y
    OBVIOUS
  <1> HIDE DEF R
  <1>3. \E x \in T : \A y \in T : <<y, x>> \notin R
    BY <1>1, WFMin
  <1> QED  BY <1>2, <1>3
-----------------------------------------------------------------------------
(* The layout of a chunk *)

B == BIT_PER_CACHE_LINE
R == bitMapRange

(* The constants are numbers, and a chunk has room for its bitmaps.        *)
LEMMA Constants ==
  /\ B \in Nat \ {0} /\ R \in Nat \ {0} /\ R <= B /\ HEADER \in Nat \ {0}
  /\ R * B \in Nat \ {0}
  /\ CHUNK_SIZE = HEADER + R * B /\ CHUNK_SIZE \in Nat \ {0}
  /\ Indices \subseteq Bits /\ 0 \in Indices
  <1>1. /\ B \in Nat \ {0} /\ R \in Nat \ {0} /\ R <= B
        /\ HEADER \in Nat \ {0} /\ CHUNK_SIZE = HEADER + R * B
    BY AllocatorAssumption DEF B, R
  <1>2. R * B \in Nat \ {0}
    BY <1>1
  <1>3. Indices \subseteq Bits /\ 0 \in Indices
    BY <1>1 DEF Indices, Bits, B, R
  <1> QED BY <1>1, <1>2, <1>3

(* The number of a block in its chunk tells its bitmap and its bit.        *)
LEMMA Numbering ==
  ASSUME NEW m \in Indices, NEW o \in Bits
  PROVE  /\ m * B + o \in 0 .. R * B - 1
         /\ (m * B + o) \div B = m /\ (m * B + o) % B = o
  <1>1. /\ B \in Nat \ {0} /\ R \in Nat \ {0} /\ m \in Nat /\ m + 1 <= R
        /\ o \in 0 .. B - 1
    BY Constants DEF Indices, Bits, B, R
  <1> DEFINE k == m * B + o
             p == k \div B
             d == k % B
  <1>2. m * B \in Nat /\ (m + 1) * B <= R * B /\ (m + 1) * B = m * B + B
    BY <1>1
  <1>3. k \in 0 .. R * B - 1 /\ k \in Int
    BY <1>1, <1>2
  <1>4. k = B * m + o
    BY <1>1
  <1> HIDE DEF k
  <1>5. d = o
    BY <1>1, <1>3, <1>4, Remainder
  <1>6. p \in Int /\ k = B * p + d
    BY <1>1, <1>3, Division
  <1> HIDE DEF p, d
  <1>7. B * (m - p) = 0
    BY <1>1, <1>4, <1>5, <1>6
  <1>8. m - p = 0
    BY <1>1, <1>6, <1>7
  <1>9. p = m
    BY <1>1, <1>6, <1>8
  <1> QED BY <1>3, <1>5, <1>9 DEF k, p, d

(* Every number below that of the blocks is one's.                         *)
LEMMA Numbered ==
  ASSUME NEW k \in 0 .. R * B - 1
  PROVE  k \div B \in Indices /\ k % B \in Bits /\ (k \div B) * B + (k % B) = k
  <1>1. B \in Nat \ {0} /\ R \in Nat \ {0} /\ R * B \in Nat
    BY Constants
  <1> DEFINE p == k \div B
             d == k % B
  <1>2. p \in Int /\ d \in 0 .. B - 1 /\ k = B * p + d
    BY <1>1, Division
  <1> HIDE DEF p, d
  <1>3. p < R
    <2> SUFFICES ASSUME p >= R PROVE FALSE
      BY <1>1, <1>2
    <2>1. B * p >= B * R
      BY <1>1, <1>2
    <2> QED BY <1>1, <1>2, <2>1
  <1>4. p >= 0
    <2> SUFFICES ASSUME p + 1 <= 0 PROVE FALSE
      BY <1>2
    <2>1. B * (p + 1) <= 0 /\ B * (p + 1) = B * p + B
      BY <1>1, <1>2
    <2> QED BY <1>1, <1>2, <2>1
  <1>5. p * B + d = k
    BY <1>1, <1>2
  <1> QED BY <1>1, <1>2, <1>3, <1>4, <1>5 DEF p, d, Indices, Bits, B, R

(* The header of a block is that of its chunk.                             *)
LEMMA HeaderFound ==
  ASSUME NEW c \in Chunks, NEW k \in 0 .. CHUNK_SIZE - 1
  PROVE  HeaderOf(c + k) = c /\ c \in Nat
  <1>1. PICK n \in Nat : c = n * CHUNK_SIZE
    BY AllocatorAssumption DEF Chunks
  <1>2. CHUNK_SIZE \in Nat \ {0}
    BY Constants
  <1> DEFINE x == c + k
  <1>3. c \in Nat /\ x \in Int /\ x = CHUNK_SIZE * n + k /\ n \in Int
    BY <1>1, <1>2
  <1> HIDE DEF x
  <1>4. x % CHUNK_SIZE = k
    BY <1>2, <1>3, Remainder
  <1>5. HeaderOf(x) = x - k
    BY <1>4 DEF HeaderOf
  <1> QED BY <1>3, <1>5 DEF x

(* Address, and what deallocate makes of it.                               *)
LEMMA AddressParts ==
  ASSUME NEW c \in Chunks, NEW m \in Indices, NEW o \in Bits
  PROVE  LET a == Address(c, m, o)
             k == (a - HeaderOf(a)) - HEADER
         IN  /\ a \in BlocksOf(c) /\ a \in Blocks /\ HeaderOf(a) = c
             /\ k \div B = m /\ k % B = o
  <1> DEFINE a == Address(c, m, o)
             n == m * B + o
  <1>1. n \in 0 .. R * B - 1 /\ n \div B = m /\ n % B = o
    BY Numbering
  <1>2. a = c + (HEADER + n)
    BY HeaderFound, Constants, <1>1 DEF Address, B
  <1> HIDE DEF n, a
  <1>3. HEADER + n \in 0 .. CHUNK_SIZE - 1
    BY Constants, <1>1
  <1>4. HeaderOf(a) = c /\ c \in Nat
    BY <1>2, <1>3, HeaderFound
  <1>5. (a - c) - HEADER = n
    BY <1>1, <1>2, <1>4, Constants
  <1>6. a \in BlocksOf(c) /\ a \in Blocks
    BY DEF a, BlocksOf, Blocks
  <1> QED BY <1>1, <1>4, <1>5, <1>6 DEF a

(* A block has a place in its chunk, and belongs to that chunk only.       *)
LEMMA BlockPlace ==
  ASSUME NEW c \in Chunks, NEW a \in BlocksOf(c)
  PROVE  /\ a \in Blocks /\ HeaderOf(a) = c
         /\ \E m \in Indices, o \in Bits : a = Address(c, m, o)
  <1>1. PICK m \in Indices, o \in Bits : a = Address(c, m, o)
    BY DEF BlocksOf
  <1> QED BY <1>1, AddressParts

(* The blocks of a chunk follow each other, so that there are R * B.       *)
LEMMA BlockCount ==
  ASSUME NEW c \in Chunks
  PROVE  IsFiniteSet(BlocksOf(c)) /\ Cardinality(BlocksOf(c)) = R * B
  <1> DEFINE first == c + HEADER
             last == first + R * B - 1
  <1>1. c \in Nat /\ HEADER \in Nat /\ R * B \in Nat \ {0}
    BY Constants, HeaderFound
  <1>2. ASSUME NEW a \in BlocksOf(c) PROVE a \in first .. last
    <2>1. PICK m \in Indices, o \in Bits : a = first + (m * B + o)
      BY DEF BlocksOf, Address, B
    <2>2. m * B + o \in 0 .. R * B - 1
      BY Numbering
    <2> QED BY <1>1, <2>1, <2>2
  <1>3. ASSUME NEW a \in first .. last PROVE a \in BlocksOf(c)
    <2>1. a - first \in 0 .. R * B - 1 /\ a = first + (a - first)
      BY <1>1
    <2>2. PICK m \in Indices, o \in Bits : m * B + o = a - first
      BY <2>1, Numbered
    <2> QED BY <2>1, <2>2 DEF BlocksOf, Address, B
  <1>4. BlocksOf(c) = first .. last
    BY <1>2, <1>3
  <1>5. first \in Int /\ last \in Int /\ last - first + 1 = R * B
    BY <1>1
  <1> HIDE DEF first, last
  <1> QED BY <1>1, <1>4, <1>5, FS_Interval
-----------------------------------------------------------------------------
(* The inductive invariant *)

ArenaTypeOK ==
  /\ smallChunk \in Seq(Chunks)
  /\ topLevelMap \in [Chunks -> SUBSET Bits]
  /\ bitMap \in [Chunks -> [Indices -> SUBSET Bits]]
  /\ allocatedSize \in [Chunks -> Int]
  /\ bitMapIndex \in [Chunks -> Indices]
  /\ owners \in [Blocks -> {0, 1}]
  /\ wholeChunks \subseteq Chunks

Held(c) == {a \in BlocksOf(c) : owners[a] > 0}

\* A header with these fields describes the blocks that are handed out.
Describes(c, top, maps, last, n) ==
  /\ top = BeyondRange \cup {m \in Indices : full(maps[m])}
  /\ maps \in [Indices -> SUBSET Bits] /\ last \in Indices
  /\ \A m \in Indices, o \in Bits :
       o \in maps[m] <=> owners[Address(c, m, o)] > 0
  /\ n = Cardinality(Held(c))

HeaderExact(c) ==
  Describes(c, topLevelMap[c], bitMap[c], bitMapIndex[c], allocatedSize[c])

ArenaInv ==
  ArenaTypeOK /\ NoDoubleGrant /\ \A c \in Listed : HeaderExact(c)

(* The properties are parts of it.                                         *)
LEMMA ArenaPromises == ArenaInv => GrantsExact /\ SummariesAgree
  BY DEF ArenaInv, HeaderExact, Describes, GrantsExact, BitsFollowOwners,
         SummariesAgree, Held

(* No chunk is listed.                                                     *)
LEMMA ArenaInit == Init => ArenaInv
  <1> SUFFICES ASSUME Init PROVE ArenaInv
    OBVIOUS
  <1>1. Listed = {} /\ 0 \in Indices
    BY Constants DEF Init, Listed
  <1> QED BY <1>1 DEF Init, ArenaInv, ArenaTypeOK, NoDoubleGrant
-----------------------------------------------------------------------------
(* Chunks that are full, and those that are not *)

(* The bit that is found is clear.                                         *)
LEMMA ClearFound ==
  ASSUME NEW map \in SUBSET Bits, map # Bits
  PROVE  getAvailableBlock(map) \in Bits \ map
  <1>1. Bits \ map \subseteq Nat /\ Bits \ map # {}
    <2>1. Bits \subseteq Nat
      BY Constants DEF Bits, B
    <2> QED BY <2>1
  <1>2. PICK b \in Bits \ map : \A o \in Bits \ map : b =< o
    BY <1>1, Least
  <1>3. ~(Bits \subseteq map)
    BY <1>1
  <1> QED BY <1>2, <1>3 DEF getAvailableBlock, FirstClear

(* A chunk that counts as many blocks as it has has handed out all of      *)
(* them, and one that counts fewer has not.                                *)
LEMMA FullWhenCounted ==
  ASSUME ArenaTypeOK, NEW c \in Chunks, HeaderExact(c)
  PROVE  ChunkFull(c) <=> \A a \in BlocksOf(c) : owners[a] > 0
  <1>1. /\ IsFiniteSet(BlocksOf(c)) /\ Cardinality(BlocksOf(c)) = R * B
        /\ Held(c) \in SUBSET BlocksOf(c)
    BY BlockCount DEF Held
  <1>2. ChunkFull(c) <=> Cardinality(Held(c)) = Cardinality(BlocksOf(c))
    BY <1>1 DEF HeaderExact, Describes, ChunkFull, R, B
  <1>3. ChunkFull(c) <=> Held(c) = BlocksOf(c)
    BY <1>1, <1>2, FS_Subset
  <1> QED BY <1>3 DEF Held

(* ChunkHeader::allocate finds a block that nobody holds, and describes    *)
(* the chunk with that block.                                              *)
LEMMA AllocateInGrants ==
  ASSUME ArenaTypeOK, NEW c \in Chunks, NEW top, NEW maps, NEW last, NEW n,
         Describes(c, top, maps, last, n),
         NEW free \in BlocksOf(c), owners[free] = 0,
         AllocateIn(c, top, maps, last, n)
  PROVE  \E a \in BlocksOf(c) :
           /\ owners[a] = 0 /\ owners' = [owners EXCEPT ![a] = 1]
           /\ topLevelMap' \in [Chunks -> SUBSET Bits]
           /\ bitMap' \in [Chunks -> [Indices -> SUBSET Bits]]
           /\ allocatedSize' \in [Chunks -> Int]
           /\ bitMapIndex' \in [Chunks -> Indices]
           /\ HeaderExact(c)'
           /\ \A d \in Chunks \ {c} :
                /\ topLevelMap'[d] = topLevelMap[d] /\ bitMap'[d] = bitMap[d]
                /\ allocatedSize'[d] = allocatedSize[d]
                /\ bitMapIndex'[d] = bitMapIndex[d]
  <1> DEFINE index == IndexToUse(top, last)
             offset == getAvailableBlock(maps[index])
             map == maps[index] \cup {offset}
             a == Address(c, index, offset)
  <1>1. index \in Indices /\ maps[index] \in SUBSET Bits /\ maps[index] # Bits
    <2>1. PICK m \in Indices, o \in Bits : free = Address(c, m, o)
      BY BlockPlace
    <2>2. maps[m] # Bits /\ m \in Bits \ top /\ top \in SUBSET Bits
      <3>1. o \notin maps[m]
        BY <2>1 DEF Describes
      <3> QED BY <3>1, Constants DEF Describes, full, BeyondRange
    <2>3. CASE last \in top
      <3>1. index \in Bits \ top
        BY <2>2, <2>3, ClearFound DEF IndexToUse
      <3> QED BY <3>1 DEF Describes, BeyondRange, full
    <2>4. CASE last \notin top
      BY <2>4 DEF IndexToUse, Describes, full
    <2> QED BY <2>3, <2>4
  <1> HIDE DEF index
  <1>2. offset \in Bits \ maps[index]
    BY <1>1, ClearFound
  <1> HIDE DEF offset
  <1>3. a \in BlocksOf(c) /\ a \in Blocks /\ owners[a] = 0
    <2>1. ~(owners[a] > 0)
      BY <1>1, <1>2 DEF Describes
    <2>2. a \in BlocksOf(c) /\ a \in Blocks
      BY <1>1, <1>2, AddressParts
    <2> QED BY <2>1, <2>2 DEF ArenaTypeOK
  <1>4. /\ topLevelMap' =
             [topLevelMap EXCEPT ![c] = TopMarked(top, index, map)]
        /\ bitMap' = [bitMap EXCEPT ![c] = [maps EXCEPT ![index] = map]]
        /\ bitMapIndex' = [bitMapIndex EXCEPT ![c] = index]
        /\ allocatedSize' = [allocatedSize EXCEPT ![c] = n + 1]
        /\ owners' = [owners EXCEPT ![a] = owners[a] + 1]
    BY DEF AllocateIn, index, offset
  <1>5. owners' = [owners EXCEPT ![a] = 1]
    BY <1>3, <1>4
  <1>6. /\ map \in SUBSET Bits /\ top \in SUBSET Bits
        /\ maps \in [Indices -> SUBSET Bits]
    BY <1>1, <1>2, Constants DEF Describes, BeyondRange
  <1>7. IsFiniteSet(Held(c)) /\ Cardinality(Held(c)) \in Nat
    BY BlockCount, FS_Subset, FS_CardinalityType DEF Held
  <1>8. HeaderExact(c)'
    <2>1. /\ topLevelMap'[c] = TopMarked(top, index, map)
          /\ bitMap'[c] = [maps EXCEPT ![index] = map]
          /\ bitMapIndex'[c] = index /\ allocatedSize'[c] = n + 1
      BY <1>4 DEF ArenaTypeOK
    <2>2. \A m \in Indices : bitMap'[c][m] = IF m = index THEN map ELSE maps[m]
      BY <1>1, <1>6, <2>1
    <2>3. bitMap'[c] \in [Indices -> SUBSET Bits]
      BY <1>1, <1>6, <2>1
    <2>4. ASSUME NEW m \in Indices, NEW o \in Bits
          PROVE  o \in bitMap'[c][m] <=> owners'[Address(c, m, o)] > 0
      <3>1. Address(c, m, o) = a <=> m = index /\ o = offset
        BY <1>1, <1>2, AddressParts DEF a
      <3>2. Address(c, m, o) \in Blocks
        BY AddressParts
      <3>3. o \in maps[m] <=> owners[Address(c, m, o)] > 0
        BY DEF Describes
      <3>4. CASE m = index /\ o = offset
        BY <1>5, <2>2, <3>1, <3>2, <3>4 DEF ArenaTypeOK
      <3>5. CASE ~(m = index /\ o = offset)
        BY <1>5, <2>2, <3>1, <3>2, <3>3, <3>5 DEF ArenaTypeOK
      <3> QED BY <3>4, <3>5
    <2>5. topLevelMap'[c] =
            BeyondRange \cup {m \in Indices : full(bitMap'[c][m])}
      BY <1>1, <2>1, <2>2 DEF Describes, TopMarked, full
    <2>6. Held(c)' = Held(c) \cup {a} /\ a \notin Held(c)
      <3>1. \A b \in BlocksOf(c) : b \in Blocks
        BY BlockPlace
      <3> QED BY <1>3, <1>5, <3>1 DEF Held, ArenaTypeOK
    <2>7. allocatedSize'[c] = Cardinality(Held(c)')
      <3>1. Cardinality(Held(c) \cup {a}) = Cardinality(Held(c)) + 1
        BY <1>7, <2>6, FS_AddElement
      <3>2. Cardinality(Held(c)') = Cardinality(Held(c) \cup {a})
        BY <2>6
      <3>3. n = Cardinality(Held(c))
        BY DEF Describes
      <3> QED BY <2>1, <3>1, <3>2, <3>3
    <2> QED BY <1>1, <2>1, <2>3, <2>4, <2>5, <2>7 DEF HeaderExact, Describes
  <1>9. /\ topLevelMap' \in [Chunks -> SUBSET Bits]
        /\ bitMap' \in [Chunks -> [Indices -> SUBSET Bits]]
        /\ allocatedSize' \in [Chunks -> Int]
        /\ bitMapIndex' \in [Chunks -> Indices]
    <2>1. TopMarked(top, index, map) \in SUBSET Bits
      BY <1>1, <1>6, Constants DEF TopMarked
    <2>2. n \in Int
      BY <1>7 DEF Describes
    <2>3. [maps EXCEPT ![index] = map] \in [Indices -> SUBSET Bits]
      BY <1>6
    <2>4. n + 1 \in Int
      BY <2>2
    <2> HIDE DEF map
    <2>5. topLevelMap' \in [Chunks -> SUBSET Bits]
      BY <1>4, <2>1 DEF ArenaTypeOK
    <2>6. bitMap' \in [Chunks -> [Indices -> SUBSET Bits]]
      BY <1>4, <2>3 DEF ArenaTypeOK
    <2>7. allocatedSize' \in [Chunks -> Int]
      BY <1>4, <2>4 DEF ArenaTypeOK
    <2>8. bitMapIndex' \in [Chunks -> Indices]
      BY <1>1, <1>4 DEF ArenaTypeOK
    <2> QED BY <2>5, <2>6, <2>7, <2>8
  <1>10. \A d \in Chunks \ {c} :
           /\ topLevelMap'[d] = topLevelMap[d] /\ bitMap'[d] = bitMap[d]
           /\ allocatedSize'[d] = allocatedSize[d]
           /\ bitMapIndex'[d] = bitMapIndex[d]
    BY <1>4 DEF ArenaTypeOK
  <1> HIDE DEF a
  <1> QED BY <1>3, <1>5, <1>8, <1>9, <1>10
-----------------------------------------------------------------------------
(* The steps *)

(* A chunk whose header and blocks a step leaves alone stays exact.        *)
LEMMA Unaffected ==
  ASSUME NEW d \in Chunks, HeaderExact(d),
         topLevelMap'[d] = topLevelMap[d], bitMap'[d] = bitMap[d],
         allocatedSize'[d] = allocatedSize[d],
         bitMapIndex'[d] = bitMapIndex[d],
         \A b \in BlocksOf(d) : owners'[b] = owners[b]
  PROVE  HeaderExact(d)'
  <1>1. Held(d)' = Held(d)
    BY DEF Held
  <1>2. \A m \in Indices, o \in Bits : Address(d, m, o) \in BlocksOf(d)
    BY DEF BlocksOf
  <1> QED BY <1>1, <1>2 DEF HeaderExact, Describes

(* A block belongs to one chunk only.                                      *)
LEMMA OtherBlocks ==
  ASSUME NEW c \in Chunks, NEW d \in Chunks \ {c}, NEW a \in BlocksOf(c)
  PROVE  a \notin BlocksOf(d)
  BY BlockPlace

(* The list holds chunks, which are the listed ones.                       *)
LEMMA ListedChunks == ArenaTypeOK => Listed \subseteq Chunks
  BY DEF ArenaTypeOK, Listed

(* A step that grants a free block of a chunk it keeps in the list, or     *)
(* puts there, keeps the invariant.                                        *)
LEMMA Granted ==
  ASSUME ArenaInv, NEW c \in Chunks, NEW a \in BlocksOf(c),
         owners[a] = 0, owners' = [owners EXCEPT ![a] = 1],
         topLevelMap' \in [Chunks -> SUBSET Bits],
         bitMap' \in [Chunks -> [Indices -> SUBSET Bits]],
         allocatedSize' \in [Chunks -> Int],
         bitMapIndex' \in [Chunks -> Indices],
         HeaderExact(c)',
         \A d \in Chunks \ {c} :
           /\ topLevelMap'[d] = topLevelMap[d] /\ bitMap'[d] = bitMap[d]
           /\ allocatedSize'[d] = allocatedSize[d]
           /\ bitMapIndex'[d] = bitMapIndex[d],
         smallChunk' \in Seq(Chunks), Listed' = Listed \cup {c},
         \A i, j \in 1 .. Len(smallChunk') :
           smallChunk'[i] = smallChunk'[j] => i = j,
         c \notin wholeChunks, wholeChunks' = wholeChunks
  PROVE  ArenaInv'
  <1>1. a \in Blocks /\ HeaderOf(a) = c
    BY BlockPlace
  <1>2. owners' \in [Blocks -> {0, 1}]
    BY <1>1 DEF ArenaInv, ArenaTypeOK
  <1>3. \A b \in Blocks : owners'[b] = IF b = a THEN 1 ELSE owners[b]
    BY <1>1 DEF ArenaInv, ArenaTypeOK
  <1>4. ArenaTypeOK'
    BY <1>2 DEF ArenaInv, ArenaTypeOK
  <1>5. NoDoubleGrant'
    <2>1. \A b \in Blocks : owners'[b] <= 1
      <3>1. ASSUME NEW b \in Blocks PROVE owners'[b] \in {0, 1}
        BY <1>2
      <3>2. \A x \in {0, 1} : x <= 1
        OBVIOUS
      <3> QED BY <3>1, <3>2
    <2>2. \A b \in Blocks : owners'[b] > 0 => HeaderOf(b) \in Listed'
      BY <1>1, <1>3 DEF ArenaInv, NoDoubleGrant
    <2>3. Listed' \cap wholeChunks' = {}
      BY DEF ArenaInv, NoDoubleGrant
    <2> QED BY <2>1, <2>2, <2>3 DEF NoDoubleGrant
  <1>6. ASSUME NEW d \in Listed' PROVE HeaderExact(d)'
    <2>1. CASE d = c
      BY <2>1
    <2>2. CASE d # c
      <3>1. d \in Listed /\ d \in Chunks \ {c} /\ HeaderExact(d)
        BY <2>2, ListedChunks DEF ArenaInv
      <3>2. ASSUME NEW b \in BlocksOf(d) PROVE owners'[b] = owners[b]
        BY <1>3, <3>1, BlockPlace, OtherBlocks
      <3> QED BY <3>1, <3>2, Unaffected
    <2> QED BY <2>1, <2>2
  <1> QED BY <1>4, <1>5, <1>6 DEF ArenaInv

(* A chunk of the list that is not full has a block to grant.              *)
LEMMA FromList == ArenaInv /\ AllocateFromList => ArenaInv'
  <1> SUFFICES ASSUME ArenaInv, AllocateFromList PROVE ArenaInv'
    OBVIOUS
  <1>1. PICK i \in 1 .. Len(smallChunk) :
          LET c == smallChunk[i]
          IN  /\ ~ChunkFull(c)
              /\ AllocateIn(c, topLevelMap[c], bitMap[c], bitMapIndex[c],
                            allocatedSize[c])
    BY DEF AllocateFromList
  <1>2. PICK c \in Chunks : c = smallChunk[i]
    BY ListedChunks DEF ArenaInv, Listed
  <1>3. c \in Listed /\ HeaderExact(c) /\ ArenaTypeOK
    BY <1>2 DEF ArenaInv, Listed
  <1>4. c \notin wholeChunks /\ Listed' = Listed \cup {c}
    BY <1>3 DEF ArenaInv, NoDoubleGrant, AllocateFromList, Listed
  <1>5. /\ ~ChunkFull(c)
        /\ AllocateIn(c, topLevelMap[c], bitMap[c], bitMapIndex[c],
                      allocatedSize[c])
    BY <1>1, <1>2
  <1>6. PICK free \in BlocksOf(c) : owners[free] = 0
    <2>1. PICK b \in BlocksOf(c) : ~(owners[b] > 0)
      BY <1>3, <1>5, FullWhenCounted
    <2>2. b \in Blocks
      BY BlockPlace
    <2> QED BY <1>3, <2>1, <2>2 DEF ArenaTypeOK
  <1>7. Describes(c, topLevelMap[c], bitMap[c], bitMapIndex[c],
                  allocatedSize[c])
    BY <1>3 DEF HeaderExact
  <1>8. PICK a \in BlocksOf(c) :
          /\ owners[a] = 0 /\ owners' = [owners EXCEPT ![a] = 1]
          /\ topLevelMap' \in [Chunks -> SUBSET Bits]
          /\ bitMap' \in [Chunks -> [Indices -> SUBSET Bits]]
          /\ allocatedSize' \in [Chunks -> Int]
          /\ bitMapIndex' \in [Chunks -> Indices]
          /\ HeaderExact(c)'
          /\ \A d \in Chunks \ {c} :
               /\ topLevelMap'[d] = topLevelMap[d] /\ bitMap'[d] = bitMap[d]
               /\ allocatedSize'[d] = allocatedSize[d]
               /\ bitMapIndex'[d] = bitMapIndex[d]
    BY <1>3, <1>5, <1>6, <1>7, AllocateInGrants
  <1>9. /\ smallChunk' \in Seq(Chunks) /\ wholeChunks' = wholeChunks
        /\ \A k, j \in 1 .. Len(smallChunk') :
             smallChunk'[k] = smallChunk'[j] => k = j
    BY DEF ArenaInv, ArenaTypeOK, NoDoubleGrant, AllocateFromList
  <1> QED BY <1>4, <1>8, <1>9, Granted

(* Nobody holds a block of a chunk that is not listed, as the header of a  *)
(* new chunk says.                                                         *)
LEMMA NewDescribed ==
  ASSUME ArenaInv, NEW c \in Unmapped
  PROVE  /\ Describes(c, BeyondRange, [m \in Indices |-> {}], 0, 0)
         /\ \A a \in BlocksOf(c) : owners[a] = 0
  <1>1. c \in Chunks /\ c \notin Listed /\ 0 \in Indices /\ 0 \in Bits
    BY Constants DEF Unmapped, Bits, B
  <1>2. ASSUME NEW a \in BlocksOf(c) PROVE owners[a] = 0
    <2>1. a \in Blocks /\ HeaderOf(a) = c
      BY <1>1, BlockPlace
    <2>2. ~(owners[a] > 0)
      BY <1>1, <2>1 DEF ArenaInv, NoDoubleGrant
    <2> QED BY <2>1, <2>2 DEF ArenaInv, ArenaTypeOK
  <1>3. Held(c) = {}
    BY <1>2 DEF Held
  <1>4. \A m \in Indices, o \in Bits : Address(c, m, o) \in BlocksOf(c)
    BY DEF BlocksOf
  <1>5. Cardinality(Held(c)) = 0
    BY <1>3, FS_EmptySet
  <1>6. \A m \in Indices : ~full([k \in Indices |-> {}][m])
    BY <1>1 DEF full
  <1> QED BY <1>1, <1>2, <1>4, <1>5, <1>6 DEF Describes

(* The new chunk is put at the head of the list, where it is the only one  *)
(* of its address.                                                         *)
LEMMA FromNewChunk == ArenaInv /\ AllocateFromNewChunk => ArenaInv'
  <1> SUFFICES ASSUME ArenaInv, AllocateFromNewChunk PROVE ArenaInv'
    OBVIOUS
  <1>1. PICK c \in Unmapped :
          /\ AllocateIn(c, BeyondRange, [m \in Indices |-> {}], 0, 0)
          /\ smallChunk' = <<c>> \o smallChunk
    BY DEF AllocateFromNewChunk
  <1>2. c \in Chunks /\ c \notin Listed /\ c \notin wholeChunks /\ ArenaTypeOK
    BY DEF Unmapped, ArenaInv
  <1>3. /\ Describes(c, BeyondRange, [m \in Indices |-> {}], 0, 0)
        /\ \A a \in BlocksOf(c) : owners[a] = 0
    BY NewDescribed
  <1>4. PICK free \in BlocksOf(c) : owners[free] = 0
    <2>1. 0 \in Indices /\ 0 \in Bits
      BY Constants DEF Bits, B
    <2>2. Address(c, 0, 0) \in BlocksOf(c)
      BY <2>1 DEF BlocksOf
    <2> QED BY <1>3, <2>2
  <1>5. PICK a \in BlocksOf(c) :
          /\ owners[a] = 0 /\ owners' = [owners EXCEPT ![a] = 1]
          /\ topLevelMap' \in [Chunks -> SUBSET Bits]
          /\ bitMap' \in [Chunks -> [Indices -> SUBSET Bits]]
          /\ allocatedSize' \in [Chunks -> Int]
          /\ bitMapIndex' \in [Chunks -> Indices]
          /\ HeaderExact(c)'
          /\ \A d \in Chunks \ {c} :
               /\ topLevelMap'[d] = topLevelMap[d] /\ bitMap'[d] = bitMap[d]
               /\ allocatedSize'[d] = allocatedSize[d]
               /\ bitMapIndex'[d] = bitMapIndex[d]
    BY <1>1, <1>2, <1>3, <1>4, AllocateInGrants
  <1>6. /\ smallChunk' \in Seq(Chunks) /\ Len(smallChunk) \in Nat
        /\ Len(smallChunk') = Len(smallChunk) + 1
        /\ \A i \in 1 .. Len(smallChunk') :
             smallChunk'[i] = IF i = 1 THEN c ELSE smallChunk[i - 1]
    BY <1>1, <1>2 DEF ArenaTypeOK
  <1>7. \A i \in 1 .. Len(smallChunk) : smallChunk[i] # c
    BY <1>2 DEF Listed
  <1>8. Listed' = Listed \cup {c}
    <2>1. ASSUME NEW i \in 1 .. Len(smallChunk)
          PROVE  /\ i + 1 \in 1 .. Len(smallChunk')
                 /\ smallChunk'[i + 1] = smallChunk[i]
      BY <1>6
    <2>2. 1 \in 1 .. Len(smallChunk') /\ smallChunk'[1] = c
      BY <1>6
    <2>3. \A i \in 1 .. Len(smallChunk') :
            i # 1 => /\ i - 1 \in 1 .. Len(smallChunk)
                     /\ smallChunk'[i] = smallChunk[i - 1]
      BY <1>6
    <2>4. \A i \in 1 .. Len(smallChunk') : smallChunk'[i] \in Listed \cup {c}
      BY <2>2, <2>3 DEF Listed
    <2>5. Listed' \subseteq Listed \cup {c}
      BY <2>4 DEF Listed
    <2>6. Listed \subseteq Listed' /\ c \in Listed'
      BY <2>1, <2>2 DEF Listed
    <2> QED BY <2>5, <2>6
  <1>9. ASSUME NEW i \in 1 .. Len(smallChunk'),
               NEW j \in 1 .. Len(smallChunk'), smallChunk'[i] = smallChunk'[j]
        PROVE  i = j
    <2>1. \A k \in 1 .. Len(smallChunk') :
            k = 1 \/ k - 1 \in 1 .. Len(smallChunk)
      BY <1>6
    <2>2. \A k, l \in 1 .. Len(smallChunk) :
            smallChunk[k] = smallChunk[l] => k = l
      BY DEF ArenaInv, NoDoubleGrant
    <2>3. CASE i = 1 \/ j = 1
      BY <1>6, <1>7, <1>9, <2>1, <2>3
    <2>4. CASE i # 1 /\ j # 1
      <3>1. /\ i - 1 \in 1 .. Len(smallChunk) /\ j - 1 \in 1 .. Len(smallChunk)
            /\ smallChunk[i - 1] = smallChunk[j - 1]
        BY <1>6, <1>9, <2>1, <2>4
      <3>2. i - 1 = j - 1
        BY <2>2, <3>1
      <3> QED BY <3>2
    <2> QED BY <2>3, <2>4
  <1>10. wholeChunks' = wholeChunks
    BY DEF AllocateFromNewChunk
  <1> QED BY <1>2, <1>5, <1>6, <1>8, <1>9, <1>10, Granted

(* Chunks of one's own come from the rest of the address space.            *)
LEMMA WholeChunk ==
  ASSUME ArenaInv, UNCHANGED <<smallChunk, header, owners>>,
         wholeChunks' \subseteq Chunks, Listed \cap wholeChunks' = {}
  PROVE  ArenaInv'
  <1>1. /\ smallChunk' = smallChunk /\ topLevelMap' = topLevelMap
        /\ bitMap' = bitMap /\ allocatedSize' = allocatedSize
        /\ bitMapIndex' = bitMapIndex /\ owners' = owners
    BY DEF header
  <1>2. Listed' = Listed
    BY <1>1 DEF Listed
  <1>3. ASSUME NEW d \in Listed PROVE HeaderExact(d)'
    BY <1>1, Unaffected, ListedChunks DEF ArenaInv
  <1>4. ArenaTypeOK'
    BY <1>1 DEF ArenaInv, ArenaTypeOK
  <1>5. NoDoubleGrant'
    BY <1>1, <1>2 DEF ArenaInv, NoDoubleGrant
  <1> QED BY <1>2, <1>3, <1>4, <1>5 DEF ArenaInv

(* A block that is given back is found again in its chunk: its bit is      *)
(* cleared, its bitmap no longer full.                                     *)
LEMMA Returned ==
  ASSUME ArenaInv, NEW a \in Blocks, Deallocate(a)
  PROVE  ArenaInv'
  <1>1. PICK c \in Chunks : a \in BlocksOf(c)
    BY DEF Blocks
  <1>2. PICK index \in Indices, bit \in Bits : a = Address(c, index, bit)
    BY <1>1, BlockPlace
  <1>3. /\ HeaderOf(a) = c
        /\ ((a - HeaderOf(a)) - HEADER) \div B = index
        /\ ((a - HeaderOf(a)) - HEADER) % B = bit
    BY <1>2, AddressParts
  <1>4. /\ owners[a] > 0
        /\ bitMapIndex' = [bitMapIndex EXCEPT ![c] = index]
        /\ topLevelMap' = [topLevelMap EXCEPT ![c] = @ \ {index}]
        /\ bitMap' = [bitMap EXCEPT ![c][index] = @ \ {bit}]
        /\ allocatedSize' = [allocatedSize EXCEPT ![c] = @ - 1]
        /\ owners' = [owners EXCEPT ![a] = @ - 1]
        /\ smallChunk' = smallChunk /\ wholeChunks' = wholeChunks
    BY <1>3 DEF Deallocate, TopCleared, B
  <1>5. ArenaTypeOK /\ NoDoubleGrant
    BY DEF ArenaInv
  <1>6. owners[a] = 1 /\ owners' = [owners EXCEPT ![a] = 0]
    <2>1. owners[a] = 1
      BY <1>4, <1>5 DEF ArenaTypeOK
    <2> QED BY <1>4, <2>1
  <1>7. \A b \in Blocks : owners'[b] = IF b = a THEN 0 ELSE owners[b]
    BY <1>6, <1>5 DEF ArenaTypeOK
  <1>8. c \in Listed /\ Listed' = Listed /\ HeaderExact(c)
    <2>1. c \in Listed
      BY <1>3, <1>4, <1>5 DEF NoDoubleGrant
    <2> QED BY <1>4, <2>1 DEF Listed, ArenaInv
  <1>9. ArenaTypeOK'
    <2>1. owners' \in [Blocks -> {0, 1}]
      BY <1>5, <1>6 DEF ArenaTypeOK
    <2>2. topLevelMap' \in [Chunks -> SUBSET Bits]
      BY <1>4, <1>5 DEF ArenaTypeOK
    <2>3. bitMap' \in [Chunks -> [Indices -> SUBSET Bits]]
      BY <1>4, <1>5 DEF ArenaTypeOK
    <2>4. allocatedSize' \in [Chunks -> Int]
      BY <1>4, <1>5 DEF ArenaTypeOK
    <2>5. bitMapIndex' \in [Chunks -> Indices]
      BY <1>4, <1>5 DEF ArenaTypeOK
    <2> QED BY <1>4, <1>5, <2>1, <2>2, <2>3, <2>4, <2>5 DEF ArenaTypeOK
  <1>10. NoDoubleGrant'
    <2>1. \A b \in Blocks : owners'[b] <= 1
      <3>1. ASSUME NEW b \in Blocks PROVE owners'[b] \in {0, 1}
        BY <1>9 DEF ArenaTypeOK
      <3> QED BY <3>1
    <2>2. \A b \in Blocks : owners'[b] > 0 => HeaderOf(b) \in Listed'
      BY <1>5, <1>7, <1>8 DEF NoDoubleGrant
    <2> QED BY <1>4, <1>5, <1>8, <2>1, <2>2 DEF NoDoubleGrant
  <1>11. HeaderExact(c)'
    <2>1. /\ topLevelMap'[c] = topLevelMap[c] \ {index}
          /\ bitMapIndex'[c] = index
          /\ allocatedSize'[c] = allocatedSize[c] - 1
      BY <1>4, <1>5 DEF ArenaTypeOK
    <2>2. \A m \in Indices :
            bitMap'[c][m] = IF m = index THEN bitMap[c][m] \ {bit}
                            ELSE bitMap[c][m]
      BY <1>4, <1>5 DEF ArenaTypeOK
    <2>3. bitMap'[c] \in [Indices -> SUBSET Bits]
      BY <1>9 DEF ArenaTypeOK
    <2>4. ASSUME NEW m \in Indices, NEW o \in Bits
          PROVE  o \in bitMap'[c][m] <=> owners'[Address(c, m, o)] > 0
      <3>1. Address(c, m, o) = a <=> m = index /\ o = bit
        BY <1>2, AddressParts
      <3>2. Address(c, m, o) \in Blocks
        BY AddressParts
      <3>3. o \in bitMap[c][m] <=> owners[Address(c, m, o)] > 0
        BY <1>8 DEF HeaderExact, Describes
      <3>4. CASE m = index /\ o = bit
        <4>1. owners'[Address(c, m, o)] = 0 /\ ~(0 > 0)
          BY <1>7, <3>1, <3>2, <3>4
        <4>2. o \notin bitMap'[c][m]
          BY <2>2, <3>4
        <4> QED BY <4>1, <4>2
      <3>5. CASE ~(m = index /\ o = bit)
        <4>1. owners'[Address(c, m, o)] = owners[Address(c, m, o)]
          BY <1>7, <3>1, <3>2, <3>5
        <4>2. o \in bitMap'[c][m] <=> o \in bitMap[c][m]
          BY <2>2, <3>5
        <4> QED BY <3>3, <4>1, <4>2
      <3> QED BY <3>4, <3>5
    <2>5. topLevelMap'[c] =
            BeyondRange \cup {m \in Indices : full(bitMap'[c][m])}
      <3>1. topLevelMap[c] =
              BeyondRange \cup {m \in Indices : full(bitMap[c][m])}
        BY <1>8 DEF HeaderExact, Describes
      <3>2. \A m \in Indices :
              full(bitMap'[c][m]) <=> m # index /\ full(bitMap[c][m])
        BY <2>2 DEF full
      <3>3. index \notin BeyondRange
        BY DEF BeyondRange
      <3> QED BY <2>1, <3>1, <3>2, <3>3
    <2>6. Held(c)' = Held(c) \ {a} /\ a \in Held(c)
      <3>1. \A b \in BlocksOf(c) : b \in Blocks
        BY BlockPlace
      <3> QED BY <1>1, <1>4, <1>7, <3>1 DEF Held
    <2>7. allocatedSize'[c] = Cardinality(Held(c)')
      <3>1. IsFiniteSet(Held(c))
        BY BlockCount, FS_Subset DEF Held
      <3>2. Cardinality(Held(c) \ {a}) = Cardinality(Held(c)) - 1
        BY <2>6, <3>1, FS_RemoveElement
      <3>3. Cardinality(Held(c)') = Cardinality(Held(c) \ {a})
        BY <2>6
      <3>4. allocatedSize[c] = Cardinality(Held(c))
        BY <1>8 DEF HeaderExact, Describes
      <3> QED BY <2>1, <3>2, <3>3, <3>4
    <2> QED BY <2>1, <2>3, <2>4, <2>5, <2>7 DEF HeaderExact, Describes
  <1>12. ASSUME NEW d \in Listed' PROVE HeaderExact(d)'
    <2>1. CASE d = c
      BY <1>11, <2>1
    <2>2. CASE d # c
      <3>1. d \in Chunks \ {c} /\ HeaderExact(d)
        BY <1>5, <1>8, <2>2, ListedChunks DEF ArenaInv
      <3>2. ASSUME NEW b \in BlocksOf(d) PROVE owners'[b] = owners[b]
        BY <1>1, <1>7, <3>1, BlockPlace, OtherBlocks
      <3>3. /\ topLevelMap'[d] = topLevelMap[d] /\ bitMap'[d] = bitMap[d]
            /\ allocatedSize'[d] = allocatedSize[d]
            /\ bitMapIndex'[d] = bitMapIndex[d]
        BY <1>4, <1>5, <3>1 DEF ArenaTypeOK
      <3> QED BY <3>1, <3>2, <3>3, Unaffected
    <2> QED BY <2>1, <2>2
  <1> QED BY <1>9, <1>10, <1>12 DEF ArenaInv

(* Every step of the arena keeps the invariant.                            *)
LEMMA ArenaStep == ArenaInv /\ [Next]_vars => ArenaInv'
  <1> SUFFICES ASSUME ArenaInv, [Next]_vars PROVE ArenaInv'
    OBVIOUS
  <1>1. CASE AllocateFromList
    BY <1>1, FromList
  <1>2. CASE AllocateFromNewChunk
    BY <1>2, FromNewChunk
  <1>3. CASE AllocateWholeChunk
    BY <1>3, WholeChunk
       DEF AllocateWholeChunk, Unmapped, ArenaInv, ArenaTypeOK, NoDoubleGrant
  <1>4. ASSUME NEW a \in Blocks, Deallocate(a) PROVE ArenaInv'
    BY <1>4, Returned
  <1>5. ASSUME NEW c \in Chunks, DeallocateWholeChunk(c) PROVE ArenaInv'
    BY <1>5, WholeChunk
       DEF DeallocateWholeChunk, ArenaInv, ArenaTypeOK, NoDoubleGrant
  <1>6. CASE DeallocateAll
    <2>1. Listed' = {} /\ 0 \in Indices
      BY <1>6, Constants DEF DeallocateAll, Listed
    <2> QED BY <1>6, <2>1
            DEF DeallocateAll, ArenaInv, ArenaTypeOK, NoDoubleGrant
  <1>7. CASE NewChunkFaults
    BY <1>7, WholeChunk
       DEF NewChunkFaults, ArenaInv, ArenaTypeOK, NoDoubleGrant
  <1>8. CASE UNCHANGED vars
    BY <1>8, WholeChunk DEF vars, ArenaInv, ArenaTypeOK, NoDoubleGrant
  <1> QED BY <1>1, <1>2, <1>3, <1>4, <1>5, <1>6, <1>7, <1>8 DEF Next

(* The header of every chunk describes its blocks in every state.          *)
LEMMA ArenaInvariant == Spec => []ArenaInv
  BY ArenaInit, ArenaStep, PTL DEF Spec

(* Only the step that maps a chunk lengthens the list, and it is taken     *)
(* with every chunk counted full.                                          *)
LEMMA GrowthStep ==
  ASSUME ArenaInv, [Next]_vars, Len(smallChunk') > Len(smallChunk),
         NEW c \in Listed, NEW a \in BlocksOf(c)
  PROVE  owners[a] > 0
  <1>1. AllocateFromNewChunk
    <2>1. Len(smallChunk) \in Nat /\ ~(Len(smallChunk) > Len(smallChunk))
      BY DEF ArenaInv, ArenaTypeOK
    <2>2. smallChunk' # smallChunk /\ smallChunk' # <<>>
      BY <2>1
    <2> QED BY <2>2
            DEF Next, AllocateFromList, NewChunkFaults, AllocateWholeChunk,
                Deallocate, DeallocateWholeChunk, DeallocateAll, vars
  <1>2. ChunkFull(c)
    BY <1>1 DEF AllocateFromNewChunk, Listed
  <1>3. c \in Chunks /\ HeaderExact(c) /\ ArenaTypeOK
    BY ListedChunks DEF ArenaInv
  <1> QED BY <1>2, <1>3, FullWhenCounted
-----------------------------------------------------------------------------
(* The properties *)

\* No block is granted twice, or outside the chunks of the arena, and the
\* bitmaps of ChunkHeader know which blocks are held.
THEOREM GrantsAreExact == Spec => []GrantsExact
  BY ArenaInvariant, ArenaPromises, PTL

\* topLevelMap and allocatedSize, which ChunkHeader::allocate, full and
\* deallocate update beside the bitmaps, always agree with them.
THEOREM SummariesAlwaysAgree == Spec => []SummariesAgree
  BY ArenaInvariant, ArenaPromises, PTL

\* Arena::allocate maps a chunk only when every block of the chunks it has
\* is held.
THEOREM ArenaGrowsOnlyWhenFull == Spec => GrowsOnlyWhenFull
  <1>1. ArenaInv /\ [Next]_vars =>
          [Len(smallChunk') > Len(smallChunk) =>
             \A c \in Listed : \A a \in BlocksOf(c) : owners[a] > 0]_vars
    BY GrowthStep
  <1> QED BY <1>1, ArenaInvariant, PTL DEF Spec, GrowsOnlyWhenFull
=============================================================================
