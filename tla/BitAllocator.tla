---------------------------- MODULE BitAllocator ----------------------------
(***************************************************************************)
(* core2/allocator/bit_allocator: the arena of one thread (threadArena is  *)
(* thread_local) and the chunks in its list, used by that thread alone.    *)
(*                                                                         *)
(* A chunk is CHUNK_SIZE bytes at a multiple of CHUNK_SIZE: four pages of  *)
(* header with the bitmaps, then the blocks.  Sizes and addresses are      *)
(* counted in blocks of 16 bytes, the only size Arena::allocate hands out, *)
(* and a BitMap is the set of its bits that are set.                       *)
(***************************************************************************)
EXTENDS Integers, FiniteSets, Sequences

CONSTANTS
  BIT_PER_CACHE_LINE,    \* bits of a BitMap: 512
  bitMapRange,           \* bitmaps of a chunk in use: 254 for 16-byte blocks
  HEADER,                \* blocks taken up by the header: 4 pages, 1024
  CHUNK_SIZE,            \* blocks of a chunk: 2 MB, 131072
  Places                 \* bound: chunks the address space has room for

Bits    == 0 .. BIT_PER_CACHE_LINE - 1
Indices == 0 .. bitMapRange - 1
NPOS    == BIT_PER_CACHE_LINE

ASSUME AllocatorAssumption ==
  /\ BIT_PER_CACHE_LINE \in Nat \ {0}
  /\ bitMapRange \in 1 .. BIT_PER_CACHE_LINE
  /\ HEADER \in Nat \ {0}
  /\ CHUNK_SIZE = HEADER + bitMapRange * BIT_PER_CACHE_LINE
  /\ Places \in Nat

Chunks == {n * CHUNK_SIZE : n \in 1 .. Places}

VARIABLES
  smallChunk,      \* the list of the arena, from smallChunk[0].next on
  topLevelMap,     \* of each chunk: the bitmaps that are full
  bitMap,          \* of each chunk: its bitmaps
  allocatedSize,
  bitMapIndex,
  owners,          \* history: how often each block is handed out
  wholeChunks,     \* chunks handed out as a whole (size == CHUNK_SIZE)
  faulted          \* the program has written to nullptr, and ended

header == <<topLevelMap, bitMap, allocatedSize, bitMapIndex>>
vars   == <<smallChunk, header, owners, wholeChunks, faulted>>

Listed == {smallChunk[i] : i \in 1 .. Len(smallChunk)}

\* The addresses of all blocks, with the chunk, bitmap and bit of each.
Address(c, index, offset) ==
  c + HEADER + (index * BIT_PER_CACHE_LINE + offset)
BlocksOf(c) == {Address(c, m, o) : m \in Indices, o \in Bits}
Blocks == UNION {BlocksOf(c) : c \in Chunks}

Init ==
  /\ smallChunk = <<>>
  /\ topLevelMap = [c \in Chunks |-> {}]
  /\ bitMap = [c \in Chunks |-> [m \in Indices |-> {}]]
  /\ allocatedSize = [c \in Chunks |-> 0]
  /\ bitMapIndex = [c \in Chunks |-> 0]
  /\ owners = [a \in Blocks |-> 0]
  /\ wholeChunks = {}
  /\ faulted = FALSE
-----------------------------------------------------------------------------
(* BitMap *)

FirstClear(map, bits) ==
  IF bits \subseteq map THEN NPOS
  ELSE CHOOSE b \in bits \ map : \A o \in bits \ map : b <= o

full(map) == map = Bits

getAvailableBlock(map) == FirstClear(map, Bits)

(* ChunkHeader *)

BeyondRange == Bits \ Indices

\* faulty variant: the chunk counts as full with the bitmap used last
FullByIndex(c) == bitMapIndex[c] \in topLevelMap[c]

ChunkFull(c) == allocatedSize[c] = bitMapRange * BIT_PER_CACHE_LINE

\* faulty variant: the bitmap used last is tried whether it is full or not
SameIndex(top, last) == last

\* The bitmap ChunkHeader::allocate takes a block from.
IndexToUse(top, last) ==
  IF last \in top THEN getAvailableBlock(top) ELSE last

TopMarked(top, index, map) == IF full(map) THEN top \cup {index} ELSE top

\* ChunkHeader::allocate on a chunk that is not full, whose top-level map
\* and bitmaps are top and maps.
AllocateIn(c, top, maps, last, count) ==
  LET index  == IndexToUse(top, last)
      offset == getAvailableBlock(maps[index])
      map    == maps[index] \cup {offset}
      addr   == Address(c, index, offset)
  IN  /\ topLevelMap' = [topLevelMap EXCEPT ![c] = TopMarked(top, index, map)]
      /\ bitMap' = [bitMap EXCEPT ![c] = [maps EXCEPT ![index] = map]]
      /\ bitMapIndex' = [bitMapIndex EXCEPT ![c] = index]
      /\ allocatedSize' = [allocatedSize EXCEPT ![c] = count + 1]
      /\ owners' = [owners EXCEPT ![addr] = @ + 1]
-----------------------------------------------------------------------------
(* Arena::allocate *)

\* The first chunk of the list with a free block.
AllocateFromList ==
  /\ \E i \in 1 .. Len(smallChunk) :
       LET c == smallChunk[i]
       IN  /\ ~ChunkFull(c)
           /\ \A j \in 1 .. i - 1 : ChunkFull(smallChunk[j])
           /\ AllocateIn(c, topLevelMap[c], bitMap[c], bitMapIndex[c],
                         allocatedSize[c])
  /\ UNCHANGED <<smallChunk, wholeChunks, faulted>>

Unmapped == Chunks \ (Listed \cup wholeChunks)

\* Every chunk is full: mmap returns a new one, filled with zeros, which is
\* constructed and put at the head of the list.
AllocateFromNewChunk ==
  /\ \A i \in 1 .. Len(smallChunk) : ChunkFull(smallChunk[i])
  /\ \E c \in Unmapped :
       /\ AllocateIn(c, BeyondRange, [m \in Indices |-> {}], 0, 0)
       /\ smallChunk' = <<c>> \o smallChunk
  /\ UNCHANGED <<wholeChunks, faulted>>

\* Every chunk is full and mmap fails: allocateAlignedChunk returns nullptr,
\* and a header is constructed there.
NewChunkFaults ==
  /\ \A i \in 1 .. Len(smallChunk) : ChunkFull(smallChunk[i])
  /\ faulted' = TRUE
  /\ UNCHANGED <<smallChunk, header, owners, wholeChunks>>

\* size == CHUNK_SIZE.  If mmap fails the caller gets nullptr, a stutter.
AllocateWholeChunk ==
  /\ \E c \in Unmapped : wholeChunks' = wholeChunks \cup {c}
  /\ UNCHANGED <<smallChunk, header, owners, faulted>>

(* deallocate and deallocateAll *)

HeaderOf(addr) == addr - (addr % CHUNK_SIZE)

\* faulty variant: the bitmap stays marked as full
TopKept(top, index) == top

TopCleared(top, index) == top \ {index}

\* The caller gives back a block it holds.
Deallocate(addr) ==
  LET c      == HeaderOf(addr)
      offset == (addr - c) - HEADER
      index  == offset \div BIT_PER_CACHE_LINE
      bit    == offset % BIT_PER_CACHE_LINE
  IN  /\ owners[addr] > 0
      /\ bitMapIndex' = [bitMapIndex EXCEPT ![c] = index]
      /\ topLevelMap' = [topLevelMap EXCEPT ![c] = TopCleared(@, index)]
      /\ bitMap' = [bitMap EXCEPT ![c][index] = @ \ {bit}]
      /\ allocatedSize' = [allocatedSize EXCEPT ![c] = @ - 1]
      /\ owners' = [owners EXCEPT ![addr] = @ - 1]
      /\ UNCHANGED <<smallChunk, wholeChunks, faulted>>

DeallocateWholeChunk(c) ==
  /\ c \in wholeChunks
  /\ wholeChunks' = wholeChunks \ {c}
  /\ UNCHANGED <<smallChunk, header, owners, faulted>>

\* Every chunk in the list is unmapped, and with it its header and its blocks.
DeallocateAll ==
  /\ smallChunk' = <<>>
  /\ topLevelMap' = [c \in Chunks |-> {}]
  /\ bitMap' = [c \in Chunks |-> [m \in Indices |-> {}]]
  /\ allocatedSize' = [c \in Chunks |-> 0]
  /\ bitMapIndex' = [c \in Chunks |-> 0]
  /\ owners' = [a \in Blocks |-> 0]
  /\ UNCHANGED <<wholeChunks, faulted>>

Next ==
  /\ ~faulted
  /\ \/ AllocateFromList \/ AllocateFromNewChunk \/ NewChunkFaults
     \/ AllocateWholeChunk
     \/ \E a \in Blocks : Deallocate(a)
     \/ \E c \in Chunks : DeallocateWholeChunk(c)
     \/ DeallocateAll

Spec == Init /\ [][Next]_vars
-----------------------------------------------------------------------------
(* Properties *)

\* No block is handed out twice, none lies in a chunk that is not in the
\* list of the arena or was handed out as a whole.
NoDoubleGrant ==
  /\ \A a \in Blocks : owners[a] <= 1
  /\ \A a \in Blocks : owners[a] > 0 => HeaderOf(a) \in Listed
  /\ Listed \cap wholeChunks = {}
  /\ \A i, j \in 1 .. Len(smallChunk) : smallChunk[i] = smallChunk[j] => i = j

\* The bit of a block is set exactly while somebody holds the block (so the
\* assertion in deallocate holds).
BitsFollowOwners ==
  \A c \in Listed, m \in Indices, o \in Bits :
    o \in bitMap[c][m] <=> owners[Address(c, m, o)] > 0

\* Blocks are granted once, and the bitmaps know which.
GrantsExact == NoDoubleGrant /\ BitsFollowOwners

\* The two summaries of a chunk agree with its bitmaps: the top-level map
\* marks those that are full, and those that do not exist, and allocatedSize
\* counts their bits.
SummariesAgree ==
  \A c \in Listed :
    /\ topLevelMap[c] = BeyondRange \cup {m \in Indices : full(bitMap[c][m])}
    /\ allocatedSize[c] = Cardinality({a \in BlocksOf(c) : owners[a] > 0})

\* A chunk is mapped for small blocks only when every block of every chunk
\* in the list is held.
GrowsOnlyWhenFull ==
  [][Len(smallChunk') > Len(smallChunk) =>
       \A c \in Listed : \A a \in BlocksOf(c) : owners[a] > 0]_vars
=============================================================================
