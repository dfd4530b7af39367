---------------------------- MODULE AlignedChunk ----------------------------
(***************************************************************************)
(* allocateAlignedChunk, allocateAlignedChunkSlow and                      *)
(* deallocateAlignedChunk of core2/allocator/bit_allocator/Utility.h: how  *)
(* threads get chunks aligned to their size out of mmap and munmap.        *)
(*                                                                         *)
(* Addresses and sizes are counted in pages.  Each system call is one      *)
(* action, and other threads run between two of them.  mmap may return any *)
(* free pages, or fail.  PageServer composes this with the threads that    *)
(* call it.                                                                *)
(***************************************************************************)
EXTENDS Integers

CONSTANTS
  Threads,
  CHUNK_SIZE,    \* pages of a chunk: 512
  FLOOR,         \* the first page mmap ever returns
  SPACE          \* bound: pages of the address space from FLOOR on

ASSUME ChunkAssumption ==
  /\ CHUNK_SIZE \in Nat \ {0} /\ SPACE \in Nat
  /\ FLOOR \in Nat /\ FLOOR >= CHUNK_SIZE + CHUNK_SIZE

VARIABLES
  mapped,    \* the pages that are mapped
  held,      \* the addresses of the chunks each thread has been given
  pc,
  addr,      \* the locals of allocateAlignedChunkSlow, 0 when not in use
  offset

chunkVars == <<mapped, held, pc, addr, offset>>

Pages == FLOOR .. FLOOR + SPACE - 1
PageRange(a, n) == a .. a + n - 1
nullptr == 0

chunkOffset(a) == a % CHUNK_SIZE
-----------------------------------------------------------------------------
(* The kernel *)

\* mmap(nullptr, n, ...) = a
Mmap(a, n) ==
  /\ PageRange(a, n) \subseteq Pages \ mapped
  /\ mapped' = mapped \cup PageRange(a, n)

\* munmap(a, n), which takes away whatever is mapped there
Munmap(a, n) == mapped' = mapped \ PageRange(a, n)

At(t, here, there) == pc[t] = here /\ pc' = [pc EXCEPT ![t] = there]
Give(t, a) == held' = [held EXCEPT ![t] = @ \cup {a}]
-----------------------------------------------------------------------------
(* allocateAlignedChunk *)

allocateAlignedChunk(t) ==
  /\ At(t, "idle", "map")
  /\ UNCHANGED <<mapped, held, addr, offset>>

MapAligned(t) ==
  /\ At(t, "map", "idle")
  /\ \E a \in Pages : chunkOffset(a) = 0 /\ Mmap(a, CHUNK_SIZE) /\ Give(t, a)
  /\ UNCHANGED <<addr, offset>>

MapUnaligned(t) ==
  /\ At(t, "map", "unmap")
  /\ \E a \in Pages : /\ chunkOffset(a) # 0
                      /\ Mmap(a, CHUNK_SIZE)
                      /\ addr' = [addr EXCEPT ![t] = a]
  /\ UNCHANGED <<held, offset>>

UnmapUnaligned(t) ==
  /\ At(t, "unmap", "slow")
  /\ Munmap(addr[t], CHUNK_SIZE)
  /\ addr' = [addr EXCEPT ![t] = 0]
  /\ UNCHANGED <<held, offset>>

(* allocateAlignedChunkSlow *)

MapSlow(t) ==
  /\ At(t, "slow", "trim")
  /\ \E a \in Pages : /\ Mmap(a, CHUNK_SIZE + CHUNK_SIZE)
                      /\ addr' = [addr EXCEPT ![t] = a]
  /\ UNCHANGED <<held, offset>>

HeadLength(t) == CHUNK_SIZE - chunkOffset(addr[t])

\* offset != 0: the pages before the first aligned one go back.
TrimHead(t) ==
  /\ At(t, "trim", "tail")
  /\ chunkOffset(addr[t]) # 0
  /\ offset' = [offset EXCEPT ![t] = chunkOffset(addr[t])]
  /\ Munmap(addr[t], HeadLength(t))
  /\ addr' = [addr EXCEPT ![t] = @ + HeadLength(t)]
  /\ UNCHANGED held

\* faulty variant: as many pages as if the first address had been aligned
TailChunk(t) == CHUNK_SIZE

TailLength(t) == offset[t]

\* offset != 0: the pages behind the chunk go back.
TrimTail(t) ==
  /\ At(t, "tail", "idle")
  /\ Munmap(addr[t] + CHUNK_SIZE, TailLength(t))
  /\ Give(t, addr[t])
  /\ addr' = [addr EXCEPT ![t] = 0]
  /\ offset' = [offset EXCEPT ![t] = 0]

\* offset == 0: the second half of what mmap returned goes back.
TrimHalf(t) ==
  /\ At(t, "trim", "idle")
  /\ chunkOffset(addr[t]) = 0
  /\ Munmap(addr[t] + CHUNK_SIZE, CHUNK_SIZE)
  /\ Give(t, addr[t])
  /\ addr' = [addr EXCEPT ![t] = 0]
  /\ UNCHANGED offset

(* mmap fails                                                              *)

\* MAP_FAILED is not aligned, so the fast path hands it to munmap, which
\* refuses it, and tries the slow path.
MapFails(t) ==
  /\ At(t, "map", "slow")
  /\ UNCHANGED <<mapped, held, addr, offset>>

\* MAP_FAILED is not nullptr either.  It lacks one byte to the chunk that
\* begins at address 0: addr becomes 0.
SlowMapFails(t) ==
  /\ At(t, "slow", "failed")
  /\ UNCHANGED <<mapped, held, addr, offset>>

\* The CHUNK_SIZE - 1 bytes behind the chunk at 0 are unmapped, and nullptr
\* is returned.
TrimFailed(t) ==
  /\ At(t, "failed", "idle")
  /\ Munmap(nullptr + CHUNK_SIZE, CHUNK_SIZE)
  /\ UNCHANGED <<held, addr, offset>>

deallocateAlignedChunk(t, a) ==
  /\ pc[t] = "idle" /\ a \in held[t]
  /\ Munmap(a, CHUNK_SIZE)
  /\ held' = [held EXCEPT ![t] = @ \ {a}]
  /\ UNCHANGED <<pc, addr, offset>>

AllocateStep(t) ==
  \/ MapAligned(t) \/ MapUnaligned(t) \/ UnmapUnaligned(t)
  \/ MapSlow(t) \/ TrimHead(t) \/ TrimTail(t) \/ TrimHalf(t)
  \/ MapFails(t) \/ SlowMapFails(t) \/ TrimFailed(t)
=============================================================================
