----------------------------- MODULE PageServer -----------------------------
(***************************************************************************)
(* core2/allocator/bit_allocator/AlignedAllocator.h: a detached thread     *)
(* that maps chunks ahead of time and keeps them in a ring of eight, and   *)
(* the threads that take chunks from it, map them themselves, and give     *)
(* them back.                                                              *)
(*                                                                         *)
(* PageQueue::push and PageQueue::pop hold the queue's spin lock from      *)
(* beginning to end, so each is one action.  The push of the daemon that   *)
(* finds the queue full, and is tried again, changes nothing.              *)
(***************************************************************************)
EXTENDS AlignedChunk, Sequences, FiniteSets

CONSTANTS
  Daemon,        \* the thread of PageServer
  QUEUE_SIZE,    \* entries of PageQueue::buffer: 8
  MaxHeld        \* bound of the model: chunks a thread holds at a time

ASSUME ServerAssumption ==
  /\ Daemon \in Threads
  /\ QUEUE_SIZE \in Nat \ {0} /\ MaxHeld \in Nat

VARIABLES
  buffer, begin, end, size,    \* the PageQueue
  pushed                       \* history: what was pushed and not popped

queueVars == <<buffer, begin, end, size, pushed>>
vars      == <<chunkVars, queueVars>>

Clients == Threads \ {Daemon}
Slots   == 0 .. QUEUE_SIZE - 1

Init ==
  /\ mapped = {}
  /\ held = [t \in Threads |-> {}]
  /\ pc = [t \in Threads |-> IF t = Daemon THEN "map" ELSE "idle"]
  /\ addr = [t \in Threads |-> nullptr]
  /\ offset = [t \in Threads |-> 0]
  /\ buffer = [i \in Slots |-> nullptr]
  /\ begin = 0 /\ end = 0 /\ size = 0
  /\ pushed = <<>>
-----------------------------------------------------------------------------
(* PageQueue *)

NextSlot(i) == IF i + 1 = QUEUE_SIZE THEN 0 ELSE i + 1

HasRoom == size # QUEUE_SIZE

push(page) ==
  /\ HasRoom
  /\ buffer' = [buffer EXCEPT ![end] = page]
  /\ end' = NextSlot(end)
  /\ size' = size + 1
  /\ pushed' = Append(pushed, page)
  /\ UNCHANGED begin

\* A pop that finds a page, which the caller reads in buffer[begin].
pop ==
  /\ size # 0
  /\ begin' = NextSlot(begin)
  /\ size' = size - 1
  /\ pushed' = Tail(pushed)
  /\ UNCHANGED <<buffer, end>>
-----------------------------------------------------------------------------
(* The daemon: allocate, push until there is room, again                   *)

\* What allocateAlignedChunk has just returned: nullptr if mmap failed.
page == IF held[Daemon] = {} THEN nullptr
        ELSE CHOOSE a \in held[Daemon] : TRUE

DaemonAllocates ==
  AllocateStep(Daemon) /\ UNCHANGED queueVars

DaemonPushes ==
  /\ At(Daemon, "idle", "map")
  /\ push(page)
  /\ held' = [held EXCEPT ![Daemon] = {}]
  /\ UNCHANGED <<mapped, addr, offset>>

(* The other threads                                                       *)

\* getPage() takes a page from the queue.
GetQueued(t) ==
  /\ pc[t] = "idle" /\ Cardinality(held[t]) < MaxHeld
  /\ pop
  /\ buffer[begin] # nullptr
  /\ Give(t, buffer[begin])
  /\ UNCHANGED <<mapped, pc, addr, offset>>

\* getPage() finds that the daemon has pushed a nullptr, and maps a chunk.
GetNull(t) ==
  /\ Cardinality(held[t]) < MaxHeld
  /\ pop
  /\ buffer[begin] = nullptr
  /\ allocateAlignedChunk(t)

\* getPage() finds the queue empty, or Arena::allocate does not ask for it.
Allocates(t) ==
  /\ Cardinality(held[t]) < MaxHeld
  /\ allocateAlignedChunk(t)
  /\ UNCHANGED queueVars

ClientAllocates(t) == AllocateStep(t) /\ UNCHANGED queueVars

GiveBack(t) ==
  /\ \E a \in held[t] : deallocateAlignedChunk(t, a)
  /\ UNCHANGED queueVars

Next ==
  \/ DaemonAllocates \/ DaemonPushes
  \/ \E t \in Clients : \/ GetQueued(t) \/ GetNull(t) \/ Allocates(t)
                        \/ ClientAllocates(t) \/ GiveBack(t)

Spec == Init /\ [][Next]_vars
-----------------------------------------------------------------------------
(* Properties *)

Queued == {buffer[(begin + i) % QUEUE_SIZE] : i \in 0 .. size - 1} \ {nullptr}

\* The pages a thread has mapped and not yet returned as a chunk or unmapped.
InFlight(t) ==
  CASE pc[t] = "unmap" -> PageRange(addr[t], CHUNK_SIZE)
    [] pc[t] = "trim"  -> PageRange(addr[t], CHUNK_SIZE + CHUNK_SIZE)
    [] pc[t] = "tail"  -> PageRange(addr[t], CHUNK_SIZE + offset[t])
    [] OTHER           -> {}

Chunks == Queued \cup (UNION {held[t] : t \in Threads})

\* The chunks in use and in the queue are aligned, a chunk is in one place
\* only, and they and the mappings being trimmed are exactly the mapped
\* pages: no munmap takes a page of a chunk, whoever has it, and nothing
\* mmap returned in excess stays mapped.  When mmap has failed this rests on
\* mmap's never returning a page below 4 MB (FLOOR).
ChunksExact ==
  /\ \A a \in Chunks : chunkOffset(a) = 0
  /\ \A t, u \in Threads : t # u => held[t] \cap held[u] = {}
  /\ \A t \in Threads : held[t] \cap Queued = {}
  /\ mapped = (UNION {PageRange(a, CHUNK_SIZE) : a \in Chunks})
                \cup (UNION {InFlight(t) : t \in Threads})
  /\ \A t \in Threads :
       /\ \A a \in Chunks : InFlight(t) \cap PageRange(a, CHUNK_SIZE) = {}
       /\ \A u \in Threads \ {t} : InFlight(t) \cap InFlight(u) = {}

\* The ring holds what was pushed and not popped, in that order, and never
\* more than it has slots for.
RingInOrder ==
  /\ size = Len(pushed) /\ size <= QUEUE_SIZE
  /\ end = (begin + size) % QUEUE_SIZE
  /\ \A i \in 1 .. size : buffer[(begin + i - 1) % QUEUE_SIZE] = pushed[i]

\* Every page that is mapped is on its way to one thread, through the ring or
\* past it, and to one only.
PagesExact == ChunksExact /\ RingInOrder
=============================================================================
