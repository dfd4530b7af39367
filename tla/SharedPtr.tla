------------------------------ MODULE SharedPtr ------------------------------
(***************************************************************************)
(* core2/smart_ptr/SharedPtr.h: how the SharedPtr objects that share a     *)
(* control block count themselves and release what they share.             *)
(*                                                                         *)
(* Each SharedPtr runs at most one constructor or destructor at a time,    *)
(* those of different SharedPtrs interleave, and each fetch_add, fetch_sub *)
(* and virtual call is one action.  The caller keeps the source of a copy  *)
(* or a move alive and unmoved while it lasts, as C++ asks of it.  Nothing *)
(* in the code calls addWeak.                                              *)
(***************************************************************************)
EXTENDS Integers, FiniteSets

CONSTANTS
  Ptrs,         \* the SharedPtr objects
  Blocks,       \* the control blocks operator new may return
  nullptr,
  COUNT_SIZE    \* the counts are taken modulo this: 2^64

SharedPtrAssumption ==
  /\ IsFiniteSet(Ptrs) /\ nullptr \notin Blocks
  /\ COUNT_SIZE \in Nat /\ COUNT_SIZE > Cardinality(Ptrs)

VARIABLES
  allocated,                 \* the blocks that are allocated
  sharedCount, weakCount,    \* their counts, one less than what they count
  deleted,                   \* how often deleter(obj) ran for a block
  ctrlBlock,                 \* a field of the SharedPtrs
  source,                    \* the SharedPtr a copy in progress is made of
  pc

blockVars == <<allocated, sharedCount, weakCount, deleted>>
vars ==
  <<allocated, sharedCount, weakCount, deleted, ctrlBlock, source, pc>>

PC == {"none", "copy", "live", "release", "zeroShared", "releaseWeak",
       "zeroWeak"}

Init ==
  /\ allocated = {}
  /\ sharedCount = [b \in Blocks |-> 0]
  /\ weakCount = [b \in Blocks |-> 0]
  /\ deleted = [b \in Blocks |-> 0]
  /\ ctrlBlock = [p \in Ptrs |-> nullptr]
  /\ source = [p \in Ptrs |-> p]
  /\ pc = [p \in Ptrs |-> "none"]

Goto(p, from, to) == pc[p] = from /\ pc' = [pc EXCEPT ![p] = to]

\* p is the source of a copy in progress.
Copied(p) == \E q \in Ptrs : pc[q] = "copy" /\ source[q] = p

Plus(count, n) == (count + n) % COUNT_SIZE
-----------------------------------------------------------------------------
(* Constructors *)

\* SharedPtr(), SharedPtr(nullptr)
Null(p) ==
  /\ Goto(p, "none", "live")
  /\ UNCHANGED <<blockVars, ctrlBlock, source>>

\* SharedPtr(obj), with or without a deleter and an allocator
Make(p) ==
  /\ Goto(p, "none", "live")
  /\ \E b \in Blocks \ allocated :
       /\ allocated' = allocated \cup {b}
       /\ sharedCount' = [sharedCount EXCEPT ![b] = 0]
       /\ weakCount' = [weakCount EXCEPT ![b] = 0]
       /\ deleted' = [deleted EXCEPT ![b] = 0]
       /\ ctrlBlock' = [ctrlBlock EXCEPT ![p] = b]
  /\ UNCHANGED source

\* SharedPtr(rhs), SharedPtr(other, objElem): ctrlBlock(rhs.ctrlBlock)
Copy(p, rhs) ==
  /\ pc[rhs] = "live"
  /\ Goto(p, "none", IF ctrlBlock[rhs] = nullptr THEN "live" ELSE "copy")
  /\ ctrlBlock' = [ctrlBlock EXCEPT ![p] = ctrlBlock[rhs]]
  /\ source' = [source EXCEPT
                 ![p] = IF ctrlBlock[rhs] = nullptr THEN p ELSE rhs]
  /\ UNCHANGED blockVars

addShared(p) ==
  /\ Goto(p, "copy", "live")
  /\ sharedCount' = [sharedCount EXCEPT ![ctrlBlock[p]] = Plus(@, 1)]
  /\ source' = [source EXCEPT ![p] = p]
  /\ UNCHANGED <<allocated, weakCount, deleted, ctrlBlock>>

SourceCleared(rhs) == nullptr

\* SharedPtr(std::move(rhs))
Move(p, rhs) ==
  /\ pc[rhs] = "live" /\ ~Copied(rhs)
  /\ Goto(p, "none", "live")
  /\ ctrlBlock' = [ctrlBlock EXCEPT ![p] = ctrlBlock[rhs],
                                    ![rhs] = SourceCleared(rhs)]
  /\ UNCHANGED <<blockVars, source>>
-----------------------------------------------------------------------------
(* The destructor *)

DestroyNull(p) ==
  /\ Goto(p, "live", "none")
  /\ ctrlBlock[p] = nullptr /\ ~Copied(p)
  /\ UNCHANGED <<blockVars, ctrlBlock, source>>

Destroy(p) ==
  /\ Goto(p, "live", "release")
  /\ ctrlBlock[p] # nullptr /\ ~Copied(p)
  /\ UNCHANGED <<blockVars, ctrlBlock, source>>

\* faulty variant: the new count is tested, not the old one
WasLastButOne(p) == Plus(sharedCount[ctrlBlock[p]], 0 - 1) = 0

WasLast(p) == sharedCount[ctrlBlock[p]] = 0

\* The destructor goes on, or ends.
Continue(p, again, there) ==
  /\ pc' = [pc EXCEPT ![p] = IF again THEN there ELSE "none"]
  /\ ctrlBlock' = [ctrlBlock EXCEPT ![p] = IF again THEN @ ELSE nullptr]

releaseShared(p) ==
  /\ pc[p] = "release"
  /\ sharedCount' = [sharedCount EXCEPT ![ctrlBlock[p]] = Plus(@, 0 - 1)]
  /\ Continue(p, WasLast(p), "zeroShared")
  /\ UNCHANGED <<allocated, weakCount, deleted, source>>

onZeroShared(p) ==
  /\ Goto(p, "zeroShared", "releaseWeak")
  /\ deleted' = [deleted EXCEPT ![ctrlBlock[p]] = @ + 1]
  /\ UNCHANGED <<allocated, sharedCount, weakCount, ctrlBlock, source>>

releaseWeak(p) ==
  /\ pc[p] = "releaseWeak"
  /\ weakCount' = [weakCount EXCEPT ![ctrlBlock[p]] = Plus(@, 0 - 1)]
  /\ Continue(p, weakCount[ctrlBlock[p]] = 0, "zeroWeak")
  /\ UNCHANGED <<allocated, sharedCount, deleted, source>>

onZeroWeak(p) ==
  /\ pc[p] = "zeroWeak"
  /\ allocated' = allocated \ {ctrlBlock[p]}
  /\ Continue(p, FALSE, "none")
  /\ UNCHANGED <<sharedCount, weakCount, deleted, source>>

Next == \E p \in Ptrs :
  \/ Null(p) \/ Make(p) \/ addShared(p)
  \/ \E rhs \in Ptrs : Copy(p, rhs) \/ Move(p, rhs)
  \/ DestroyNull(p) \/ Destroy(p) \/ releaseShared(p) \/ onZeroShared(p)
  \/ releaseWeak(p) \/ onZeroWeak(p)

Spec == Init /\ [][Next]_vars
-----------------------------------------------------------------------------
(* Properties *)

Sharers(b) ==
  {p \in Ptrs : ctrlBlock[p] = b /\ pc[p] \in {"copy", "live", "release"}}
Releasers(b) ==
  {p \in Ptrs : ctrlBlock[p] = b
                /\ pc[p] \in {"zeroShared", "releaseWeak", "zeroWeak"}}

\* As long as a SharedPtr points to an object, or is being copied from one
\* that does, the object has not been deleted and its control block is
\* allocated; the block stays until the last destructor is done with it.
HoldersKeepAlive ==
  \A b \in Blocks :
    /\ Sharers(b) # {} => b \in allocated /\ deleted[b] = 0
    /\ Releasers(b) # {} => b \in allocated

\* An allocated block belongs to its sharers, whose number sharedCount and
\* refCount() tell except for the copies not counted yet, or else to exactly
\* one destructor, which deletes the object once: nothing is leaked and
\* nothing is released twice.
ReleasedOnce ==
  \A b \in allocated :
    \/ /\ Releasers(b) = {} /\ deleted[b] = 0 /\ weakCount[b] = 0
       /\ sharedCount[b] + 1 =
            Cardinality({p \in Sharers(b) : pc[p] # "copy"})
    \/ \E p \in Ptrs :
         /\ Releasers(b) = {p} /\ Sharers(b) = {}
         /\ sharedCount[b] = COUNT_SIZE - 1
         /\ deleted[b] = IF pc[p] = "zeroShared" THEN 0 ELSE 1

\* Whoever shares an object keeps it, and the last one releases it.
SharedExactly == HoldersKeepAlive /\ ReleasedOnce
=============================================================================
