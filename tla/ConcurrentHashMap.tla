-------------------------- MODULE ConcurrentHashMap --------------------------
(***************************************************************************)
(* core2/container/ConcurrentHashMap.h.  An operation enters (and perhaps  *)
(* rehashes first), finds its bucket without holding mux, works on the     *)
(* bucket under the bucket's own lock, and exits.                          *)
(*                                                                         *)
(* The code between two points at which mux is free is one action.  A      *)
(* thread asleep in readyToRehash.wait is in state "rWait", in             *)
(* readyToContinue.wait in "cWait"; a notification, or a spurious wake-up, *)
(* moves it to "rTry" or "cTry".                                           *)
(***************************************************************************)
EXTENDS Integers, Sequences, FiniteSets

CONSTANTS
  Threads, Keys, Values,
  NoValue,        \* nullopt
  NoOp,           \* outside an operation
  Hash,           \* the hash function
  SizeModulus,    \* 2^64, the range of size_t
  MaxCalls        \* bound of the model: calls in a behaviour

Ops == [kind : {"insert"}, key : Keys, value : Values]
         \cup [kind : {"get", "erase"}, key : Keys, value : {NoValue}]

ASSUME MapAssumption ==
  /\ IsFiniteSet(Threads)
  /\ Hash \in [Keys -> Nat]
  /\ NoValue \notin Values /\ NoOp \notin Ops
  /\ SizeModulus \in Nat \ {0} /\ MaxCalls \in Nat

VARIABLES
  bucketList,    \* the entries of each bucket; bucket h is bucketList[h + 1]
  size,          \* size_
  accessing, rehashing,
  op,            \* the operation each thread is in, with its arguments
  pc,
  bucket,        \* bucketList[h(k)], as the thread found it
  found,         \* what the bucket operation returned
  diff,          \* what exit will add to size_
  calls          \* calls so far, at most MaxCalls

table  == <<bucketList, size>>
gate   == <<accessing, rehashing>>
locals == <<op, bucket, found, diff>>
vars   == <<table, gate, locals, pc, calls>>

PC == {"idle", "enter", "rWait", "rTry", "cWait", "cTry",
       "index", "bucket", "exit"}

NotYet == [set |-> FALSE, value |-> NoValue]
Found(x) == [set |-> TRUE, value |-> x]

Init ==
  /\ bucketList = <<{}>>
  /\ size = 0
  /\ accessing = 0
  /\ rehashing = FALSE
  /\ op = [t \in Threads |-> NoOp]
  /\ pc = [t \in Threads |-> "idle"]
  /\ bucket = [t \in Threads |-> 0]
  /\ found = [t \in Threads |-> NotYet]
  /\ diff = [t \in Threads |-> 0]
  /\ calls = 0

Goto(t, from, to) == pc[t] = from /\ pc' = [pc EXCEPT ![t] = to]

Call(t, o) ==
  /\ Goto(t, "idle", "enter")
  /\ calls < MaxCalls
  /\ calls' = calls + 1
  /\ op' = [op EXCEPT ![t] = o]
  /\ UNCHANGED <<table, gate, bucket, found, diff>>
-----------------------------------------------------------------------------
(* enter *)

Entries(buckets) == UNION {buckets[i] : i \in DOMAIN buckets}

\* h(k), where the bucket of hash value 0 has index 1
Place(k, buckets) == (Hash[k] % Len(buckets)) + 1

Rehashed ==
  LET count == 2 * Len(bucketList)
  IN  [i \in 1 .. count |->
         {e \in Entries(bucketList) : (Hash[e[1]] % count) + 1 = i}]

MustRehash == size >= Len(bucketList) /\ ~rehashing

\* faulty variant: the rehash does not wait for those inside
RehashesAtOnce == TRUE

NobodyAccessing == accessing = 0

ContinueAll(p) == [t \in Threads |-> IF p[t] = "cWait" THEN "cTry" ELSE p[t]]

\* The rehash, from its start or from its wake-up to accessing++.
Rehash(t) ==
  /\ bucketList' = Rehashed
  /\ rehashing' = FALSE
  /\ accessing' = accessing + 1
  /\ pc' = ContinueAll([pc EXCEPT ![t] = "index"])
  /\ UNCHANGED <<size, locals, calls>>

EnterAndRehash(t) ==
  /\ pc[t] = "enter"
  /\ MustRehash /\ NobodyAccessing
  /\ Rehash(t)

EnterAndWaitToRehash(t) ==
  /\ Goto(t, "enter", "rWait")
  /\ MustRehash /\ ~NobodyAccessing
  /\ rehashing' = TRUE
  /\ UNCHANGED <<table, accessing, locals, calls>>

WakeAndRehash(t) ==
  /\ pc[t] = "rTry"
  /\ NobodyAccessing
  /\ Rehash(t)

WakeAndWaitToRehash(t) ==
  /\ Goto(t, "rTry", "rWait")
  /\ ~NobodyAccessing
  /\ UNCHANGED <<table, gate, locals, calls>>

MayPass == ~rehashing

Enter(t) ==
  /\ \/ Goto(t, "enter", "index") /\ ~MustRehash
     \/ Goto(t, "cTry", "index")
  /\ MayPass
  /\ accessing' = accessing + 1
  /\ UNCHANGED <<table, rehashing, locals, calls>>

EnterAndWait(t) ==
  /\ \/ Goto(t, "enter", "cWait") /\ ~MustRehash
     \/ Goto(t, "cTry", "cWait")
  /\ ~MayPass
  /\ UNCHANGED <<table, gate, locals, calls>>
-----------------------------------------------------------------------------
(* insert, get and erase between enter and exit *)

\* bucketList[h(k)]
FindBucket(t) ==
  /\ Goto(t, "index", "bucket")
  /\ bucket' = [bucket EXCEPT ![t] = Place(op[t].key, bucketList)]
  /\ UNCHANGED <<table, gate, op, found, diff, calls>>

Holding(b, k) == {e \in b : e[1] = k}

ValueOf(entries) ==
  IF entries = {} THEN NoValue ELSE (CHOOSE e \in entries : TRUE)[2]

\* faulty variant: an insert that finds its key leaves the old value
InsertedOnce(b, o) ==
  [entries |-> IF Holding(b, o.key) = {}
                 THEN b \cup {<<o.key, o.value>>} ELSE b,
   result  |-> Holding(b, o.key) = {},
   diff    |-> IF Holding(b, o.key) = {} THEN 1 ELSE 0]

\* Bucket::insert, Bucket::get, Bucket::erase: the new entries of bucket b,
\* the value returned, and what exit adds to size_.
Inserted(b, o) ==
  [entries |-> (b \ Holding(b, o.key)) \cup {<<o.key, o.value>>},
   result  |-> Holding(b, o.key) = {},
   diff    |-> IF Holding(b, o.key) = {} THEN 1 ELSE 0]

Got(b, o) ==
  [entries |-> b,
   result  |-> ValueOf(Holding(b, o.key)),
   diff    |-> 0]

\* faulty variant: exit is told of an erasure that did not happen
ErasedAnyway(b, o) ==
  [entries |-> b \ Holding(b, o.key),
   result  |-> Holding(b, o.key) # {},
   diff    |-> -1]

Erased(b, o) ==
  [entries |-> b \ Holding(b, o.key),
   result  |-> Holding(b, o.key) # {},
   diff    |-> IF Holding(b, o.key) = {} THEN 0 ELSE -1]

UseBucket(t) ==
  LET b == bucketList[bucket[t]]
      o == op[t]
      r == CASE o.kind = "insert" -> Inserted(b, o)
             [] o.kind = "get"    -> Got(b, o)
             [] o.kind = "erase"  -> Erased(b, o)
  IN  /\ Goto(t, "bucket", "exit")
      /\ bucketList' = [bucketList EXCEPT ![bucket[t]] = r.entries]
      /\ found' = [found EXCEPT ![t] = Found(r.result)]
      /\ diff' = [diff EXCEPT ![t] = r.diff]
      /\ UNCHANGED <<size, gate, op, bucket, calls>>
-----------------------------------------------------------------------------
(* exit, and the return of the operation *)

\* faulty variant: the last one out forgets the thread that waits to rehash
RehashNobody(p) == p

RehashOne(p) == [t \in Threads |-> IF p[t] = "rWait" THEN "rTry" ELSE p[t]]

NewSize(d) == (size + d) % SizeModulus

\* At most one thread sleeps in readyToRehash (OneRehasher), so notify_one
\* reaches all of them.
Exit(t) ==
  LET out == [pc EXCEPT ![t] = "idle"]
  IN  /\ pc[t] = "exit"
      /\ accessing' = accessing - 1
      /\ pc' = IF accessing' = 0 THEN RehashOne(out) ELSE out
      /\ size' = NewSize(diff[t])
      /\ op' = [op EXCEPT ![t] = NoOp]
      /\ bucket' = [bucket EXCEPT ![t] = 0]
      /\ found' = [found EXCEPT ![t] = NotYet]
      /\ diff' = [diff EXCEPT ![t] = 0]
      /\ UNCHANGED <<bucketList, rehashing, calls>>
-----------------------------------------------------------------------------
SpuriousWakeup(t) ==
  /\ Goto(t, "rWait", "rTry") \/ Goto(t, "cWait", "cTry")
  /\ UNCHANGED <<table, gate, locals, calls>>

Step(t) ==
  \/ EnterAndRehash(t) \/ EnterAndWaitToRehash(t)
  \/ WakeAndRehash(t) \/ WakeAndWaitToRehash(t)
  \/ Enter(t) \/ EnterAndWait(t)
  \/ FindBucket(t) \/ UseBucket(t) \/ Exit(t)

Next == \E t \in Threads :
          (\E o \in Ops : Call(t, o)) \/ Step(t) \/ SpuriousWakeup(t)

Spec == Init /\ [][Next]_vars

(* A thread that competes for mux, or for the lock of a bucket, gets it.   *)
FairSpec == Spec /\ \A t \in Threads : WF_vars(Step(t))
-----------------------------------------------------------------------------
(* Properties *)

Inside == {t \in Threads : pc[t] \in {"index", "bucket", "exit"}}
Rehashers == {t \in Threads : pc[t] \in {"rWait", "rTry"}}

\* accessing counts the threads between enter and exit, and rehashing is set
\* exactly while one thread waits to rehash.
OneRehasher ==
  /\ accessing = Cardinality(Inside)
  /\ Cardinality(Rehashers) = IF rehashing THEN 1 ELSE 0

\* No rehash takes place between the two steps in which an operation finds
\* its bucket and uses it: the bucket is still the right one.
BucketIsCurrent ==
  \A t \in Threads :
    pc[t] = "bucket" => bucket[t] = Place(op[t].key, bucketList)

\* Every entry is in the bucket its key hashes to, and no key is in the
\* table twice, whatever operations and rehashes have interleaved.
EntriesInPlace ==
  /\ \A i \in 1 .. Len(bucketList) :
       \A e \in bucketList[i] : Place(e[1], bucketList) = i
  /\ \A e, f \in Entries(bucketList) : e[1] = f[1] => e = f

\* One thread rehashes, while nobody is inside, and operations before and
\* after it find every entry where they look for it.
RehashExact == OneRehasher /\ BucketIsCurrent /\ EntriesInPlace

\* size_ differs from the number of entries by what the operations that have
\* used their bucket and not left yet will add to it: it may be one too big,
\* one too small or, when an erase leaves before the insert it undoes, wrap
\* around below zero, and it is exact when nobody is inside.
Due(d) == Cardinality({t \in Threads : diff[t] = d})
SizeAccounted ==
  (size + Due(1) - Due(-1)) % SizeModulus
    = Cardinality(Entries(bucketList)) % SizeModulus

\* insert, get and erase are linearizable.
Map == [k \in Keys |->
          ValueOf(Holding(bucketList[Place(k, bucketList)], k))]

Abstract == INSTANCE MapSpec WITH map <- Map, answer <- found
ImplementsMap == Abstract!Spec

\* Every call returns: neither the rehash nor those who wait for it are
\* forgotten.
CallsReturn == \A t \in Threads : pc[t] # "idle" ~> pc[t] = "idle"
=============================================================================
