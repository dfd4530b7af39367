----------------------- MODULE ConcurrentHashMap_proofs -----------------------
(***************************************************************************)
(* ConcurrentHashMap is a map, whatever the number of threads, keys and    *)
(* values and whichever hash function: no operation meets a rehash, every  *)
(* entry is where the operations look for it, and insert, get and erase    *)
(* are linearizable.                                                       *)
(***************************************************************************)
EXTENDS ConcurrentHashMap, FiniteSetTheorems, TLAPS

Buckets == SUBSET (Keys \X Values)

TypeOK ==
  /\ bucketList \in Seq(Buckets) /\ Len(bucketList) # 0
  /\ rehashing \in BOOLEAN
  /\ op \in [Threads -> Ops \cup {NoOp}]
  /\ pc \in [Threads -> PC]
  /\ bucket \in [Threads -> Nat]
  /\ found \in [Threads -> [set : BOOLEAN,
                            value : Values \cup {NoValue} \cup BOOLEAN]]

(* How far an operation is shows in what it has found.                     *)
Progress ==
  \A t \in Threads :
    /\ op[t] = NoOp <=> pc[t] = "idle"
    /\ pc[t] = "exit" => found[t].set
    /\ pc[t] # "exit" => found[t] = NotYet

IInv == /\ TypeOK
        /\ Progress
        /\ OneRehasher
        /\ BucketIsCurrent
        /\ EntriesInPlace
-----------------------------------------------------------------------------
(* Sets of threads and their sizes.                                        *)
LEMMA ThreadSets ==
  ASSUME NEW S \in SUBSET Threads, NEW t \in Threads
  PROVE  /\ Cardinality(S) \in Nat
         /\ Cardinality(S) = 0 <=> S = {}
         /\ Cardinality(S) = 1 <=> \E u : S = {u}
         /\ t \notin S => Cardinality(S \cup {t}) = Cardinality(S) + 1
         /\ t \in S => Cardinality(S \ {t}) = Cardinality(S) - 1
  <1>1. IsFiniteSet(S)
    BY FS_Subset, MapAssumption
  <1> QED BY <1>1, FS_CardinalityType, FS_EmptySet, FS_Singleton,
             FS_AddElement, FS_RemoveElement

(* Every key has its bucket.                                               *)
LEMMA PlaceInRange ==
  ASSUME NEW k \in Keys, NEW b \in Seq(Buckets), Len(b) # 0
  PROVE  Place(k, b) \in 1 .. Len(b)
  <1>1. Hash[k] \in Nat /\ Len(b) \in Nat \ {0}
    BY MapAssumption
  <1>2. \A h \in Nat, n \in Nat \ {0} : h % n \in 0 .. n - 1
    OBVIOUS
  <1>3. Hash[k] % Len(b) \in 0 .. Len(b) - 1
    BY <1>1, <1>2
  <1> QED BY <1>1, <1>3 DEF Place

(* The map starts empty, with nobody inside.                               *)
LEMMA InitIInv == Init => IInv
  <1> SUFFICES ASSUME Init PROVE IInv
    OBVIOUS
  <1> USE DEF Init
  <1>1. {} \in Buckets /\ bucketList \in Seq(Buckets) /\ Len(bucketList) = 1
        /\ bucketList[1] = {}
    BY DEF Buckets
  <1>2. TypeOK
    <2>1. NotYet \in [set : BOOLEAN,
                     value : Values \cup {NoValue} \cup BOOLEAN]
      BY DEF NotYet
    <2>2. found \in [Threads -> [set : BOOLEAN,
                                 value : Values \cup {NoValue} \cup BOOLEAN]]
      BY <2>1, Zenon
    <2>3. /\ op \in [Threads -> Ops \cup {NoOp}] /\ pc \in [Threads -> PC]
          /\ bucket \in [Threads -> Nat] /\ rehashing \in BOOLEAN
      BY DEF PC
    <2> QED BY <1>1, <2>2, <2>3 DEF TypeOK
  <1>3. Progress /\ BucketIsCurrent
    BY DEF Progress, BucketIsCurrent, NotYet
  <1>4. OneRehasher
    <2>1. Inside = {} /\ Rehashers = {}
      BY DEF Inside, Rehashers
    <2> QED BY <2>1, FS_EmptySet DEF OneRehasher
  <1>5. EntriesInPlace
    <2>1. Entries(bucketList) = {}
      BY <1>1 DEF Entries
    <2> QED BY <1>1, <2>1 DEF EntriesInPlace
  <1> QED BY <1>2, <1>3, <1>4, <1>5 DEF IInv

(* Nobody is inside while accessing is 0, and who rehashes is alone.       *)
LEMMA Gate ==
  ASSUME IInv
  PROVE  /\ accessing = 0 => Inside = {}
         /\ ~rehashing => Rehashers = {}
         /\ \A t, u \in Rehashers : t = u
  <1>1. Inside \in SUBSET Threads /\ Rehashers \in SUBSET Threads
    BY DEF Inside, Rehashers
  <1>2. CASE Threads = {}
    BY <1>1, <1>2
  <1>3. ASSUME NEW t \in Threads
        PROVE  /\ accessing = 0 => Inside = {}
               /\ ~rehashing => Rehashers = {}
               /\ rehashing => \E u : Rehashers = {u}
    BY <1>1, <1>3, ThreadSets DEF IInv, OneRehasher
  <1>4. ASSUME NEW t \in Rehashers, NEW u \in Rehashers PROVE t = u
    BY <1>1, <1>3, <1>4
  <1> QED BY <1>2, <1>3, <1>4

(* The gate after a step: one thread moves, others may wake up.            *)
LEMMA GateKept ==
  ASSUME IInv, UNCHANGED gate, Inside' = Inside, Rehashers' = Rehashers
  PROVE  OneRehasher'
  BY DEF IInv, OneRehasher, gate
-----------------------------------------------------------------------------
(* What the rehash does to the buckets: they are twice as many, hold the   *)
(* same entries, and hold them where their keys belong.                    *)
LEMMA RehashedIsRight ==
  ASSUME IInv
  PROVE  /\ Rehashed \in Seq(Buckets) /\ Len(Rehashed) # 0
         /\ \A k \in Keys :
              Holding(Rehashed[Place(k, Rehashed)], k) =
                Holding(bucketList[Place(k, bucketList)], k)
         /\ \A i \in 1 .. Len(Rehashed) :
              \A e \in Rehashed[i] : Place(e[1], Rehashed) = i
         /\ \A e, f \in Entries(Rehashed) : e[1] = f[1] => e = f
  <1> DEFINE n == 2 * Len(bucketList)
             All == Entries(bucketList)
  <1>1. /\ Len(bucketList) \in Nat \ {0}
        /\ DOMAIN bucketList = 1 .. Len(bucketList)
    BY DEF IInv, TypeOK
  <1>2. n \in Nat \ {0}
    BY <1>1
  <1>3. \A e \in All : e \in Keys \X Values
    BY <1>1 DEF IInv, TypeOK, Entries, Buckets
  <1>4. Rehashed = [i \in 1 .. n |-> {e \in All : (Hash[e[1]] % n) + 1 = i}]
    BY DEF Rehashed
  <1> HIDE DEF n, All
  <1>5. \A i \in 1 .. n : {e \in All : (Hash[e[1]] % n) + 1 = i} \in Buckets
    BY <1>3 DEF Buckets
  <1>6. Rehashed \in Seq(Buckets) /\ Len(Rehashed) = n
    BY <1>2, <1>4, <1>5
  <1>7. \A k \in Keys : Place(k, Rehashed) = (Hash[k] % n) + 1
    BY <1>6 DEF Place
  <1>8. \A k \in Keys : Place(k, Rehashed) \in 1 .. n
    BY <1>2, <1>6, PlaceInRange
  <1>9. ASSUME NEW i \in 1 .. n, NEW e \in Rehashed[i]
        PROVE  Place(e[1], Rehashed) = i /\ e \in All
    <2>1. e \in All /\ (Hash[e[1]] % n) + 1 = i
      BY <1>4, <1>9
    <2> QED BY <1>3, <1>7, <2>1
  <1>10. \A e \in Entries(Rehashed) : e \in All
    BY <1>6, <1>9 DEF Entries
  <1>11. ASSUME NEW k \in Keys
         PROVE  Holding(Rehashed[Place(k, Rehashed)], k) =
                  Holding(bucketList[Place(k, bucketList)], k)
    <2>1. Holding(Rehashed[Place(k, Rehashed)], k) = {e \in All : e[1] = k}
      BY <1>4, <1>7, <1>8 DEF Holding
    <2>2. Place(k, bucketList) \in 1 .. Len(bucketList)
      BY PlaceInRange DEF IInv, TypeOK
    <2>3. Holding(bucketList[Place(k, bucketList)], k) =
            {e \in All : e[1] = k}
      BY <1>1, <2>2 DEF IInv, EntriesInPlace, Entries, Holding, All
    <2> QED BY <2>1, <2>3
  <1> QED BY <1>2, <1>6, <1>9, <1>10, <1>11 DEF IInv, EntriesInPlace, All

(* An operation on k writes b into bucket h of k, where it may replace the *)
(* entry of k, and leaves those of other keys as they are.                 *)
Writes(k, h, b) ==
  /\ k \in Keys /\ h = Place(k, bucketList) /\ b \in Buckets
  /\ \A e \in b : e[1] # k => e \in bucketList[h]
  /\ \A e \in bucketList[h] : e[1] # k => e \in b
  /\ \A e, f \in b : e[1] = k /\ f[1] = k => e = f
  /\ bucketList' = [bucketList EXCEPT ![h] = b]

(* What such a write does to the table.                                    *)
LEMMA WriteBucket ==
  ASSUME IInv, NEW k, NEW h, NEW b, Writes(k, h, b)
  PROVE  /\ bucketList' \in Seq(Buckets) /\ Len(bucketList') = Len(bucketList)
         /\ \A x \in Keys : Place(x, bucketList') = Place(x, bucketList)
         /\ EntriesInPlace'
         /\ bucketList'[h] = b
         /\ \A x \in Keys \ {k} :
              Holding(bucketList'[Place(x, bucketList)], x) =
                Holding(bucketList[Place(x, bucketList)], x)
  <1> USE DEF Writes
  <1> DEFINE new == bucketList'
  <1>1. h \in 1 .. Len(bucketList)
    BY PlaceInRange DEF IInv, TypeOK
  <1>2. /\ new \in Seq(Buckets) /\ Len(new) = Len(bucketList)
        /\ \A i \in 1 .. Len(new) :
             new[i] = IF i = h THEN b ELSE bucketList[i]
    BY <1>1 DEF IInv, TypeOK
  <1>3. \A x : Place(x, new) = Place(x, bucketList)
    BY <1>2 DEF Place
  <1>4. \A x \in Keys : Place(x, bucketList) \in 1 .. Len(bucketList)
    BY PlaceInRange DEF IInv, TypeOK
  <1>5. ASSUME NEW i \in 1 .. Len(new), NEW e \in new[i]
        PROVE  e \in Keys \X Values /\ Place(e[1], new) = i
    <2>1. e \in Keys \X Values
      BY <1>2, <1>5 DEF Buckets
    <2>2. CASE i = h /\ e[1] = k
      BY <1>2, <2>1, <2>2 DEF Place
    <2>3. CASE i = h /\ e[1] # k
      BY <1>1, <1>2, <1>5, <2>1, <2>3 DEF IInv, EntriesInPlace, Place
    <2>4. CASE i # h
      BY <1>2, <1>5, <2>1, <2>4 DEF IInv, EntriesInPlace, Place
    <2> QED BY <2>1, <2>2, <2>3, <2>4
  <1>6. ASSUME NEW e \in Entries(new), NEW f \in Entries(new), e[1] = f[1]
        PROVE  e = f
    <2>1. PICK i \in 1 .. Len(new) : e \in new[i]
      BY <1>2 DEF Entries
    <2>2. f \in new[i]
      <3>1. PICK j \in 1 .. Len(new) : f \in new[j]
        BY <1>2 DEF Entries
      <3>2. i = j
        BY <1>5, <1>6, <2>1, <3>1
      <3> QED BY <3>1, <3>2
    <2>3. CASE i = h /\ e[1] = k
      <3>1. e \in b /\ f \in b
        BY <1>2, <2>1, <2>2, <2>3
      <3>2. e[1] = k /\ f[1] = k
        BY <1>6, <2>3
      <3> HIDE DEF new
      <3> QED BY <3>1, <3>2
    <2>4. CASE i # h \/ e[1] # k
      <3>1. e \in bucketList[i] /\ f \in bucketList[i]
        BY <1>2, <1>6, <2>1, <2>2, <2>4
      <3>2. e \in Entries(bucketList) /\ f \in Entries(bucketList)
        BY <1>2, <3>1 DEF IInv, TypeOK, Entries
      <3> QED BY <1>6, <3>2 DEF IInv, EntriesInPlace
    <2> QED BY <2>3, <2>4
  <1>7. EntriesInPlace'
    BY <1>5, <1>6 DEF EntriesInPlace
  <1>8. ASSUME NEW x \in Keys \ {k}
        PROVE  Holding(new[Place(x, bucketList)], x) =
                 Holding(bucketList[Place(x, bucketList)], x)
    <2>1. CASE Place(x, bucketList) = h
      BY <1>1, <1>2, <2>1 DEF Holding
    <2>2. CASE Place(x, bucketList) # h
      BY <1>2, <1>4, <2>2
    <2> QED BY <2>1, <2>2
  <1>9. new[h] = b
    BY <1>1, <1>2
  <1> QED BY <1>2, <1>3, <1>7, <1>8, <1>9
-----------------------------------------------------------------------------
(* A bucket holds a key once, and the value of an entry is one.            *)
LEMMA HeldOnce ==
  ASSUME IInv, NEW k \in Keys, NEW H,
         H = Holding(bucketList[Place(k, bucketList)], k)
  PROVE  /\ \A e \in H : e[1] = k /\ e = <<k, e[2]>> /\ e[2] \in Values
         /\ \A e, f \in H : e = f
         /\ ValueOf(H) \in Values \cup {NoValue}
         /\ ValueOf(H) = NoValue <=> H = {}
  <1> DEFINE i == Place(k, bucketList)
  <1>1. i \in 1 .. Len(bucketList) /\ i \in DOMAIN bucketList
        /\ bucketList[i] \in Buckets
    BY PlaceInRange DEF IInv, TypeOK
  <1> HIDE DEF i
  <1>2. \A e \in H : e \in bucketList[i] /\ e[1] = k
    BY DEF Holding, i
  <1>3. \A e \in H : e[1] = k /\ e = <<k, e[2]>> /\ e[2] \in Values
    BY <1>1, <1>2 DEF Buckets
  <1>4. \A e, f \in H : e = f
    BY <1>1, <1>2 DEF IInv, EntriesInPlace, Entries
  <1>5. H # {} => (CHOOSE e \in H : TRUE) \in H
    BY Zenon
  <1>6. H # {} => ValueOf(H) \in Values
    BY <1>3, <1>5, Zenon DEF ValueOf
  <1>7. H = {} => ValueOf(H) = NoValue
    BY DEF ValueOf
  <1> QED BY <1>3, <1>4, <1>6, <1>7, MapAssumption

(* The value of an entry that is alone.                                    *)
LEMMA ValueOfOne ==
  ASSUME NEW k, NEW v PROVE ValueOf({<<k, v>>}) = v
  <1>1. (CHOOSE e \in {<<k, v>>} : TRUE) = <<k, v>>
    BY Zenon
  <1>2. {<<k, v>>} # {}
    OBVIOUS
  <1> QED BY <1>1, <1>2 DEF ValueOf

(* What operation o leaves of its key in bucket b, and answers, where it   *)
(* found the entries H.                                                    *)
Outcome(o, H, b, x) ==
  /\ o.kind = "insert" =>
       Holding(b, o.key) = {<<o.key, o.value>>} /\ x = (H = {})
  /\ o.kind = "erase" => Holding(b, o.key) = {} /\ x = (H # {})
  /\ o.kind = "get" => Holding(b, o.key) = H /\ x = ValueOf(H)

(* What the operation of t writes and returns.                             *)
LEMMA OperationEffect ==
  ASSUME IInv, NEW t \in Threads, UseBucket(t),
         NEW o, o = op[t], NEW h, h = bucket[t],
         NEW H, H = Holding(bucketList[h], o.key)
  PROVE  /\ o \in Ops /\ UNCHANGED <<size, gate, op, bucket, calls>>
         /\ pc[t] = "bucket" /\ pc' = [pc EXCEPT ![t] = "exit"]
         /\ \E b \in Buckets, x \in Values \cup {NoValue} \cup BOOLEAN :
              /\ Writes(o.key, h, b)
              /\ found' = [found EXCEPT ![t] = Found(x)]
              /\ Outcome(o, H, b, x)
  <1>1. /\ o \in Ops /\ o.key \in Keys /\ h = Place(o.key, bucketList)
        /\ UNCHANGED <<size, gate, op, bucket, calls>>
        /\ pc[t] = "bucket" /\ pc' = [pc EXCEPT ![t] = "exit"]
    <2>1. o \in Ops
      BY DEF UseBucket, Goto, IInv, TypeOK, Progress
    <2>2. o.key \in Keys
      BY <2>1 DEF Ops
    <2> QED BY <2>1, <2>2 DEF UseBucket, Goto, IInv, BucketIsCurrent
  <1>2. bucketList[h] \in Buckets
    BY <1>1, PlaceInRange DEF IInv, TypeOK
  <1>3. /\ \A e \in H : e[1] = o.key
        /\ \A e, f \in H : e = f
        /\ ValueOf(H) \in Values \cup {NoValue}
    BY <1>1, HeldOnce
  <1>4. CASE o.kind = "insert"
    <2> DEFINE b == (bucketList[h] \ H) \cup {<<o.key, o.value>>}
               x == H = {}
    <2>1. o.value \in Values
      BY <1>1, <1>4 DEF Ops
    <2>2. b \in Buckets
      BY <1>1, <1>2, <2>1 DEF Buckets
    <2>3. /\ bucketList' = [bucketList EXCEPT ![h] = b]
          /\ found' = [found EXCEPT ![t] = Found(x)]
      BY <1>4 DEF UseBucket, Inserted
    <2>4. /\ \A e \in b : e[1] # o.key => e \in bucketList[h]
          /\ \A e \in bucketList[h] : e[1] # o.key => e \in b
          /\ \A e, f \in b : e[1] = o.key /\ f[1] = o.key => e = f
          /\ Holding(b, o.key) = {<<o.key, o.value>>}
      BY DEF Holding
    <2>5. x \in Values \cup {NoValue} \cup BOOLEAN
      OBVIOUS
    <2>6. Writes(o.key, h, b)
      BY <1>1, <2>2, <2>3, <2>4 DEF Writes
    <2> HIDE DEF b, x
    <2>7. x = (H = {})
      BY DEF x
    <2>8. Outcome(o, H, b, x)
      BY <1>4, <2>4, <2>7 DEF Outcome
    <2> QED BY <1>1, <2>2, <2>3, <2>5, <2>6, <2>8
  <1>5. CASE o.kind = "erase"
    <2> DEFINE b == bucketList[h] \ H
               x == H # {}
    <2>1. b \in Buckets
      BY <1>2 DEF Buckets
    <2>2. /\ bucketList' = [bucketList EXCEPT ![h] = b]
          /\ found' = [found EXCEPT ![t] = Found(x)]
      BY <1>5 DEF UseBucket, Erased
    <2>3. /\ \A e \in b : e[1] # o.key => e \in bucketList[h]
          /\ \A e \in bucketList[h] : e[1] # o.key => e \in b
          /\ \A e, f \in b : e[1] = o.key /\ f[1] = o.key => e = f
          /\ Holding(b, o.key) = {}
      BY <1>3 DEF Holding
    <2>4. x \in Values \cup {NoValue} \cup BOOLEAN
      OBVIOUS
    <2>5. Writes(o.key, h, b)
      BY <1>1, <2>1, <2>2, <2>3 DEF Writes
    <2> HIDE DEF b, x
    <2>6. x = (H # {})
      BY DEF x
    <2>7. Outcome(o, H, b, x)
      BY <1>5, <2>3, <2>6 DEF Outcome
    <2> QED BY <1>1, <2>1, <2>2, <2>4, <2>5, <2>7
  <1>6. CASE o.kind = "get"
    <2>1. /\ bucketList' = [bucketList EXCEPT ![h] = bucketList[h]]
          /\ found' = [found EXCEPT ![t] = Found(ValueOf(H))]
      BY <1>6 DEF UseBucket, Got
    <2>2. \A e, f \in bucketList[h] : e[1] = o.key /\ f[1] = o.key => e = f
      BY <1>3 DEF Holding
    <2>3. Writes(o.key, h, bucketList[h])
      BY <1>1, <1>2, <2>1, <2>2 DEF Writes
    <2>4. Holding(bucketList[h], o.key) = H
      OBVIOUS
    <2>5. Outcome(o, H, bucketList[h], ValueOf(H))
      BY <1>6, <2>4 DEF Outcome
    <2> QED BY <1>1, <1>2, <1>3, <2>1, <2>3, <2>5
  <1>7. o.kind \in {"insert", "erase", "get"}
    BY <1>1 DEF Ops
  <1> QED BY <1>4, <1>5, <1>6, <1>7
-----------------------------------------------------------------------------
(* A call enters nothing yet.                                              *)
LEMMA CallKeepsIInv ==
  ASSUME IInv, NEW t \in Threads, NEW o \in Ops, Call(t, o) PROVE IInv'
  <1> USE DEF Call, Goto, table, gate
  <1>1. TypeOK'
    BY DEF IInv, TypeOK, PC
  <1>2. Progress'
    BY MapAssumption DEF IInv, TypeOK, Progress
  <1>3. Inside' = Inside /\ Rehashers' = Rehashers
    BY DEF IInv, TypeOK, Inside, Rehashers
  <1>4. OneRehasher'
    BY <1>3, GateKept
  <1>5. BucketIsCurrent' /\ EntriesInPlace'
    BY DEF IInv, TypeOK, BucketIsCurrent, EntriesInPlace
  <1> QED BY <1>1, <1>2, <1>4, <1>5 DEF IInv

(* Waiting, waking up and trying again change neither table nor gate.      *)
LEMMA WaitKeepsIInv ==
  ASSUME IInv, NEW t \in Threads,
         WakeAndWaitToRehash(t) \/ EnterAndWait(t) \/ SpuriousWakeup(t)
  PROVE  IInv'
  <1> USE DEF WakeAndWaitToRehash, EnterAndWait, SpuriousWakeup, Goto,
              table, locals
  <1>1. /\ pc' \in [Threads -> PC]
        /\ pc[t] \in {"enter", "rWait", "rTry", "cWait", "cTry"}
        /\ pc'[t] \in {"rWait", "rTry", "cWait", "cTry"}
        /\ pc[t] \in {"rWait", "rTry"} <=> pc'[t] \in {"rWait", "rTry"}
        /\ \A u \in Threads \ {t} : pc'[u] = pc[u]
        /\ UNCHANGED <<table, gate, locals>>
    <2>1. CASE WakeAndWaitToRehash(t)
      BY <2>1 DEF IInv, TypeOK, PC
    <2>2. CASE EnterAndWait(t)
      BY <2>2 DEF IInv, TypeOK, PC
    <2>3. CASE SpuriousWakeup(t)
      BY <2>3 DEF IInv, TypeOK, PC
    <2> QED BY <2>1, <2>2, <2>3
  <1> HIDE DEF WakeAndWaitToRehash, EnterAndWait, SpuriousWakeup
  <1>2. TypeOK'
    BY <1>1 DEF IInv, TypeOK, gate
  <1>3. Progress'
    BY <1>1 DEF IInv, Progress
  <1>4. Inside' = Inside /\ Rehashers' = Rehashers
    BY <1>1 DEF Inside, Rehashers
  <1>5. OneRehasher'
    BY <1>1, <1>4, GateKept
  <1>6. BucketIsCurrent' /\ EntriesInPlace'
    BY <1>1 DEF IInv, BucketIsCurrent, EntriesInPlace
  <1> QED BY <1>2, <1>3, <1>5, <1>6 DEF IInv

(* A thread that must wait to rehash is the only one.                      *)
LEMMA EnterAndWaitToRehashKeepsIInv ==
  ASSUME IInv, NEW t \in Threads, EnterAndWaitToRehash(t) PROVE IInv'
  <1> USE DEF EnterAndWaitToRehash, Goto, table, locals
  <1>1. TypeOK' /\ Progress'
    BY DEF IInv, TypeOK, PC, Progress
  <1>2. Inside' = Inside /\ Rehashers' = {t}
    <2>1. Rehashers = {}
      BY Gate DEF MustRehash
    <2> QED BY <2>1 DEF IInv, TypeOK, Inside, Rehashers
  <1>3. OneRehasher'
    BY <1>2, FS_Singleton DEF IInv, OneRehasher
  <1>4. BucketIsCurrent' /\ EntriesInPlace'
    BY DEF IInv, TypeOK, BucketIsCurrent, EntriesInPlace
  <1> QED BY <1>1, <1>3, <1>4 DEF IInv

(* One more is inside.                                                     *)
LEMMA EnterKeepsIInv ==
  ASSUME IInv, NEW t \in Threads, Enter(t) PROVE IInv'
  <1> USE DEF Enter, Goto, table, locals
  <1>1. TypeOK' /\ Progress'
    BY DEF IInv, TypeOK, PC, Progress
  <1>2. Inside' = Inside \cup {t} /\ t \notin Inside /\ Rehashers' = Rehashers
    BY DEF IInv, TypeOK, Inside, Rehashers
  <1>3. OneRehasher'
    <2>1. Inside \in SUBSET Threads
      BY DEF Inside
    <2> QED BY <1>2, <2>1, ThreadSets DEF IInv, OneRehasher
  <1>4. BucketIsCurrent' /\ EntriesInPlace'
    BY DEF IInv, TypeOK, BucketIsCurrent, EntriesInPlace
  <1> QED BY <1>1, <1>3, <1>4 DEF IInv

(* The rehash finds nobody inside, and who rehashes was the only one to.   *)
LEMMA RehashKeepsIInv ==
  ASSUME IInv, NEW t \in Threads, EnterAndRehash(t) \/ WakeAndRehash(t)
  PROVE  IInv'
  <1>1. /\ Rehash(t) /\ accessing = 0
        /\ \/ pc[t] = "enter" /\ ~rehashing
           \/ pc[t] = "rTry"
    BY DEF EnterAndRehash, WakeAndRehash, NobodyAccessing, MustRehash, Goto
  <1>2. /\ pc' \in [Threads -> PC] /\ pc'[t] = "index"
        /\ \A u \in Threads \ {t} :
             pc'[u] = IF pc[u] = "cWait" THEN "cTry" ELSE pc[u]
    BY <1>1 DEF Rehash, ContinueAll, IInv, TypeOK, PC
  <1>3. Inside = {} /\ Rehashers \subseteq {t}
    BY <1>1, Gate DEF Rehashers
  <1>4. Inside' = {t} /\ Rehashers' = {}
    BY <1>2, <1>3 DEF Inside, Rehashers
  <1>5. TypeOK'
    BY <1>1, <1>2, RehashedIsRight DEF Rehash, locals, IInv, TypeOK
  <1>6. Progress'
    BY <1>1, <1>2 DEF Rehash, locals, IInv, Progress
  <1>7. OneRehasher'
    <2>1. Cardinality({t}) = 1 /\ Cardinality({}) = 0
      BY FS_Singleton, FS_EmptySet
    <2>2. accessing' = 1 /\ ~rehashing'
      BY <1>1 DEF Rehash
    <2> QED BY <1>4, <2>1, <2>2 DEF OneRehasher
  <1>8. BucketIsCurrent'
    BY <1>2, <1>4 DEF BucketIsCurrent, Inside
  <1>9. EntriesInPlace'
    BY <1>1, RehashedIsRight DEF Rehash, EntriesInPlace
  <1> QED BY <1>5, <1>6, <1>7, <1>8, <1>9 DEF IInv

(* The bucket that an operation finds.                                     *)
LEMMA FindBucketKeepsIInv ==
  ASSUME IInv, NEW t \in Threads, FindBucket(t) PROVE IInv'
  <1> USE DEF FindBucket, Goto, table
  <1>1. Place(op[t].key, bucketList) \in Nat
    <2>1. op[t] \in Ops
      BY DEF IInv, TypeOK, Progress
    <2>2. op[t].key \in Keys
      BY <2>1 DEF Ops
    <2>3. Place(op[t].key, bucketList) \in 1 .. Len(bucketList)
      BY <2>2, PlaceInRange DEF IInv, TypeOK
    <2> QED BY <2>3
  <1>2. TypeOK'
    BY <1>1 DEF IInv, TypeOK, PC, gate
  <1>3. Progress'
    BY DEF IInv, TypeOK, Progress
  <1>4. Inside' = Inside /\ Rehashers' = Rehashers
    BY DEF IInv, TypeOK, Inside, Rehashers
  <1>5. OneRehasher'
    BY <1>4, GateKept
  <1>6. BucketIsCurrent' /\ EntriesInPlace'
    BY DEF IInv, TypeOK, BucketIsCurrent, EntriesInPlace
  <1> QED BY <1>2, <1>3, <1>5, <1>6 DEF IInv

(* An operation leaves every entry in its place.                           *)
LEMMA UseBucketKeepsIInv ==
  ASSUME IInv, NEW t \in Threads, UseBucket(t) PROVE IInv'
  <1> DEFINE k == op[t].key
             h == bucket[t]
  <1>1. PICK b \in Buckets, x \in Values \cup {NoValue} \cup BOOLEAN :
          /\ UNCHANGED <<size, gate, op, bucket, calls>>
          /\ pc[t] = "bucket" /\ pc' = [pc EXCEPT ![t] = "exit"]
          /\ Writes(k, h, b)
          /\ found' = [found EXCEPT ![t] = Found(x)]
    BY OperationEffect
  <1> HIDE DEF k, h
  <1>2. /\ bucketList' \in Seq(Buckets) /\ Len(bucketList') = Len(bucketList)
        /\ \A y \in Keys : Place(y, bucketList') = Place(y, bucketList)
        /\ EntriesInPlace'
    BY <1>1, WriteBucket
  <1>3. Found(x) \in [set : BOOLEAN,
                      value : Values \cup {NoValue} \cup BOOLEAN]
        /\ Found(x).set
    BY DEF Found
  <1>4. TypeOK'
    BY <1>1, <1>2, <1>3 DEF IInv, TypeOK, PC, gate
  <1>5. Progress'
    BY <1>1, <1>3 DEF IInv, TypeOK, Progress
  <1>6. Inside' = Inside /\ Rehashers' = Rehashers
    BY <1>1 DEF IInv, TypeOK, Inside, Rehashers
  <1>7. OneRehasher'
    BY <1>1, <1>6, GateKept
  <1>8. BucketIsCurrent'
    <2> SUFFICES ASSUME NEW u \in Threads, pc'[u] = "bucket"
                 PROVE  bucket'[u] = Place(op'[u].key, bucketList')
      BY DEF BucketIsCurrent
    <2>1. pc[u] = "bucket" /\ op'[u] = op[u] /\ bucket'[u] = bucket[u]
      BY <1>1 DEF IInv, TypeOK
    <2>2. op[u].key \in Keys
      BY <2>1 DEF IInv, TypeOK, Progress, Ops
    <2>3. bucket[u] = Place(op[u].key, bucketList)
      BY <2>1 DEF IInv, BucketIsCurrent
    <2> QED BY <1>2, <2>1, <2>2, <2>3
  <1> QED BY <1>2, <1>4, <1>5, <1>7, <1>8 DEF IInv

(* One less is inside; the notification wakes who waits to rehash.         *)
LEMMA ExitKeepsIInv ==
  ASSUME IInv, NEW t \in Threads, Exit(t) PROVE IInv'
  <1> USE DEF Exit, gate
  <1>1. /\ pc' \in [Threads -> PC] /\ pc[t] = "exit" /\ pc'[t] = "idle"
        /\ \A u \in Threads \ {t} :
             pc'[u] = pc[u] \/ (pc[u] = "rWait" /\ pc'[u] = "rTry")
    BY DEF IInv, TypeOK, PC, RehashOne
  <1>2. TypeOK'
    <2>1. NotYet \in [set : BOOLEAN,
                      value : Values \cup {NoValue} \cup BOOLEAN]
      BY DEF NotYet
    <2> QED BY <1>1, <2>1 DEF IInv, TypeOK
  <1>3. Progress'
    <2>1. op'[t] = NoOp /\ found'[t] = NotYet /\ ~NotYet.set
      BY DEF IInv, TypeOK, NotYet
    <2>2. \A u \in Threads \ {t} : op'[u] = op[u] /\ found'[u] = found[u]
      BY DEF IInv, TypeOK
    <2>3. \A u \in Threads \ {t} :
            /\ pc'[u] = "idle" <=> pc[u] = "idle"
            /\ pc'[u] = "exit" <=> pc[u] = "exit"
      BY <1>1
    <2> HIDE DEF Exit
    <2>4. \A u \in Threads \ {t} :
            /\ op[u] = NoOp <=> pc[u] = "idle"
            /\ pc[u] = "exit" => found[u].set
            /\ pc[u] # "exit" => found[u] = NotYet
      BY DEF IInv, Progress
    <2>5. \A u \in Threads \ {t} :
            /\ op'[u] = NoOp <=> pc'[u] = "idle"
            /\ pc'[u] = "exit" => found'[u].set
            /\ pc'[u] # "exit" => found'[u] = NotYet
      BY <2>2, <2>3, <2>4
    <2>6. /\ op'[t] = NoOp <=> pc'[t] = "idle"
          /\ pc'[t] = "exit" => found'[t].set
          /\ pc'[t] # "exit" => found'[t] = NotYet
      BY <1>1, <2>1
    <2> QED BY <2>5, <2>6 DEF Progress
  <1>4. Inside' = Inside \ {t} /\ t \in Inside /\ Rehashers' = Rehashers
    BY <1>1 DEF Inside, Rehashers
  <1>5. OneRehasher'
    <2>1. Inside \in SUBSET Threads
      BY DEF Inside
    <2> QED BY <1>4, <2>1, ThreadSets DEF IInv, OneRehasher
  <1>6. BucketIsCurrent' /\ EntriesInPlace'
    BY <1>1 DEF IInv, TypeOK, BucketIsCurrent, EntriesInPlace
  <1> QED BY <1>2, <1>3, <1>5, <1>6 DEF IInv

(* Every step keeps the invariant.                                         *)
LEMMA NextKeepsIInv == IInv /\ [Next]_vars => IInv'
  <1> SUFFICES ASSUME IInv, [Next]_vars PROVE IInv'
    OBVIOUS
  <1>1. ASSUME NEW t \in Threads, Step(t) PROVE IInv'
    BY <1>1, EnterAndWaitToRehashKeepsIInv, RehashKeepsIInv, EnterKeepsIInv,
       WaitKeepsIInv, FindBucketKeepsIInv, UseBucketKeepsIInv, ExitKeepsIInv
    DEF Step
  <1>2. CASE UNCHANGED vars
    BY <1>2 DEF vars, table, gate, locals, IInv, TypeOK, Progress,
                OneRehasher, Inside, Rehashers, BucketIsCurrent, EntriesInPlace
  <1> QED BY <1>1, <1>2, CallKeepsIInv, WaitKeepsIInv DEF Next

(* The inductive invariant holds in every state.                           *)
THEOREM Invariance == Spec => []IInv
  BY InitIInv, NextKeepsIInv, PTL DEF Spec

(* One thread rehashes, while nobody is inside, and every operation finds  *)
(* every entry where it looks for it.                                      *)
THEOREM RehashIsExact == Spec => []RehashExact
  <1>1. IInv => RehashExact
    BY DEF IInv, RehashExact
  <1> QED BY <1>1, Invariance, PTL
-----------------------------------------------------------------------------
(* Linearizability: the refinement of MapSpec.                             *)

(* The rehash does not change the map.                                     *)
LEMMA RehashKeepsMap ==
  ASSUME IInv, NEW t \in Threads, EnterAndRehash(t) \/ WakeAndRehash(t)
  PROVE  UNCHANGED <<Map, op, found>>
  <1>1. Rehash(t)
    BY DEF EnterAndRehash, WakeAndRehash
  <1>2. \A k \in Keys :
          Holding(bucketList'[Place(k, bucketList')], k) =
            Holding(bucketList[Place(k, bucketList)], k)
    BY <1>1, RehashedIsRight DEF Rehash
  <1>3. Map' = Map
    BY <1>2 DEF Map
  <1> QED BY <1>1, <1>3 DEF Rehash, locals

(* An operation takes effect when it uses its bucket.                      *)
LEMMA UseBucketRefines ==
  ASSUME IInv, NEW t \in Threads, UseBucket(t) PROVE Abstract!Effect(t)
  <1> DEFINE o == op[t]
             h == bucket[t]
             H == Holding(bucketList[h], o.key)
  <1>1. PICK b \in Buckets, x \in Values \cup {NoValue} \cup BOOLEAN :
          /\ o \in Ops /\ UNCHANGED <<size, gate, op, bucket, calls>>
          /\ pc[t] = "bucket" /\ pc' = [pc EXCEPT ![t] = "exit"]
          /\ Writes(o.key, h, b)
          /\ found' = [found EXCEPT ![t] = Found(x)]
          /\ Outcome(o, H, b, x)
    <2>1. o = op[t] /\ h = bucket[t] /\ H = Holding(bucketList[h], o.key)
      OBVIOUS
    <2> HIDE DEF o, h, H
    <2> QED BY <2>1, OperationEffect
  <1>2. /\ o.key \in Keys /\ h = Place(o.key, bucketList)
        /\ bucketList'[h] = b
        /\ \A y \in Keys : Place(y, bucketList') = Place(y, bucketList)
        /\ \A y \in Keys \ {o.key} :
             Holding(bucketList'[Place(y, bucketList)], y) =
               Holding(bucketList[Place(y, bucketList)], y)
    <2> HIDE DEF o, h
    <2>1. o.key \in Keys /\ h = Place(o.key, bucketList)
      BY <1>1 DEF Writes
    <2>2. bucketList'[h] = b
      BY <1>1, WriteBucket
    <2>3. \A y \in Keys : Place(y, bucketList') = Place(y, bucketList)
      BY <1>1, WriteBucket
    <2>4. \A y \in Keys \ {o.key} :
            Holding(bucketList'[Place(y, bucketList)], y) =
              Holding(bucketList[Place(y, bucketList)], y)
      BY <1>1, WriteBucket
    <2> QED BY <2>1, <2>2, <2>3, <2>4
  <1>3. /\ Map[o.key] = ValueOf(H)
        /\ ValueOf(H) = NoValue <=> H = {}
    BY <1>2, HeldOnce DEF Map
  <1> HIDE DEF o, h
  <1>4. Map' = [Map EXCEPT ![o.key] = ValueOf(Holding(b, o.key))]
    <2>1. ASSUME NEW y \in Keys \ {o.key} PROVE Map'[y] = Map[y]
      <3>1. Place(y, bucketList') = Place(y, bucketList)
        BY <1>2
      <3>2. Holding(bucketList'[Place(y, bucketList')], y) =
              Holding(bucketList[Place(y, bucketList)], y)
        BY <1>2, <3>1
      <3> QED BY <3>2 DEF Map
    <2>2. Map'[o.key] = ValueOf(Holding(b, o.key))
      <3>1. Holding(bucketList'[Place(o.key, bucketList')], o.key) =
              Holding(b, o.key)
        BY <1>2
      <3> QED BY <1>2, <3>1 DEF Map
    <2>3. /\ Map = [y \in Keys |-> Map[y]]
          /\ Map' = [y \in Keys |-> Map'[y]]
      BY DEF Map
    <2> QED BY <2>1, <2>2, <2>3
  <1>5. o # NoOp /\ ~found[t].set
    BY <1>1, MapAssumption DEF IInv, Progress, NotYet, o
  <1> HIDE DEF H
  <1>6. CASE o.kind = "insert"
    <2>1. Map' = [Map EXCEPT ![o.key] = o.value]
      <3>1. Holding(b, o.key) = {<<o.key, o.value>>}
        BY <1>1, <1>6 DEF Outcome
      <3>2. ValueOf(Holding(b, o.key)) = o.value
        BY <3>1, ValueOfOne
      <3> QED BY <1>4, <3>2
    <2>2. x = (Map[o.key] = NoValue)
      BY <1>1, <1>3, <1>6 DEF Outcome
    <2> QED BY <1>1, <1>5, <1>6, <2>1, <2>2
            DEF Abstract!Effect, Abstract!Answer, Found, o
  <1>7. CASE o.kind = "erase"
    <2>1. Map' = [Map EXCEPT ![o.key] = NoValue]
      BY <1>1, <1>4, <1>7 DEF Outcome, ValueOf
    <2>2. x = (Map[o.key] # NoValue)
      BY <1>1, <1>3, <1>7 DEF Outcome
    <2> QED BY <1>1, <1>5, <1>7, <2>1, <2>2
            DEF Abstract!Effect, Abstract!Answer, Found, o
  <1>8. CASE o.kind = "get"
    <2>1. Map' = Map
      BY <1>1, <1>3, <1>4, <1>8 DEF Outcome, Map
    <2>2. x = Map[o.key]
      BY <1>1, <1>3, <1>8 DEF Outcome
    <2> QED BY <1>1, <1>5, <1>8, <2>1, <2>2
            DEF Abstract!Effect, Abstract!Answer, Found, o
  <1>9. o.kind \in {"insert", "erase", "get"}
    BY <1>1 DEF Ops
  <1> QED BY <1>6, <1>7, <1>8, <1>9

(* The other steps call, return, or change nothing that MapSpec sees.      *)
LEMMA OthersRefine ==
  ASSUME IInv, NEW t \in Threads
  PROVE  /\ \A o \in Ops : Call(t, o) => Abstract!Call(t, o)
         /\ Exit(t) => Abstract!Return(t)
         /\ \/ EnterAndWaitToRehash(t) \/ WakeAndWaitToRehash(t) \/ Enter(t)
            \/ EnterAndWait(t) \/ FindBucket(t) \/ SpuriousWakeup(t)
            => UNCHANGED <<Map, op, found>>
  <1>1. ASSUME NEW o \in Ops, Call(t, o) PROVE Abstract!Call(t, o)
    BY <1>1 DEF Call, Goto, table, IInv, Progress, Map, Abstract!Call
  <1>2. ASSUME Exit(t) PROVE Abstract!Return(t)
    BY <1>2 DEF Exit, IInv, Progress, Map, NotYet, Abstract!Return,
                Abstract!Pending
  <1>3. ASSUME \/ EnterAndWaitToRehash(t) \/ WakeAndWaitToRehash(t) \/ Enter(t)
               \/ EnterAndWait(t) \/ FindBucket(t) \/ SpuriousWakeup(t)
        PROVE  UNCHANGED <<Map, op, found>>
    <2>1. UNCHANGED <<bucketList, op, found>>
      BY <1>3 DEF EnterAndWaitToRehash, WakeAndWaitToRehash, Enter,
                  EnterAndWait, FindBucket, SpuriousWakeup, table, locals
    <2> QED BY <2>1 DEF Map
  <1> QED BY <1>1, <1>2, <1>3

(* insert, get and erase take effect at one instant, on one map.           *)
THEOREM MapIsLinearizable == Spec => ImplementsMap
  <1>1. Init => Abstract!Init
    <2> SUFFICES ASSUME Init PROVE Abstract!Init
      OBVIOUS
    <2>1. ASSUME NEW k \in Keys
          PROVE  ValueOf(Holding(bucketList[Place(k, bucketList)], k))
                   = NoValue
      <3>1. Place(k, bucketList) \in 1 .. Len(bucketList)
        BY InitIInv, PlaceInRange DEF IInv, TypeOK
      <3>2. bucketList[Place(k, bucketList)] = {}
        BY <3>1 DEF Init
      <3> QED BY <3>2 DEF Holding, ValueOf
    <2>2. Map = [k \in Keys |-> NoValue]
      BY <2>1 DEF Map
    <2> QED BY <2>2 DEF Init, NotYet, Abstract!Init, Abstract!Pending
  <1>2. IInv /\ [Next]_vars => [Abstract!Next]_(Abstract!vars)
    <2> SUFFICES ASSUME IInv, [Next]_vars
                 PROVE  Abstract!Next \/ UNCHANGED Abstract!vars
      OBVIOUS
    <2> USE DEF Abstract!vars
    <2>1. CASE UNCHANGED vars
      BY <2>1 DEF vars, table, locals, Map
    <2>2. ASSUME NEW t \in Threads, NEW o \in Ops, Call(t, o)
          PROVE  Abstract!Next
      BY <2>2, OthersRefine DEF Abstract!Next, Ops, Abstract!Ops
    <2>3. ASSUME NEW t \in Threads, Step(t) \/ SpuriousWakeup(t)
          PROVE  Abstract!Next \/ UNCHANGED Abstract!vars
      BY <2>3, OthersRefine, RehashKeepsMap, UseBucketRefines
      DEF Step, Abstract!Next
    <2> QED BY <2>1, <2>2, <2>3 DEF Next
  <1> QED
    BY <1>1, <1>2, Invariance, PTL DEF Spec, ImplementsMap, Abstract!Spec
-----------------------------------------------------------------------------
(* size_                                                                   *)

(* Division with remainder.                                                *)
LEMMA Division ==
  ASSUME NEW n \in Nat \ {0}, NEW k \in Int
  PROVE  /\ k \div n \in Int /\ k % n \in 0 .. n - 1
         /\ k = n * (k \div n) + (k % n)
  OBVIOUS

(* It is the only one.                                                     *)
LEMMA Remainder ==
  ASSUME NEW n \in Nat \ {0}, NEW k \in Int, NEW q \in Int,
         NEW c \in 0 .. n - 1, k = n * q + c
  PROVE  k % n = c
  <1> DEFINE p == k \div n
             d == k % n
  <1>1. p \in Int /\ d \in 0 .. n - 1 /\ k = n * p + d
    BY Division
  <1> HIDE DEF p, d
  <1>2. n * (q - p) = d - c
    BY <1>1
  <1>3. q - p = 0
    <2>1. ASSUME NEW m \in Int, n * m < n PROVE m < 1
      BY <2>1
    <2>2. ASSUME NEW m \in Int, n * m > 0 - n PROVE m > 0 - 1
      BY <2>2
    <2>3. n * (q - p) < n /\ n * (q - p) > 0 - n
      BY <1>1, <1>2
    <2>4. q - p \in Int
      BY <1>1
    <2> QED BY <2>1, <2>2, <2>3, <2>4
  <1>4. p = q
    BY <1>1, <1>3
  <1>5. d = c
    BY <1>1, <1>4
  <1> QED BY <1>5 DEF d

(* Adding the modulus leaves the remainder.                                *)
LEMMA SameRemainder ==
  ASSUME NEW n \in Nat \ {0}, NEW x \in Int, NEW y \in Int, NEW q \in Int,
         x = y + n * q
  PROVE  x % n = y % n
  <1> DEFINE p == y \div n
             d == y % n
  <1>1. p \in Int /\ d \in 0 .. n - 1 /\ y = n * p + d
    BY Division
  <1> HIDE DEF p, d
  <1>2. p + q \in Int /\ x = n * (p + q) + d
    BY <1>1
  <1>3. x % n = d
    BY <1>1, <1>2, Remainder
  <1> QED BY <1>3 DEF d

(* What an operation will add to size_ is known from when it has used its  *)
(* bucket until it exits, and the table is finite.                         *)
SizeInv ==
  /\ size \in Int
  /\ diff \in [Threads -> {-1, 0, 1}]
  /\ \A t \in Threads : pc[t] # "exit" => diff[t] = 0
  /\ IsFiniteSet(Entries(bucketList))
  /\ SizeAccounted

(* The sum and the table are empty at first.                               *)
LEMMA SizeInit == Init => SizeInv
  <1> SUFFICES ASSUME Init PROVE SizeInv
    OBVIOUS
  <1>1. diff \in [Threads -> {-1, 0, 1}] /\ \A t \in Threads : diff[t] = 0
    BY DEF Init
  <1>2. Due(1) = 0 /\ Due(-1) = 0
    <2>1. /\ {t \in Threads : diff[t] = 1} = {}
          /\ {t \in Threads : diff[t] = -1} = {}
      BY <1>1
    <2> QED BY <2>1, FS_EmptySet DEF Due
  <1>3. Entries(bucketList) = {}
    BY DEF Init, Entries
  <1>4. /\ IsFiniteSet(Entries(bucketList))
        /\ Cardinality(Entries(bucketList)) = 0
    BY <1>3, FS_EmptySet
  <1> QED BY <1>1, <1>2, <1>4 DEF Init, SizeInv, SizeAccounted

(* One difference is replaced by another.                                  *)
LEMMA DueAfter ==
  ASSUME SizeInv, NEW t \in Threads, NEW e, diff' = [diff EXCEPT ![t] = e],
         NEW d
  PROVE  /\ Due(d) \in Nat
         /\ Due(d)' = Due(d) + (IF e = d THEN 1 ELSE 0)
                            - (IF diff[t] = d THEN 1 ELSE 0)
  <1> DEFINE S == {u \in Threads : diff[u] = d}
             T == {u \in Threads : diff'[u] = d}
  <1>1. S \in SUBSET Threads /\ T = IF e = d THEN S \cup {t} ELSE S \ {t}
    BY DEF SizeInv
  <1>2. t \in S <=> diff[t] = d
    OBVIOUS
  <1>3. Due(d) = Cardinality(S) /\ Due(d)' = Cardinality(T)
    BY DEF Due
  <1> HIDE DEF S, T
  <1>4. /\ Cardinality(S) \in Nat
        /\ t \notin S => Cardinality(S \cup {t}) = Cardinality(S) + 1
        /\ t \in S => Cardinality(S \ {t}) = Cardinality(S) - 1
    BY <1>1, ThreadSets
  <1>5. /\ t \in S => S \cup {t} = S
        /\ t \notin S => S \ {t} = S
    OBVIOUS
  <1>6. CASE e = d
    <2>1. T = S \cup {t}
      BY <1>1, <1>6
    <2>2. Cardinality(T) = Cardinality(S) + 1 - (IF t \in S THEN 1 ELSE 0)
      <3>1. CASE t \in S
        <4>1. T = S
          BY <1>5, <2>1, <3>1
        <4> QED BY <1>4, <3>1, <4>1
      <3>2. CASE t \notin S
        BY <1>4, <2>1, <3>2
      <3> QED BY <3>1, <3>2
    <2> QED BY <1>2, <1>3, <1>4, <1>6, <2>2
  <1>7. CASE e # d
    <2>1. T = S \ {t}
      BY <1>1, <1>7
    <2>2. Cardinality(T) = Cardinality(S) + 0 - (IF t \in S THEN 1 ELSE 0)
      <3>1. CASE t \in S
        BY <1>4, <2>1, <3>1
      <3>2. CASE t \notin S
        <4>1. T = S
          BY <1>5, <2>1, <3>2
        <4> QED BY <1>4, <3>2, <4>1
      <3> QED BY <3>1, <3>2
    <2> QED BY <1>2, <1>3, <1>4, <1>7, <2>2
  <1> QED BY <1>6, <1>7

(* Entries of one key are at most one; how they are replaced.              *)
LEMMA EntriesAfter ==
  ASSUME IInv, SizeInv, NEW k, NEW h, NEW b, Writes(k, h, b),
         NEW H, H = Holding(bucketList[h], k),
         NEW J, J = Holding(b, k)
  PROVE  /\ IsFiniteSet(Entries(bucketList'))
         /\ (H = {}) = (J = {}) =>
              Cardinality(Entries(bucketList')) =
                Cardinality(Entries(bucketList))
         /\ H = {} /\ J # {} =>
              Cardinality(Entries(bucketList')) =
                Cardinality(Entries(bucketList)) + 1
         /\ H # {} /\ J = {} =>
              Cardinality(Entries(bucketList')) =
                Cardinality(Entries(bucketList)) - 1
  <1> DEFINE E == Entries(bucketList)
             F == Entries(bucketList')
             G == E \ H
  <1>1. /\ k \in Keys /\ h = Place(k, bucketList) /\ h \in 1 .. Len(bucketList)
        /\ bucketList \in Seq(Buckets)
    BY PlaceInRange DEF Writes, IInv, TypeOK
  <1>2. /\ DOMAIN bucketList = 1 .. Len(bucketList)
        /\ DOMAIN bucketList' = 1 .. Len(bucketList)
        /\ \A i \in 1 .. Len(bucketList) :
             bucketList'[i] = IF i = h THEN b ELSE bucketList[i]
    BY <1>1 DEF Writes
  <1>3. H = {e \in E : e[1] = k}
    BY <1>1, <1>2 DEF IInv, EntriesInPlace, Entries, Holding
  <1>4. F = G \cup J
    <2>1. ASSUME NEW e \in F PROVE e \in G \cup J
      <3>1. PICK i \in 1 .. Len(bucketList) : e \in bucketList'[i]
        BY <1>2 DEF Entries
      <3>2. CASE i = h /\ e[1] = k
        BY <1>2, <3>1, <3>2 DEF Holding
      <3>3. CASE i = h /\ e[1] # k
        BY <1>1, <1>2, <1>3, <3>1, <3>3 DEF Writes, Entries
      <3>4. CASE i # h
        <4>1. e \in bucketList[i]
          BY <1>2, <3>1, <3>4
        <4>2. e[1] # k
          BY <1>1, <3>4, <4>1 DEF IInv, EntriesInPlace
        <4> QED BY <1>2, <1>3, <4>1, <4>2 DEF Entries
      <3> QED BY <3>2, <3>3, <3>4
    <2>2. ASSUME NEW e \in G PROVE e \in F
      <3>1. PICK i \in 1 .. Len(bucketList) : e \in bucketList[i]
        BY <1>2 DEF Entries
      <3>2. e[1] # k
        BY <1>3
      <3>3. e \in bucketList'[i]
        BY <1>2, <3>1, <3>2 DEF Writes
      <3> QED BY <1>2, <3>3 DEF Entries
    <2>3. ASSUME NEW e \in J PROVE e \in F
      <3>1. e \in bucketList'[h]
        BY <1>1, <1>2 DEF Holding
      <3> QED BY <1>1, <1>2, <3>1 DEF Entries
    <2> QED BY <2>1, <2>2, <2>3
  <1>5. /\ H = {} \/ \E e : H = {e}
        /\ J = {} \/ \E e : J = {e}
    <2>1. \A e, f \in H : e = f
      <3>1. H = Holding(bucketList[Place(k, bucketList)], k)
        BY <1>1
      <3> QED BY <1>1, <3>1, HeldOnce
    <2>2. \A e, f \in J : e = f
      BY DEF Writes, Holding
    <2>3. ASSUME NEW T, \A e, f \in T : e = f
          PROVE  T = {} \/ \E e : T = {e}
      <3>1. CASE \E e : e \in T
        <4>1. PICK e : e \in T
          BY <3>1
        <4>2. T = {e}
          BY <2>3, <4>1
        <4> QED BY <4>2
      <3> QED BY <3>1
    <2> HIDE DEF E, F
    <2>4. H = {} \/ \E e : H = {e}
      BY <2>1, <2>3
    <2>5. J = {} \/ \E e : J = {e}
      BY <2>2, <2>3
    <2> QED BY <2>4, <2>5
  <1>6. G \cap J = {} /\ H \subseteq E /\ IsFiniteSet(E)
    BY <1>3 DEF Holding, SizeInv
  <1> HIDE DEF E, F
  <1>7. /\ IsFiniteSet(G) /\ Cardinality(E) \in Nat
        /\ Cardinality(G) = IF H = {} THEN Cardinality(E)
                            ELSE Cardinality(E) - 1
    <2>1. CASE H = {}
      <3>1. G = E
        BY <2>1
      <3> QED BY <1>6, <2>1, <3>1, FS_CardinalityType
    <2>2. CASE H # {}
      <3>1. PICK e : H = {e}
        BY <1>5, <2>2
      <3>2. e \in E /\ G = E \ {e}
        BY <1>6, <3>1
      <3> QED BY <1>6, <2>2, <3>2, FS_CardinalityType, FS_RemoveElement
    <2> QED BY <2>1, <2>2
  <1> HIDE DEF G
  <1>8. /\ IsFiniteSet(F)
        /\ Cardinality(F) = IF J = {} THEN Cardinality(G)
                            ELSE Cardinality(G) + 1
    <2>1. CASE J = {}
      <3>1. F = G
        BY <1>4, <2>1
      <3> QED BY <1>7, <2>1, <3>1
    <2>2. CASE J # {}
      <3>1. PICK e : J = {e}
        BY <1>5, <2>2
      <3>2. e \notin G /\ F = G \cup {e}
        BY <1>4, <1>6, <3>1
      <3> QED BY <1>7, <2>2, <3>2, FS_AddElement
    <2> QED BY <2>1, <2>2
  <1>9. Cardinality(G) \in Nat
    BY <1>7, FS_CardinalityType
  <1>10. CASE H = {}
    BY <1>7, <1>8, <1>9, <1>10 DEF E, F
  <1>11. CASE H # {}
    BY <1>7, <1>8, <1>9, <1>11 DEF E, F
  <1> QED BY <1>10, <1>11

(* An operation tells exit what it has done to the number of entries.      *)
LEMMA UseBucketKeepsSize ==
  ASSUME IInv, SizeInv, NEW t \in Threads, UseBucket(t) PROVE SizeInv'
  <1> DEFINE o == op[t]
             h == bucket[t]
             H == Holding(bucketList[h], o.key)
             e == CASE o.kind = "insert" -> IF H = {} THEN 1 ELSE 0
                    [] o.kind = "get"    -> 0
                    [] o.kind = "erase"  -> IF H = {} THEN 0 ELSE -1
  <1>1. PICK b \in Buckets, x \in Values \cup {NoValue} \cup BOOLEAN :
          /\ o \in Ops /\ UNCHANGED <<size, gate, op, bucket, calls>>
          /\ pc[t] = "bucket" /\ pc' = [pc EXCEPT ![t] = "exit"]
          /\ Writes(o.key, h, b)
          /\ found' = [found EXCEPT ![t] = Found(x)]
          /\ Outcome(o, H, b, x)
    <2>1. o = op[t] /\ h = bucket[t] /\ H = Holding(bucketList[h], o.key)
      OBVIOUS
    <2> HIDE DEF o, h, H
    <2> QED BY <2>1, OperationEffect
  <1>2. o.kind \in {"insert", "get", "erase"}
    BY <1>1 DEF Ops
  <1>3. diff' = [diff EXCEPT ![t] = e]
    <2>1. CASE o.kind = "insert"
      BY <2>1 DEF UseBucket, Inserted
    <2>2. CASE o.kind = "get"
      BY <2>2 DEF UseBucket, Got
    <2>3. CASE o.kind = "erase"
      BY <2>3 DEF UseBucket, Erased
    <2> QED BY <1>2, <2>1, <2>2, <2>3
  <1> DEFINE J == Holding(b, o.key)
             old == Cardinality(Entries(bucketList))
             new == Cardinality(Entries(bucketList'))
  <1>4. /\ IsFiniteSet(Entries(bucketList'))
        /\ (H = {}) = (J = {}) => new = old
        /\ H = {} /\ J # {} => new = old + 1
        /\ H # {} /\ J = {} => new = old - 1
    BY <1>1, EntriesAfter
  <1>5. old \in Nat
    BY FS_CardinalityType DEF SizeInv
  <1>6. /\ o.kind = "insert" => J # {}
        /\ o.kind = "erase" => J = {}
        /\ o.kind = "get" => J = H
    BY <1>1 DEF Outcome
  <1> HIDE DEF o, h, H, J, old, new
  <1>7. e \in {-1, 0, 1} /\ new = old + e
    BY <1>2, <1>4, <1>5, <1>6
  <1> HIDE DEF e
  <1>8. diff[t] = 0 /\ diff' \in [Threads -> {-1, 0, 1}]
    BY <1>1, <1>3, <1>7 DEF SizeInv
  <1>9. \A u \in Threads : pc'[u] # "exit" => diff'[u] = 0
    BY <1>1, <1>3 DEF SizeInv, IInv, TypeOK
  <1>10. /\ Due(1) \in Nat /\ Due(-1) \in Nat
         /\ Due(1)' = Due(1) + (IF e = 1 THEN 1 ELSE 0)
         /\ Due(-1)' = Due(-1) + (IF e = -1 THEN 1 ELSE 0)
    <2>1. /\ Due(1) \in Nat
          /\ Due(1)' = Due(1) + (IF e = 1 THEN 1 ELSE 0)
                             - (IF diff[t] = 1 THEN 1 ELSE 0)
      BY <1>3, DueAfter
    <2>2. /\ Due(-1) \in Nat
          /\ Due(-1)' = Due(-1) + (IF e = -1 THEN 1 ELSE 0)
                               - (IF diff[t] = -1 THEN 1 ELSE 0)
      BY <1>3, DueAfter
    <2> QED BY <1>8, <2>1, <2>2
  <1> DEFINE sum == size + Due(1) - Due(-1)
  <1>11. sum \in Int /\ sum' = sum + e /\ size' = size
    BY <1>1, <1>7, <1>10 DEF SizeInv
  <1>12. sum % SizeModulus = old % SizeModulus
    BY DEF SizeInv, SizeAccounted, old
  <1>13. sum' % SizeModulus = new % SizeModulus
    <2> DEFINE M == SizeModulus
    <2>1. M \in Nat \ {0}
      BY MapAssumption
    <2> HIDE DEF M, sum
    <2>2. PICK q \in Int : sum = old + M * q
      <3> DEFINE p1 == sum \div M
                 p2 == old \div M
                 r1 == sum % M
                 r2 == old % M
      <3>1. /\ p1 \in Int /\ r1 \in 0 .. M - 1 /\ sum = M * p1 + r1
            /\ p2 \in Int /\ r2 \in 0 .. M - 1 /\ old = M * p2 + r2
        BY <1>5, <1>11, <2>1, Division
      <3>2. r1 = r2
        BY <1>12 DEF M
      <3> HIDE DEF p1, p2, r1, r2
      <3>3. p1 - p2 \in Int /\ sum = old + M * (p1 - p2)
        BY <2>1, <3>1, <3>2
      <3> QED BY <3>3
    <2>3. sum' \in Int /\ new \in Int /\ sum' = new + M * q
      BY <1>5, <1>7, <1>11, <2>1, <2>2
    <2>4. sum' % M = new % M
      BY <2>1, <2>2, <2>3, SameRemainder
    <2> QED BY <2>4 DEF M
  <1>14. SizeAccounted'
    BY <1>13 DEF SizeAccounted, new
  <1> QED BY <1>4, <1>8, <1>9, <1>11, <1>14 DEF SizeInv

(* exit adds to size_ what it takes out of the sum.                        *)
LEMMA ExitKeepsSize ==
  ASSUME IInv, SizeInv, NEW t \in Threads, Exit(t) PROVE SizeInv'
  <1> DEFINE d == diff[t]
             M == SizeModulus
             q == (size + d) \div M
             sum == size + Due(1) - Due(-1)
  <1>1. /\ size' = (size + d) % M /\ diff' = [diff EXCEPT ![t] = 0]
        /\ bucketList' = bucketList
    BY DEF Exit, NewSize
  <1>2. M \in Nat \ {0} /\ d \in {-1, 0, 1} /\ size \in Int
    BY MapAssumption DEF SizeInv
  <1>3. size + d \in Int
    BY <1>2
  <1> HIDE DEF M, d
  <1>4. q \in Int /\ size' \in Int /\ size + d = M * q + size'
    BY <1>1, <1>2, <1>3, Division
  <1> HIDE DEF q
  <1>5. /\ Due(1) \in Nat /\ Due(-1) \in Nat
        /\ Due(1)' = Due(1) - (IF d = 1 THEN 1 ELSE 0)
        /\ Due(-1)' = Due(-1) - (IF d = -1 THEN 1 ELSE 0)
    <2>1. /\ Due(1) \in Nat
          /\ Due(1)' = Due(1) + (IF 0 = 1 THEN 1 ELSE 0)
                             - (IF diff[t] = 1 THEN 1 ELSE 0)
      BY <1>1, DueAfter
    <2>2. /\ Due(-1) \in Nat
          /\ Due(-1)' = Due(-1) + (IF 0 = -1 THEN 1 ELSE 0)
                               - (IF diff[t] = -1 THEN 1 ELSE 0)
      BY <1>1, DueAfter
    <2> QED BY <2>1, <2>2 DEF d
  <1>6. sum \in Int /\ sum' \in Int /\ sum = sum' + M * q
    <2>1. M * q \in Int
      BY <1>2, <1>4
    <2>2. PICK w \in Int :
            w = M * q /\ size' \in Int /\ size + d = w + size'
      BY <1>4, <2>1
    <2>3. /\ Due(1) \in Nat /\ Due(-1) \in Nat
          /\ Due(1)' \in Int /\ Due(-1)' \in Int
          /\ Due(1)' - Due(-1)' = Due(1) - Due(-1) - d
      <3>1. CASE d = 1
        BY <1>5, <3>1
      <3>2. CASE d = 0
        BY <1>5, <3>2
      <3>3. CASE d = -1
        BY <1>5, <3>3
      <3> QED BY <1>2, <3>1, <3>2, <3>3
    <2>4. ASSUME NEW a \in Int, NEW x \in Int, NEW y \in Int,
                 NEW b \in Int, NEW u \in Int, NEW v \in Int,
                 a + d = w + b, u - v = x - y - d
          PROVE  a + x - y = (b + u - v) + w
      BY <1>2, <2>2, <2>4
    <2>5. size + Due(1) - Due(-1) = (size' + Due(1)' - Due(-1)') + w
      BY <1>2, <2>2, <2>3, <2>4
    <2>6. sum \in Int /\ sum' \in Int
      BY <1>2, <2>2, <2>3
    <2> QED BY <2>2, <2>5, <2>6
  <1>7. sum % M = sum' % M
    <2> HIDE DEF sum
    <2> QED BY <1>2, <1>4, <1>6, SameRemainder
  <1>8. SizeAccounted'
    <2>1. sum % M = Cardinality(Entries(bucketList)) % M
      BY DEF SizeInv, SizeAccounted, M
    <2> QED BY <1>1, <1>7, <2>1 DEF SizeAccounted, M
  <1>9. /\ diff' \in [Threads -> {-1, 0, 1}]
        /\ \A u \in Threads : pc'[u] # "exit" => diff'[u] = 0
    <2>1. \A u \in Threads \ {t} : pc'[u] = "exit" <=> pc[u] = "exit"
      BY DEF Exit, IInv, TypeOK, RehashOne
    <2> QED BY <1>1, <2>1 DEF SizeInv
  <1> QED BY <1>1, <1>4, <1>8, <1>9 DEF SizeInv

(* The rehash neither loses an entry nor makes one.                        *)
LEMMA RehashKeepsEntries == IInv => Entries(Rehashed) = Entries(bucketList)
  <1> SUFFICES ASSUME IInv PROVE Entries(Rehashed) = Entries(bucketList)
    OBVIOUS
  <1> DEFINE n == 2 * Len(bucketList)
             All == Entries(bucketList)
  <1>1. n \in Nat \ {0} /\ \A e \in All : e[1] \in Keys
    BY DEF IInv, TypeOK, Entries, Buckets
  <1>2. Rehashed = [i \in 1 .. n |-> {e \in All : (Hash[e[1]] % n) + 1 = i}]
    BY DEF Rehashed
  <1> HIDE DEF n, All
  <1>3. ASSUME NEW e \in All PROVE (Hash[e[1]] % n) + 1 \in 1 .. n
    <2>1. Hash[e[1]] \in Nat
      BY <1>1, MapAssumption
    <2>2. Hash[e[1]] % n \in 0 .. n - 1
      BY <1>1, <2>1, Division
    <2> QED BY <1>1, <2>2
  <1>4. Entries(Rehashed) = All
    BY <1>2, <1>3 DEF Entries
  <1> QED BY <1>4 DEF All

(* The other steps leave the sum and the entries as they are.              *)
LEMMA SizeKept ==
  ASSUME SizeInv, size' = size, diff' = diff,
         Entries(bucketList') = Entries(bucketList),
         \A t \in Threads : pc[t] = "exit" => pc'[t] = "exit"
  PROVE  SizeInv'
  <1>1. Due(1)' = Due(1) /\ Due(-1)' = Due(-1)
    BY DEF Due
  <1> QED BY <1>1 DEF SizeInv, SizeAccounted

(* Every step keeps size_ accounted for.                                   *)
LEMMA NextKeepsSize == IInv /\ SizeInv /\ [Next]_vars => SizeInv'
  <1> SUFFICES ASSUME IInv, SizeInv, [Next]_vars PROVE SizeInv'
    OBVIOUS
  <1>1. ASSUME NEW t \in Threads, EnterAndRehash(t) \/ WakeAndRehash(t)
        PROVE  SizeInv'
    <2>1. Rehash(t) /\ pc[t] # "exit"
      BY <1>1 DEF EnterAndRehash, WakeAndRehash
    <2>2. size' = size /\ diff' = diff /\ bucketList' = Rehashed
      BY <2>1 DEF Rehash, locals
    <2>3. \A u \in Threads : pc[u] = "exit" => pc'[u] = "exit"
      BY <2>1 DEF Rehash, ContinueAll, IInv, TypeOK
    <2> QED BY <2>2, <2>3, RehashKeepsEntries, SizeKept
  <1>2. ASSUME NEW t \in Threads,
               \/ EnterAndWaitToRehash(t) \/ WakeAndWaitToRehash(t)
               \/ Enter(t) \/ EnterAndWait(t) \/ FindBucket(t)
               \/ SpuriousWakeup(t) \/ \E o \in Ops : Call(t, o)
        PROVE  SizeInv'
    <2>1. size' = size /\ diff' = diff /\ bucketList' = bucketList
      BY <1>2 DEF EnterAndWaitToRehash, WakeAndWaitToRehash, Enter,
                  EnterAndWait, FindBucket, SpuriousWakeup, Call, table,
                  locals
    <2>2. \A u \in Threads : pc[u] = "exit" => pc'[u] = "exit"
      BY <1>2 DEF EnterAndWaitToRehash, WakeAndWaitToRehash, Enter,
                  EnterAndWait, FindBucket, SpuriousWakeup, Call, Goto,
                  IInv, TypeOK
    <2> QED BY <2>1, <2>2, SizeKept
  <1>3. CASE UNCHANGED vars
    BY <1>3, SizeKept DEF vars, table, locals
  <1> QED BY <1>1, <1>2, <1>3, UseBucketKeepsSize, ExitKeepsSize
          DEF Next, Step

(* size_ is off by what the operations on their way out will add, and      *)
(* nothing else, modulo 2^64.                                              *)
THEOREM SizeIsAccounted == Spec => []SizeAccounted
  <1>1. SizeInv => SizeAccounted
    BY DEF SizeInv
  <1>2. Spec => []SizeInv
    BY Invariance, SizeInit, NextKeepsSize, PTL DEF Spec
  <1> QED BY <1>1, <1>2, PTL
-----------------------------------------------------------------------------
(* Lost wake-ups.  The thread that waits to rehash sleeps while somebody   *)
(* is inside, and the others while a rehash is due.                        *)
Sleepers ==
  \A t \in Threads : /\ pc[t] = "rWait" => accessing # 0
                     /\ pc[t] = "cWait" => rehashing

\* Whoever sleeps, there is a thread awake that is inside, and will exit, or
\* that is about to rehash.
SomeoneIsAwake ==
  (\E t \in Threads : pc[t] \in {"rWait", "cWait"})
    => \E u \in Threads : pc[u] \in {"index", "bucket", "exit", "rTry"}

(* accessing++ and accessing-- are those of a number.                      *)
LEMMA AccessingIsNat == IInv /\ Threads # {} => accessing \in Nat
  <1> SUFFICES ASSUME IInv, NEW t \in Threads PROVE accessing \in Nat
    OBVIOUS
  <1>1. Inside \in SUBSET Threads
    BY DEF Inside
  <1>2. Cardinality(Inside) \in Nat
    BY <1>1, ThreadSets
  <1> QED BY <1>2 DEF IInv, OneRehasher

LEMMA StepKeepsSleepers ==
  ASSUME IInv, Sleepers, NEW t \in Threads,
         (\E o \in Ops : Call(t, o)) \/ Step(t) \/ SpuriousWakeup(t)
  PROVE  Sleepers'
  <1> USE AccessingIsNat DEF IInv, TypeOK, Sleepers, table, gate, locals
  <1>1. CASE \/ \E o \in Ops : Call(t, o)
             \/ FindBucket(t) \/ UseBucket(t) \/ SpuriousWakeup(t)
    BY <1>1 DEF Call, FindBucket, UseBucket, SpuriousWakeup, Goto
  <1>2. CASE \/ EnterAndWaitToRehash(t) \/ WakeAndWaitToRehash(t)
             \/ EnterAndWait(t)
    BY <1>2 DEF EnterAndWaitToRehash, WakeAndWaitToRehash, EnterAndWait,
                NobodyAccessing, MayPass, Goto
  <1>3. CASE Enter(t)
    BY <1>3 DEF Enter, Goto
  <1>4. CASE EnterAndRehash(t) \/ WakeAndRehash(t)
    <2>1. /\ accessing = 0 /\ accessing' = accessing + 1
          /\ pc' = ContinueAll([pc EXCEPT ![t] = "index"])
      BY <1>4 DEF EnterAndRehash, WakeAndRehash, Rehash, NobodyAccessing
    <2>2. \A u \in Threads : pc'[u] # "cWait"
      BY <2>1 DEF ContinueAll
    <2>3. accessing' # 0
      BY <2>1
    <2> QED BY <2>2, <2>3
  <1>5. CASE Exit(t)
    <2> DEFINE out == [pc EXCEPT ![t] = "idle"]
    <2>1. /\ rehashing' = rehashing
          /\ pc' = IF accessing' = 0 THEN RehashOne(out) ELSE out
      BY <1>5 DEF Exit
    <2>2. \A u \in Threads : out[u] = IF u = t THEN "idle" ELSE pc[u]
      OBVIOUS
    <2> HIDE DEF out
    <2>3. accessing' = 0 => \A u \in Threads : pc'[u] # "rWait"
      BY <2>1 DEF RehashOne
    <2>4. \A u \in Threads : pc'[u] = "cWait" => pc[u] = "cWait"
      BY <2>1, <2>2 DEF RehashOne
    <2> QED BY <2>1, <2>3, <2>4
  <1> QED BY <1>1, <1>2, <1>3, <1>4, <1>5 DEF Step

(* No wake-up is lost, the safety half of CallsReturn: the threads never   *)
(* wait for one another in a circle.                                       *)
THEOREM NoLostWakeup == Spec => []SomeoneIsAwake
  <1>1. Init => Sleepers
    BY DEF Init, Sleepers
  <1>2. IInv /\ Sleepers /\ [Next]_vars => Sleepers'
    <2> SUFFICES ASSUME IInv, Sleepers, [Next]_vars PROVE Sleepers'
      OBVIOUS
    <2>1. CASE UNCHANGED vars
      BY <2>1 DEF vars, table, gate, locals, Sleepers
    <2> QED BY <2>1, StepKeepsSleepers DEF Next
  <1>3. Spec => []Sleepers
    BY <1>1, <1>2, Invariance, PTL DEF Spec
  <1>4. IInv /\ Sleepers => SomeoneIsAwake
    <2> SUFFICES ASSUME IInv, Sleepers,
                        NEW t \in Threads, pc[t] \in {"rWait", "cWait"}
                 PROVE  \E u \in Threads :
                          pc[u] \in {"index", "bucket", "exit", "rTry"}
      BY DEF SomeoneIsAwake
    <2>1. /\ Inside \in SUBSET Threads /\ Rehashers \in SUBSET Threads
          /\ accessing = Cardinality(Inside)
          /\ rehashing => Cardinality(Rehashers) = 1
      BY DEF IInv, OneRehasher, Inside, Rehashers
    <2>2. CASE accessing # 0
      <3>1. Inside # {}
        BY <2>1, <2>2, ThreadSets
      <3> QED BY <3>1 DEF Inside
    <2>3. CASE accessing = 0
      <3>1. rehashing /\ Rehashers # {}
        BY <2>1, <2>3, ThreadSets DEF Sleepers
      <3> QED BY <2>3, <3>1 DEF Rehashers, Sleepers
    <2> QED BY <2>2, <2>3
  <1> QED BY <1>3, <1>4, Invariance, PTL
=============================================================================
