------------------------- MODULE AtomicQueue_proofs -------------------------
(***************************************************************************)
(* AtomicQueue is a queue, whatever the number of threads and nodes: its   *)
(* nodes form one chain, and push and pop are linearizable.                *)
(***************************************************************************)
EXTENDS AtomicQueue, TLAPS

Pointers == 0 .. MaxNodes

TypeOK ==
  /\ allocated \in Nodes
  /\ value \in [Nodes -> Values \cup {NoValue}]
  /\ next \in [Nodes -> Pointers]
  /\ queueHead \in Nodes /\ queueTail \in Nodes
  /\ newNode \in [Threads -> Pointers] /\ tailNode \in [Threads -> Pointers]
  /\ oldHead \in [Threads -> Pointers] /\ newHead \in [Threads -> Pointers]
  /\ result \in [Threads -> Values \cup {NoValue, Empty}]
  /\ pc \in [Threads -> PC]
  /\ chain \in Seq(Nodes)
  /\ headPos \in Nat

\* Node n is one of the first k of the chain.
Member(n, k) == \E i \in 1 .. k : chain[i] = n
InChain(n)   == Member(n, Len(chain))

(* No node is linked twice, and those that are not linked point nowhere.   *)
Acyclic ==
  /\ \A i, j \in 1 .. Len(chain) : chain[i] = chain[j] => i = j
  /\ \A i \in 1 .. Len(chain) : chain[i] <= allocated
  /\ \A n \in Nodes : ~InChain(n) => next[n] = nullptr

(* A node that is to be pushed is known to its thread only.                *)
Pushing == {t \in Threads : pc[t] \in {"pLoad", "pLink"}}
Unlinked ==
  /\ \A t \in Pushing : newNode[t] \in 1 .. allocated /\ ~InChain(newNode[t])
  /\ \A t, u \in Pushing : newNode[t] = newNode[u] => t = u

(* What the threads remember is on the chain, where they found it, and no  *)
(* push has read the tail that another one is about to publish.            *)
Remembered ==
  /\ InChain(queueTail)
  /\ \A t \in Threads :
       /\ pc[t] \in {"pLink", "pSwing"} => InChain(tailNode[t])
       /\ pc[t] = "pSwing" => InChain(newNode[t])
       /\ pc[t] \in {"qNext", "qTake"} => Member(oldHead[t], headPos)
       /\ pc[t] = "qTake" => /\ newHead[t] = next[oldHead[t]]
                             /\ newHead[t] # nullptr
       /\ pc[t] = "qRead" => InChain(newHead[t])
  /\ ~NDEBUG => \A t \in Threads, u \in Swinging :
                  pc[t] = "pLink" => tailNode[t] # newNode[u]

IInv == /\ TypeOK
        /\ ChainInMemory
        /\ Acyclic
        /\ Unlinked
        /\ Remembered
        /\ TailLagsByOne
-----------------------------------------------------------------------------
(* The queue starts with the dummy node.                                   *)
LEMMA InitIInv == Init => IInv
  <1> SUFFICES ASSUME Init PROVE IInv
    OBVIOUS
  <1> USE QueueAssumption DEF Init, Nodes, Dummy, nullptr
  <1>1. chain = <<1>> /\ Len(chain) = 1 /\ chain[1] = 1
    OBVIOUS
  <1>2. TypeOK
    BY <1>1 DEF TypeOK, Pointers, PC
  <1>3. ChainInMemory /\ TailLagsByOne
    BY <1>1 DEF ChainInMemory, TailLagsByOne, Swinging
  <1>4. Acyclic /\ Unlinked /\ Remembered
    BY <1>1 DEF Acyclic, Unlinked, Pushing, Remembered, InChain, Member,
                Swinging
  <1> QED BY <1>2, <1>3, <1>4 DEF IInv

(* The chain is not empty and consists of nodes.                           *)
LEMMA ChainOfNodes ==
  ASSUME IInv
  PROVE  /\ Len(chain) \in Nat /\ 0 < Len(chain)
         /\ headPos \in 1 .. Len(chain)
         /\ \A i \in 1 .. Len(chain) : chain[i] \in Nodes
         /\ \A n, k : Member(n, k) /\ k \in 0 .. Len(chain) => InChain(n)
         /\ \A n : InChain(n) => n \in Nodes /\ n \in 1 .. allocated
  <1>1. Len(chain) \in Nat /\ \A i \in 1 .. Len(chain) : chain[i] \in Nodes
    BY DEF IInv, TypeOK
  <1>2. headPos \in 1 .. Len(chain) /\ 0 < Len(chain)
    BY <1>1 DEF IInv, ChainInMemory
  <1>3. \A n, k : Member(n, k) /\ k \in 0 .. Len(chain) => InChain(n)
    BY <1>1 DEF InChain, Member
  <1>4. \A n : InChain(n) => n \in Nodes /\ n \in 1 .. allocated
    BY <1>1 DEF IInv, TypeOK, Acyclic, InChain, Member, Nodes
  <1> QED BY <1>1, <1>2, <1>3, <1>4

(* A step that changes no more than where a thread is, and what it         *)
(* remembers, keeps what is said of the memory.                            *)
LEMMA MemoryKept ==
  ASSUME IInv, UNCHANGED <<memory, queueHead, queueTail, history>>
  PROVE  /\ ChainInMemory' /\ Acyclic'
         /\ \A n, k : Member(n, k)' <=> Member(n, k)
         /\ \A n : InChain(n)' <=> InChain(n)
  BY DEF IInv, ChainInMemory, Acyclic, InChain, Member, memory, history

(* A new node is not on the chain and known to its thread only.            *)
LEMMA CallPushKeepsIInv ==
  ASSUME IInv, NEW t \in Threads, NEW v \in Values, CallPush(t, v)
  PROVE  IInv'
  <1> USE DEF CallPush, Goto, history, nullptr
  <1>1. TypeOK'
    BY QueueAssumption DEF IInv, TypeOK, Nodes, Pointers, PC
  <1>2. ChainInMemory' /\ Acyclic' /\ (\A n : InChain(n)' <=> InChain(n))
    <2>1. ChainInMemory' /\ (\A n : InChain(n)' <=> InChain(n))
      BY DEF IInv, ChainInMemory, InChain, Member
    <2>2. \A i \in 1 .. Len(chain) : chain[i] <= allocated + 1
      BY ChainOfNodes DEF IInv, TypeOK, Acyclic, Nodes
    <2> QED BY <2>1, <2>2 DEF IInv, Acyclic
  <1>3. ~InChain(allocated + 1)
    BY DEF IInv, TypeOK, Acyclic, InChain, Member, Nodes
  <1>4. Unlinked'
    BY <1>2, <1>3 DEF IInv, TypeOK, Unlinked, Pushing, Nodes
  <1>5. Remembered' /\ TailLagsByOne'
    BY DEF IInv, TypeOK, Remembered, TailLagsByOne, Swinging, InChain, Member
  <1> QED BY <1>1, <1>2, <1>4, <1>5 DEF IInv

(* The tail a push reads is on the chain, and not one yet to be published. *)
LEMMA PushLoadTailKeepsIInv ==
  ASSUME IInv, NEW t \in Threads, PushLoadTail(t) PROVE IInv'
  <1> USE DEF PushLoadTail, Goto
  <1>1. TypeOK'
    BY DEF IInv, TypeOK, PC, memory, history, Nodes, Pointers
  <1>2. Unlinked'
    BY MemoryKept DEF IInv, TypeOK, Unlinked, Pushing, memory
  <1>3. TailLagsByOne'
    BY DEF IInv, TypeOK, TailLagsByOne, Swinging, history
  <1>4. ASSUME ~NDEBUG, NEW u \in Swinging PROVE queueTail # newNode[u]
    BY <1>4 DEF IInv, TypeOK, TailLagsByOne, Acyclic, Swinging
  <1>5. Remembered'
    BY <1>4, MemoryKept DEF IInv, TypeOK, Remembered, Swinging, memory, history
  <1> QED BY <1>1, <1>2, <1>3, <1>5, MemoryKept DEF IInv

(* The node is linked behind the last one of the chain.                    *)
LEMMA PushLinkEffect ==
  ASSUME IInv, NEW t \in Threads, PushLink(t)
  PROVE  /\ tailNode[t] = chain[Len(chain)]
         /\ newNode[t] \in 1 .. allocated /\ ~InChain(newNode[t])
         /\ chain' = Append(chain, newNode[t])
         /\ Len(chain') = Len(chain) + 1
         /\ chain'[Len(chain) + 1] = newNode[t]
         /\ \A i \in 1 .. Len(chain) : chain'[i] = chain[i]
         /\ \A n : InChain(n)' <=> (InChain(n) \/ n = newNode[t])
  <1>1. InChain(tailNode[t]) /\ next[tailNode[t]] = nullptr
    BY DEF IInv, PushLink, Goto, Remembered, CanLink
  <1>2. tailNode[t] = chain[Len(chain)]
    <2>1. PICK i \in 1 .. Len(chain) : chain[i] = tailNode[t]
      BY <1>1 DEF InChain, Member
    <2>2. CASE i # Len(chain)
      <3>1. chain[i + 1] \in Nodes /\ next[chain[i]] = chain[i + 1]
        BY <2>1, <2>2 DEF IInv, TypeOK, ChainInMemory
      <3> QED BY <1>1, <2>1, <3>1 DEF Nodes, nullptr
    <2> QED BY <2>1, <2>2
  <1>3. newNode[t] \in 1 .. allocated /\ ~InChain(newNode[t])
    BY DEF IInv, Unlinked, Pushing, PushLink, Goto
  <1>4. /\ chain' = Append(chain, newNode[t])
        /\ Len(chain') = Len(chain) + 1
        /\ chain'[Len(chain) + 1] = newNode[t]
        /\ \A i \in 1 .. Len(chain) : chain'[i] = chain[i]
    BY <1>3 DEF IInv, TypeOK, PushLink
  <1>5. ASSUME NEW n PROVE InChain(n)' <=> (InChain(n) \/ n = newNode[t])
    <2>1. InChain(n)' => InChain(n) \/ n = newNode[t]
      <3> SUFFICES ASSUME NEW i \in 1 .. Len(chain'), chain'[i] = n,
                          n # newNode[t]
                   PROVE  InChain(n)
        BY DEF InChain, Member
      <3>1. i \in 1 .. Len(chain)
        BY <1>4, ChainOfNodes
      <3> QED BY <1>4, <3>1 DEF InChain, Member
    <2>2. InChain(n) => InChain(n)'
      BY <1>4, ChainOfNodes DEF InChain, Member
    <2>3. n = newNode[t] => InChain(n)'
      BY <1>4, ChainOfNodes DEF InChain, Member
    <2> QED BY <2>1, <2>2, <2>3
  <1> QED BY <1>2, <1>3, <1>4, <1>5

(* The link makes the chain longer by the node, and starts the one swing.  *)
LEMMA PushLinkKeepsIInv ==
  ASSUME IInv, NEW t \in Threads, PushLink(t) PROVE IInv'
  <1> USE DEF PushLink, Goto, locals
  <1> DEFINE last == Len(chain)
  <1>1. /\ tailNode[t] = chain[last] /\ newNode[t] \in 1 .. allocated
        /\ newNode[t] \in Nodes /\ tailNode[t] \in Nodes
        /\ newNode[t] # tailNode[t] /\ next[newNode[t]] = nullptr
        /\ last \in Nat /\ 0 < last
    <2>1. /\ tailNode[t] = chain[last] /\ newNode[t] \in 1 .. allocated
          /\ ~InChain(newNode[t]) /\ last \in Nat /\ 0 < last
      BY PushLinkEffect, ChainOfNodes
    <2>2. InChain(tailNode[t]) /\ tailNode[t] \in Nodes
      BY <2>1, ChainOfNodes DEF InChain, Member
    <2>3. newNode[t] \in Nodes
      BY <2>1, QueueAssumption DEF IInv, TypeOK, Nodes
    <2>4. next[newNode[t]] = nullptr
      BY <2>1, <2>3 DEF IInv, Acyclic
    <2> QED BY <2>1, <2>2, <2>3, <2>4
  <1>2. next' = [next EXCEPT ![tailNode[t]] = newNode[t]]
    OBVIOUS
  <1>3. TypeOK'
    <2>1. next' \in [Nodes -> Pointers]
      BY <1>1, <1>2 DEF IInv, TypeOK, Nodes, Pointers
    <2>2. pc' \in [Threads -> PC]
      BY DEF IInv, TypeOK, PC
    <2>3. chain' \in Seq(Nodes)
      BY <1>1 DEF IInv, TypeOK
    <2> QED BY <2>1, <2>2, <2>3 DEF IInv, TypeOK
  <1>4. ChainInMemory'
    <2>1. headPos' \in 1 .. Len(chain') /\ queueHead' = chain'[headPos']
      BY PushLinkEffect DEF IInv, TypeOK, ChainInMemory
    <2>2. ASSUME NEW i \in 1 .. last + 1
          PROVE  next'[chain'[i]] =
                   IF i = last + 1 THEN nullptr ELSE chain'[i + 1]
      <3>1. CASE i = last + 1
        BY <1>1, <1>2, <3>1, PushLinkEffect DEF IInv, TypeOK
      <3>2. CASE i = last
        BY <1>1, <1>2, <3>2, PushLinkEffect DEF IInv, TypeOK
      <3>3. CASE i < last
        <4>1. chain[i] # tailNode[t] /\ chain[i] \in Nodes
          <5>1. i \in 1 .. last /\ last \in 1 .. last /\ i # last
            BY <1>1, <3>3
          <5> QED BY <1>1, <5>1, ChainOfNodes DEF IInv, Acyclic
        <4>2. next[chain[i]] = chain[i + 1]
          BY <1>1, <3>3 DEF IInv, ChainInMemory
        <4>3. next'[chain[i]] = next[chain[i]]
          BY <1>2, <4>1 DEF IInv, TypeOK
        <4>4. chain'[i] = chain[i] /\ chain'[i + 1] = chain[i + 1]
          BY <1>1, <3>3, PushLinkEffect
        <4> QED BY <3>3, <4>2, <4>3, <4>4
      <3> QED BY <1>1, <3>1, <3>2, <3>3
    <2> QED BY <2>1, <2>2, PushLinkEffect DEF ChainInMemory, nullptr
  <1>5. Acyclic'
    <2>1. \A i, j \in 1 .. last + 1 : chain'[i] = chain'[j] => i = j
      <3>1. \A i \in 1 .. last : chain'[i] = chain[i] /\ chain[i] # newNode[t]
        BY PushLinkEffect DEF InChain, Member
      <3> QED BY <1>1, <3>1, PushLinkEffect DEF IInv, Acyclic
    <2>2. \A i \in 1 .. last + 1 : chain'[i] <= allocated
      BY <1>1, PushLinkEffect DEF IInv, Acyclic
    <2>3. InChain(tailNode[t])
      BY <1>1 DEF InChain, Member
    <2>4. ASSUME NEW n \in Nodes, ~InChain(n)' PROVE next'[n] = nullptr
      <3>1. ~InChain(n) /\ n # tailNode[t]
        BY <2>3, <2>4, PushLinkEffect
      <3>2. next'[n] = next[n]
        BY <1>2, <3>1 DEF IInv, TypeOK
      <3> QED BY <3>1, <3>2 DEF IInv, Acyclic
    <2> QED BY <2>1, <2>2, <2>4, PushLinkEffect DEF Acyclic, nullptr
  <1>6. Unlinked'
    <2>1. Pushing' = Pushing \ {t} /\ t \in Pushing
      BY DEF IInv, TypeOK, Pushing
    <2>2. \A u \in Pushing' : newNode[u] \in 1 .. allocated
                              /\ ~InChain(newNode[u])'
      BY <2>1, PushLinkEffect DEF IInv, Unlinked
    <2> QED BY <2>1, <2>2 DEF IInv, Unlinked
  <1>7. TailLagsByOne'
    <2> SUFFICES ASSUME ~NDEBUG PROVE TailLagsByOne'
      BY DEF TailLagsByOne
    <2>1. Swinging = {} /\ queueTail = tailNode[t]
      BY <1>1 DEF IInv, TailLagsByOne, Remembered, Swinging
    <2>2. Swinging' = {t}
      BY <2>1 DEF IInv, TypeOK, Swinging
    <2> QED BY <1>1, <2>1, <2>2, PushLinkEffect DEF TailLagsByOne
  <1>8. Remembered'
    <2>1. \A n : Member(n, headPos) => Member(n, headPos)'
      BY PushLinkEffect DEF IInv, TypeOK, ChainInMemory, Member
    <2>2. ASSUME NEW u \in Threads, pc[u] = "qTake"
          PROVE  next'[oldHead[u]] = next[oldHead[u]]
      <3>1. next[oldHead[u]] # nullptr /\ next[tailNode[t]] = nullptr
        BY <2>2 DEF IInv, Remembered, CanLink
      <3> QED BY <1>2, <3>1 DEF IInv, TypeOK
    <2>3. InChain(queueTail)' /\ \A n : InChain(n) => InChain(n)'
      BY PushLinkEffect DEF IInv, Remembered
    <2>4. ASSUME ~NDEBUG, NEW s \in Threads, NEW u \in Swinging',
                 pc'[s] = "pLink"
          PROVE  tailNode[s] # newNode[u]
      <3>1. s # t /\ pc[s] = "pLink"
        BY <2>4 DEF IInv, TypeOK
      <3>2. CASE u = t
        BY <3>1, <3>2, PushLinkEffect DEF IInv, Remembered
      <3>3. CASE u # t
        BY <2>4, <3>1, <3>3 DEF IInv, TypeOK, Remembered, Swinging
      <3> QED BY <3>2, <3>3
    <2>5. ASSUME NEW u \in Threads
          PROVE  /\ pc'[u] \in {"pLink", "pSwing"} => InChain(tailNode[u])'
                 /\ pc'[u] = "pSwing" => InChain(newNode[u])'
                 /\ pc'[u] \in {"qNext", "qTake"} =>
                      Member(oldHead[u], headPos)'
                 /\ pc'[u] = "qTake" => /\ newHead[u] = next'[oldHead[u]]
                                        /\ newHead[u] # nullptr
                 /\ pc'[u] = "qRead" => InChain(newHead[u])'
      <3>1. CASE u = t
        BY <2>3, <3>1, PushLinkEffect DEF IInv, TypeOK, Remembered
      <3>2. CASE u # t
        <4>1. pc'[u] = pc[u]
          BY <3>2 DEF IInv, TypeOK
        <4> QED BY <2>1, <2>2, <2>3, <4>1 DEF IInv, Remembered
      <3> QED BY <3>1, <3>2
    <2> QED BY <2>3, <2>4, <2>5 DEF Remembered, nullptr
  <1> QED BY <1>3, <1>4, <1>5, <1>6, <1>7, <1>8 DEF IInv

(* The swing moves the tail to the last node, unless it is compiled away.  *)
LEMMA PushSwingTailKeepsIInv ==
  ASSUME IInv, NEW t \in Threads, PushSwingTail(t) PROVE IInv'
  <1> USE DEF PushSwingTail, nullptr
  <1>1. InChain(newNode[t]) /\ InChain(queueTail)
    BY DEF IInv, Remembered
  <1>2. queueTail' \in {queueTail, newNode[t]} /\ InChain(queueTail')
    BY <1>1 DEF SwungTail
  <1>3. TypeOK'
    <2>1. newNode[t] \in Nodes
      BY <1>1 DEF InChain, Member, IInv, TypeOK
    <2>2. nullptr \in Pointers
      BY QueueAssumption DEF Pointers
    <2>3. queueTail' \in Nodes
      BY <1>2, <2>1 DEF IInv, TypeOK
    <2>4. pc' \in [Threads -> PC]
      BY DEF IInv, TypeOK, PC
    <2> QED BY <2>2, <2>3, <2>4 DEF IInv, TypeOK, memory, history
  <1>4. /\ ChainInMemory' /\ Acyclic'
        /\ \A n, k : Member(n, k)' <=> Member(n, k)
    BY DEF IInv, ChainInMemory, Acyclic, InChain, Member, memory, history
  <1>5. Unlinked'
    BY <1>4 DEF IInv, TypeOK, Unlinked, Pushing, InChain, memory, history
  <1>6. TailLagsByOne'
    <2> SUFFICES ASSUME ~NDEBUG PROVE TailLagsByOne'
      BY DEF TailLagsByOne
    <2>1. /\ Swinging = {t} /\ queueTail = tailNode[t]
          /\ newNode[t] = chain[Len(chain)]
      BY DEF IInv, TailLagsByOne, Swinging
    <2> QED BY <2>1 DEF IInv, TypeOK, TailLagsByOne, Swinging, SwungTail,
                        history
  <1>7. Remembered'
    BY <1>2, <1>4 DEF IInv, TypeOK, Remembered, Swinging, InChain, memory,
                      history
  <1> QED BY <1>3, <1>4, <1>5, <1>6, <1>7 DEF IInv

(* The other steps of push, and the call of pop, change pc alone.          *)
LEMMA MoveKeepsIInv ==
  ASSUME IInv, NEW t \in Threads,
         PushLinkFails(t) \/ CallPop(t) \/ PopTakeFails(t)
  PROVE  IInv'
  <1> USE DEF PushLinkFails, CallPop, PopTakeFails, Goto, locals
  <1>1. TypeOK'
    BY DEF IInv, TypeOK, PC, memory, history
  <1>2. Unlinked'
    BY MemoryKept DEF IInv, TypeOK, Unlinked, Pushing, memory
  <1>3. Remembered'
    BY MemoryKept DEF IInv, TypeOK, Remembered, Swinging, memory, history
  <1>4. TailLagsByOne'
    <2>1. Swinging' = Swinging
      BY DEF IInv, TypeOK, Swinging
    <2> QED BY <2>1 DEF IInv, TailLagsByOne, history
  <1> QED BY <1>1, <1>2, <1>3, <1>4, MemoryKept DEF IInv

(* The steps of pop that change nothing but what it remembers.             *)
LEMMA PopReadsKeepIInv ==
  ASSUME IInv, NEW t \in Threads,
         \/ PopLoadHead(t) \/ PopLoadNext(t) \/ PopEmpty(t)
         \/ PopReadValue(t) \/ PopReturn(t)
  PROVE  IInv'
  <1> USE DEF PopLoadHead, PopLoadNext, PopEmpty, PopReadValue, PopReturn, Goto
  <1>1. pc[t] = "qRead" => newHead[t] \in Nodes
    BY DEF IInv, TypeOK, Remembered, InChain, Member
  <1>2. pc[t] = "qNext" => oldHead[t] \in Nodes
    BY DEF IInv, TypeOK, Remembered, ChainInMemory, Member
  <1>3. TypeOK'
    <2>1. queueHead \in Pointers /\ nullptr \in Pointers
      BY QueueAssumption DEF IInv, TypeOK, Nodes, Pointers, nullptr
    <2>2. pc' \in [Threads -> PC]
      BY DEF IInv, TypeOK, PC
    <2>3. result' \in [Threads -> Values \cup {NoValue, Empty}]
      BY <1>1 DEF IInv, TypeOK, TakenValue
    <2>4. /\ oldHead' \in [Threads -> Pointers]
          /\ newHead' \in [Threads -> Pointers]
      BY <1>2, <2>1 DEF IInv, TypeOK
    <2> QED BY <2>2, <2>3, <2>4 DEF IInv, TypeOK, memory, history
  <1>4. Unlinked'
    BY MemoryKept DEF IInv, TypeOK, Unlinked, Pushing, memory
  <1>5. Member(queueHead, headPos)
    BY DEF IInv, TypeOK, ChainInMemory, Member
  <1>6. Remembered'
    BY <1>5, MemoryKept DEF IInv, TypeOK, Remembered, Swinging, memory,
                            history, HasNext
  <1>7. TailLagsByOne'
    BY DEF IInv, TypeOK, TailLagsByOne, Swinging, history
  <1> QED BY <1>3, <1>4, <1>6, <1>7, MemoryKept DEF IInv

(* The node taken is the one behind the head.                              *)
LEMMA PopTakeEffect ==
  ASSUME IInv, NEW t \in Threads, PopTake(t)
  PROVE  /\ headPos + 1 \in 1 .. Len(chain)
         /\ newHead[t] = chain[headPos + 1]
  <1>1. /\ headPos \in 1 .. Len(chain) /\ oldHead[t] = chain[headPos]
        /\ newHead[t] = next[chain[headPos]] /\ newHead[t] # nullptr
    BY DEF IInv, ChainInMemory, Remembered, PopTake, Goto, CanTake
  <1> QED BY <1>1 DEF IInv, TypeOK, ChainInMemory

(* The head moves on by one node.                                          *)
LEMMA PopTakeKeepsIInv ==
  ASSUME IInv, NEW t \in Threads, PopTake(t) PROVE IInv'
  <1> USE DEF PopTake, Goto, memory, locals
  <1>1. TypeOK'
    <2>1. newHead[t] \in Nodes /\ headPos + 1 \in Nat
      <3>1. headPos + 1 \in 1 .. Len(chain) /\ newHead[t] = chain[headPos + 1]
        BY PopTakeEffect
      <3> QED BY <3>1, ChainOfNodes
    <2>2. pc' \in [Threads -> PC]
      BY DEF IInv, TypeOK, PC
    <2> QED BY <2>1, <2>2 DEF IInv, TypeOK
  <1>2. /\ ChainInMemory' /\ Acyclic'
        /\ \A n, k : Member(n, k)' <=> Member(n, k)
    BY PopTakeEffect DEF IInv, TypeOK, ChainInMemory, Acyclic, InChain, Member
  <1>3. Unlinked' /\ TailLagsByOne'
    BY <1>2 DEF IInv, TypeOK, Unlinked, Pushing, TailLagsByOne, Swinging,
                InChain
  <1>4. \A n : Member(n, headPos) => Member(n, headPos + 1)
    BY DEF IInv, TypeOK, Member
  <1>5. InChain(newHead[t])
    BY PopTakeEffect DEF InChain, Member
  <1>6. Remembered'
    BY <1>2, <1>4, <1>5 DEF IInv, TypeOK, Remembered, Swinging, InChain
  <1> QED BY <1>1, <1>2, <1>3, <1>6 DEF IInv

(* Every step keeps the invariant.                                         *)
LEMMA NextKeepsIInv == IInv /\ [Next]_vars => IInv'
  <1> SUFFICES ASSUME IInv, [Next]_vars PROVE IInv'
    OBVIOUS
  <1>1. ASSUME NEW t \in Threads, NEW v \in Values, CallPush(t, v) PROVE IInv'
    BY <1>1, CallPushKeepsIInv
  <1>2. ASSUME NEW t \in Threads, PushStep(t) PROVE IInv'
    BY <1>2, PushLoadTailKeepsIInv, PushLinkKeepsIInv, MoveKeepsIInv,
       PushSwingTailKeepsIInv DEF PushStep
  <1>3. ASSUME NEW t \in Threads, CallPop(t) \/ PopStep(t) PROVE IInv'
    BY <1>3, MoveKeepsIInv, PopReadsKeepIInv, PopTakeKeepsIInv DEF PopStep
  <1>4. CASE UNCHANGED vars
    BY <1>4 DEF vars, memory, locals, history, IInv, TypeOK, ChainInMemory,
                Acyclic, Unlinked, Pushing, Remembered, TailLagsByOne,
                Swinging, InChain, Member
  <1> QED BY <1>1, <1>2, <1>3, <1>4 DEF Next

(* The inductive invariant holds in every state.                           *)
THEOREM Invariance == Spec => []IInv
  BY InitIInv, NextKeepsIInv, PTL DEF Spec

(* The nodes form one chain, and the tail lags behind by one node at most. *)
THEOREM ChainIsExact == Spec => []ChainExact
  <1>1. IInv => ChainExact BY DEF IInv, ChainExact
  <1> QED BY <1>1, Invariance, PTL
-----------------------------------------------------------------------------
(* Linearizability: each step of the code is a step of ContainerSpec, or   *)
(* none.  What follows says when a step of thread t moves it on there.     *)

(* A step of t changes nothing of the others but what they cannot see.     *)
OnlyOf(t) ==
  /\ \A u \in Threads \ {t} : /\ pc'[u] = pc[u] /\ result'[u] = result[u]
                              /\ newNode'[u] = newNode[u]
                              /\ newHead'[u] = newHead[u]
  /\ \A n \in 1 .. allocated : value'[n] = value[n]

(* Every step is of that kind.                                             *)
LEMMA StepsAreOfOne ==
  ASSUME IInv, NEW t \in Threads,
         (\E v \in Values : CallPush(t, v)) \/ PushStep(t) \/ CallPop(t)
         \/ PopStep(t)
  PROVE  OnlyOf(t)
  <1> USE DEF OnlyOf, Goto, memory, locals
  <1>1. ASSUME NEW v \in Values, CallPush(t, v) PROVE OnlyOf(t)
    BY <1>1, QueueAssumption DEF IInv, TypeOK, CallPush, Nodes
  <1>2. CASE PushStep(t)
    BY <1>2 DEF IInv, TypeOK, PushStep, PushLoadTail, PushLink, PushLinkFails,
                PushSwingTail
  <1>3. CASE CallPop(t) \/ PopStep(t)
    BY <1>3 DEF IInv, TypeOK, CallPop, PopStep, PopLoadHead, PopLoadNext,
                PopEmpty, PopTake, PopTakeFails, PopReadValue, PopReturn
  <1> QED BY <1>1, <1>2, <1>3

(* The operations of the other threads are where they were.                *)
LEMMA OthersStay ==
  ASSUME IInv, NEW t \in Threads, OnlyOf(t), NEW u \in Threads \ {t}
  PROVE  Phase'[u] = Phase[u] /\ Datum'[u] = Datum[u]
  <1>1. pc[u] \in {"pLoad", "pLink"} => newNode[u] \in 1 .. allocated
    BY DEF IInv, Unlinked, Pushing
  <1>2. pc[u] = "qRead" => newHead[u] \in 1 .. allocated
    BY ChainOfNodes DEF IInv, Remembered
  <1>3. pc'[u] = pc[u] /\ result'[u] = result[u] /\ newNode'[u] = newNode[u]
        /\ newHead'[u] = newHead[u]
    BY DEF OnlyOf
  <1>4. Phase'[u] = Phase[u]
    BY <1>3 DEF Phase
  <1>5. /\ pc[u] \in {"pLoad", "pLink"} =>
             value'[newNode'[u]] = value[newNode[u]]
        /\ pc[u] = "qRead" => value'[newHead'[u]] = value[newHead[u]]
    BY <1>1, <1>2, <1>3 DEF OnlyOf
  <1>6. Datum'[u] = Datum[u]
    BY <1>3, <1>5 DEF Datum
  <1> QED BY <1>4, <1>6

(* The operation of t moves on, as ContainerSpec has it.                   *)
LEMMA Advances ==
  ASSUME IInv, NEW t \in Threads, OnlyOf(t), NEW from, NEW to, NEW d,
         Phase[t] = from, Phase'[t] = to, Datum'[t] = d
  PROVE  Abstract!Advance(t, from, to, d)
  <1>1. Phase' = [Phase EXCEPT ![t] = to]
    <2>1. \A u \in Threads :
            Phase'[u] = IF u = t THEN to ELSE Phase[u]
      BY OthersStay
    <2>2. /\ Phase = [u \in Threads |-> Phase[u]]
          /\ Phase' = [u \in Threads |-> Phase'[u]]
      BY DEF Phase
    <2> QED BY <2>1, <2>2
  <1>2. Datum' = [Datum EXCEPT ![t] = d]
    <2>1. \A u \in Threads :
            Datum'[u] = IF u = t THEN d ELSE Datum[u]
      BY OthersStay
    <2>2. /\ Datum = [u \in Threads |-> Datum[u]]
          /\ Datum' = [u \in Threads |-> Datum'[u]]
      BY DEF Datum
    <2> QED BY <2>1, <2>2
  <1> QED BY <1>1, <1>2 DEF Abstract!Advance

(* Nothing that ContainerSpec sees has changed.                            *)
LEMMA Stutters ==
  ASSUME IInv, NEW t \in Threads, OnlyOf(t),
         Phase'[t] = Phase[t], Datum'[t] = Datum[t], Contents' = Contents
  PROVE  UNCHANGED Abstract!vars
  <1>1. Phase' = Phase
    BY OthersStay DEF Phase
  <1>2. Datum' = Datum
    BY OthersStay DEF Datum
  <1> QED BY <1>1, <1>2 DEF Abstract!vars
-----------------------------------------------------------------------------
(* The contents are a sequence, as long as the chain behind the head.      *)
LEMMA ContentsAreSequence ==
  ASSUME IInv
  PROVE  /\ Contents \in Seq(Values \cup {NoValue})
         /\ Len(Contents) = Len(chain) - headPos
         /\ Len(chain) - headPos \in Nat
         /\ \A i \in 1 .. Len(chain) - headPos :
              Contents[i] = value[chain[headPos + i]]
  <1>1. Len(chain) - headPos \in Nat
    BY ChainOfNodes
  <1>2. \A i \in 1 .. Len(chain) - headPos :
          value[chain[headPos + i]] \in Values \cup {NoValue}
    BY ChainOfNodes DEF IInv, TypeOK
  <1> QED BY <1>1, <1>2 DEF Contents

(* They change only if a node is linked, or the head moves.                *)
LEMMA ContentsStay ==
  ASSUME IInv, NEW t \in Threads, OnlyOf(t), UNCHANGED history
  PROVE  Contents' = Contents
  <1>1. \A i \in 1 .. Len(chain) - headPos :
          chain[headPos + i] \in 1 .. allocated
    <2>1. \A i \in 1 .. Len(chain) : chain[i] \in 1 .. allocated
      BY ChainOfNodes DEF InChain, Member
    <2> QED BY <2>1, ChainOfNodes
  <1> QED BY <1>1 DEF Contents, OnlyOf, history

(* A push adds its value at the end, when its node is linked.              *)
LEMMA LinkAppends ==
  ASSUME IInv, NEW t \in Threads, PushLink(t)
  PROVE  Contents' = Append(Contents, value[newNode[t]])
  <1> DEFINE n == Len(chain) - headPos
  <1>1. /\ n \in Nat /\ Len(chain') - headPos = n + 1
        /\ headPos' = headPos /\ value' = value
    BY PushLinkEffect, ContentsAreSequence, ChainOfNodes DEF PushLink
  <1>2. Contents' = [i \in 1 .. n + 1 |-> value[chain'[headPos + i]]]
    BY <1>1 DEF Contents
  <1>3. ASSUME NEW i \in 1 .. n + 1
        PROVE  value[chain'[headPos + i]] =
                 IF i = n + 1 THEN value[newNode[t]] ELSE Contents[i]
    <2>1. CASE i = n + 1
      BY <1>1, <2>1, PushLinkEffect, ChainOfNodes
    <2>2. CASE i # n + 1
      <3>1. i \in 1 .. n /\ headPos + i \in 1 .. Len(chain)
        BY <1>1, <2>2, ChainOfNodes
      <3>2. chain'[headPos + i] = chain[headPos + i]
        BY <3>1, PushLinkEffect
      <3> QED BY <2>2, <3>1, <3>2, ContentsAreSequence
    <2> QED BY <2>1, <2>2
  <1>4. Append(Contents, value[newNode[t]]) =
          [i \in 1 .. n + 1 |->
             IF i = n + 1 THEN value[newNode[t]] ELSE Contents[i]]
    BY <1>1, ContentsAreSequence
  <1> HIDE DEF n
  <1> QED BY <1>2, <1>3, <1>4

(* The tail of a sequence, element by element.                             *)
LEMMA TailIsFunction ==
  ASSUME NEW S, NEW s \in Seq(S), s # <<>>
  PROVE  Tail(s) = [i \in 1 .. Len(s) - 1 |-> s[i + 1]]
  <1>1. /\ Tail(s) \in Seq(S) /\ Len(Tail(s)) = Len(s) - 1
        /\ \A i \in 1 .. Len(s) - 1 : Tail(s)[i] = s[i + 1]
    OBVIOUS
  <1>2. \A q \in Seq(S) : q = [i \in 1 .. Len(q) |-> q[i]]
    OBVIOUS
  <1> QED BY <1>1, <1>2

(* A pop takes the first value, when it moves the head.                    *)
LEMMA TakeRemoves ==
  ASSUME IInv, NEW t \in Threads, PopTake(t)
  PROVE  /\ Contents # <<>>
         /\ Head(Contents) = value[newHead[t]]
         /\ Contents' = Tail(Contents)
  <1> DEFINE n == Len(chain) - headPos
  <1>1. /\ n \in Nat /\ 1 <= n /\ headPos' = headPos + 1 /\ chain' = chain
        /\ Len(chain) - (headPos + 1) = n - 1 /\ value' = value
        /\ headPos \in Nat
    BY PopTakeEffect, ContentsAreSequence, ChainOfNodes DEF PopTake, memory
  <1>2. Contents # <<>> /\ Head(Contents) = Contents[1]
    BY <1>1, ContentsAreSequence
  <1>3. Contents[1] = value[newHead[t]]
    BY <1>1, PopTakeEffect, ContentsAreSequence
  <1>4. Contents' = [i \in 1 .. n - 1 |-> value[chain[headPos + 1 + i]]]
    BY <1>1 DEF Contents
  <1>5. Tail(Contents) = [i \in 1 .. n - 1 |-> Contents[i + 1]]
    <2>1. Tail(Contents) = [i \in 1 .. Len(Contents) - 1 |-> Contents[i + 1]]
      BY <1>2, TailIsFunction, ContentsAreSequence
    <2> QED BY <2>1, ContentsAreSequence
  <1>6. \A i \in 1 .. n - 1 : value[chain[headPos + 1 + i]] = Contents[i + 1]
    BY <1>1, ContentsAreSequence
  <1> HIDE DEF n
  <1> QED BY <1>2, <1>3, <1>4, <1>5, <1>6

(* A pop that finds no successor finds the queue empty at that instant.    *)
LEMMA EmptyIsEmpty ==
  ASSUME IInv, NEW t \in Threads, PopEmpty(t) PROVE Contents = <<>>
  <1>1. PICK i \in 1 .. headPos : chain[i] = oldHead[t]
    BY DEF IInv, Remembered, Member, PopEmpty, Goto
  <1>2. i \in 1 .. Len(chain) /\ next[chain[i]] = nullptr
    BY <1>1, ChainOfNodes DEF PopEmpty, HasNext
  <1>3. i = Len(chain)
    <2> SUFFICES ASSUME i # Len(chain) PROVE FALSE
      OBVIOUS
    <2>1. chain[i + 1] \in Nodes /\ next[chain[i]] = chain[i + 1]
      BY <1>2, ChainOfNodes DEF IInv, ChainInMemory
    <2> QED BY <1>2, <2>1 DEF Nodes, nullptr
  <1>4. Len(Contents) = 0
    BY <1>1, <1>3, ChainOfNodes, ContentsAreSequence
  <1> QED BY <1>4, ContentsAreSequence
-----------------------------------------------------------------------------
(* The steps of push: the link is the instant of the push.                 *)
LEMMA PushRefines ==
  ASSUME IInv, NEW t \in Threads, PushStep(t)
  PROVE  Abstract!Push(t) \/ Abstract!Return(t) \/ UNCHANGED Abstract!vars
  <1> USE DEF Goto
  <1>1. OnlyOf(t)
    BY StepsAreOfOne
  <1>2. CASE PushLoadTail(t) \/ PushLinkFails(t)
    <2>1. Phase'[t] = Phase[t] /\ Datum'[t] = Datum[t]
      BY <1>2 DEF IInv, TypeOK, Phase, PhaseAt, Datum, PushLoadTail,
                  PushLinkFails, memory, locals
    <2>2. Contents' = Contents
      BY <1>1, <1>2, ContentsStay DEF PushLoadTail, PushLinkFails
    <2> QED BY <1>1, <2>1, <2>2, Stutters
  <1>3. CASE PushLink(t)
    <2>1. /\ Phase[t] = "push" /\ Phase'[t] = "pushed"
          /\ Datum'[t] = NoValue /\ Datum[t] = value[newNode[t]]
      BY <1>3 DEF IInv, TypeOK, Phase, PhaseAt, Datum, PushLink
    <2>2. Contents' = Append(Contents, Datum[t])
      BY <1>3, <2>1, LinkAppends
    <2> QED BY <1>1, <2>1, <2>2, Advances DEF Abstract!Push
  <1>4. CASE PushSwingTail(t)
    <2>1. Contents' = Contents
      BY <1>1, <1>4, ContentsStay DEF PushSwingTail
    <2>2. Phase[t] = "pushed" /\ Datum[t] = NoValue /\ Datum'[t] = NoValue
      BY <1>4 DEF IInv, TypeOK, Phase, PhaseAt, Datum, PushSwingTail
    <2>3. CASE pc'[t] = "idle"
      <3>1. Phase'[t] = "idle"
        BY <2>3 DEF Phase, PhaseAt
      <3> QED BY <1>1, <2>1, <2>2, <3>1, Advances DEF Abstract!Return
    <2>4. CASE pc'[t] = "aborted"
      <3>1. Phase'[t] = "pushed"
        BY <2>4 DEF Phase, PhaseAt
      <3> QED BY <1>1, <2>1, <2>2, <3>1, Stutters
    <2> QED BY <1>4, <2>3, <2>4 DEF IInv, TypeOK, PushSwingTail
  <1> QED BY <1>2, <1>3, <1>4 DEF PushStep

(* The steps of pop: its instant is that it takes the head, or finds no    *)
(* successor.                                                              *)
LEMMA PopRefines ==
  ASSUME IInv, NEW t \in Threads, PopStep(t)
  PROVE  Abstract!Pop(t) \/ Abstract!Return(t) \/ UNCHANGED Abstract!vars
  <1> USE DEF Goto
  <1>1. OnlyOf(t)
    BY StepsAreOfOne
  <1>2. ASSUME UNCHANGED history PROVE Contents' = Contents
    BY <1>1, <1>2, ContentsStay
  <1>3. CASE PopLoadHead(t) \/ PopLoadNext(t) \/ PopTakeFails(t)
    <2>1. Phase'[t] = Phase[t] /\ Datum'[t] = Datum[t] /\ UNCHANGED history
      BY <1>3 DEF IInv, TypeOK, Phase, PhaseAt, Datum, PopLoadHead,
                  PopLoadNext, PopTakeFails
    <2> QED BY <1>1, <1>2, <2>1, Stutters
  <1>4. CASE PopReadValue(t)
    <2>1. Phase'[t] = Phase[t] /\ Datum'[t] = Datum[t] /\ UNCHANGED history
      BY <1>4 DEF IInv, TypeOK, Phase, PhaseAt, Datum, PopReadValue, TakenValue
    <2> QED BY <1>1, <1>2, <2>1, Stutters
  <1>5. CASE PopEmpty(t)
    <2>1. /\ Phase[t] = "pop" /\ Phase'[t] = "popped" /\ Datum'[t] = Empty
          /\ UNCHANGED history
      BY <1>5 DEF IInv, TypeOK, Phase, PhaseAt, Datum, PopEmpty
    <2>2. Contents = <<>>
      BY <1>5, EmptyIsEmpty
    <2> QED BY <1>1, <1>2, <2>1, <2>2, Advances DEF Abstract!Pop
  <1>6. CASE PopTake(t)
    <2>1. /\ Phase[t] = "pop" /\ Phase'[t] = "popped"
          /\ Datum'[t] = value[newHead[t]]
      BY <1>6 DEF IInv, TypeOK, Phase, PhaseAt, Datum, PopTake, memory, locals
    <2>2. /\ Contents # <<>> /\ Contents' = Tail(Contents)
          /\ Datum'[t] = Head(Contents)
      BY <1>6, <2>1, TakeRemoves
    <2> QED BY <1>1, <2>1, <2>2, Advances DEF Abstract!Pop
  <1>7. CASE PopReturn(t)
    <2>1. /\ Phase[t] = "popped" /\ Phase'[t] = "idle" /\ Datum'[t] = NoValue
          /\ UNCHANGED history
      BY <1>7 DEF IInv, TypeOK, Phase, PhaseAt, Datum, PopReturn
    <2> QED BY <1>1, <1>2, <2>1, Advances DEF Abstract!Return
  <1> QED BY <1>3, <1>4, <1>5, <1>6, <1>7 DEF PopStep

(* The calls.                                                              *)
LEMMA CallsRefine ==
  ASSUME IInv, NEW t \in Threads
  PROVE  /\ \A v \in Values : CallPush(t, v) => Abstract!CallPush(t, v)
         /\ CallPop(t) => Abstract!CallPop(t)
  <1> USE DEF Goto
  <1>1. ASSUME NEW v \in Values, CallPush(t, v) PROVE Abstract!CallPush(t, v)
    <2>1. OnlyOf(t)
      BY <1>1, StepsAreOfOne
    <2>2. /\ newNode'[t] = allocated + 1 /\ value'[allocated + 1] = v
          /\ pc[t] = "idle" /\ pc'[t] = "pLoad" /\ UNCHANGED history
      BY <1>1, QueueAssumption DEF CallPush, IInv, TypeOK, Nodes
    <2>3. Phase[t] = "idle" /\ Phase'[t] = "push" /\ Datum'[t] = v
      BY <2>2 DEF Phase, PhaseAt, Datum
    <2>4. Contents' = Contents
      BY <2>1, <2>2, ContentsStay
    <2> QED BY <2>1, <2>3, <2>4, Advances DEF Abstract!CallPush
  <1>2. ASSUME CallPop(t) PROVE Abstract!CallPop(t)
    <2>1. OnlyOf(t)
      BY <1>2, StepsAreOfOne
    <2>2. /\ Phase[t] = "idle" /\ Phase'[t] = "pop" /\ Datum'[t] = NoValue
          /\ UNCHANGED history
      BY <1>2 DEF CallPop, IInv, TypeOK, Phase, PhaseAt, Datum
    <2>3. Contents' = Contents
      BY <2>1, <2>2, ContentsStay
    <2> QED BY <2>1, <2>2, <2>3, Advances DEF Abstract!CallPop
  <1> QED BY <1>1, <1>2

(* push and pop take effect at one instant, in first-in first-out order.   *)
THEOREM QueueIsLinearizable == Spec => ImplementsQueue
  <1>1. Init => Abstract!Init
    <2> SUFFICES ASSUME Init PROVE Abstract!Init
      OBVIOUS
    <2>1. Contents = <<>>
      BY DEF Init, Contents
    <2> QED BY <2>1 DEF Init, Abstract!Init, Phase, PhaseAt, Datum
  <1>2. IInv /\ [Next]_vars => [Abstract!Next]_(Abstract!vars)
    <2> SUFFICES ASSUME IInv, [Next]_vars
                 PROVE  Abstract!Next \/ UNCHANGED Abstract!vars
      OBVIOUS
    <2>1. CASE UNCHANGED vars
      BY <2>1 DEF vars, memory, locals, history, Abstract!vars, Contents,
                  Phase, PhaseAt, Datum
    <2>2. CASE Next
      BY <2>2, PushRefines, PopRefines, CallsRefine DEF Next, Abstract!Next
    <2> QED BY <2>1, <2>2
  <1> QED
    BY <1>1, <1>2, Invariance, PTL DEF Spec, ImplementsQueue, Abstract!Spec
=============================================================================
