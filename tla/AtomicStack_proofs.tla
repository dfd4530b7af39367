------------------------- MODULE AtomicStack_proofs -------------------------
(***************************************************************************)
(* AtomicStack is a stack, whatever the number of threads and addresses:   *)
(* what a pop reads in a deleted node never gets to top, no node is lost   *)
(* or deleted twice, and push and pop are linearizable.                    *)
(***************************************************************************)
EXTENDS AtomicStack, SequenceTheorems, TLAPS

Tops     == [topNode : Pointers, popCount : Nat]
NextTops == [topNode : Pointers \cup {Garbage}, popCount : Nat]

TypeOK ==
  /\ live \in SUBSET Addrs
  /\ value \in [Addrs -> Values \cup {NoValue}]
  /\ next \in [Addrs -> Pointers]
  /\ top \in Tops
  /\ newNode \in [Threads -> Pointers]
  /\ oldTop \in [Threads -> Tops]
  /\ newTop \in [Threads -> NextTops]
  /\ result \in [Threads -> Values \cup {NoValue, Empty}]
  /\ pc \in [Threads -> PC]
  /\ stack \in Seq(Addrs)

(* A push knows what it has written in its node.                           *)
Prepared ==
  \A t \in Threads :
    /\ pc[t] \in {"uLoad", "uSwap"} => newNode[t] \in Addrs
    /\ pc[t] = "uSwap" =>
         /\ newTop[t].topNode = newNode[t]
         /\ newTop[t].popCount = oldTop[t].popCount
         /\ next[newNode[t]] = oldTop[t].topNode

(* As long as nothing was popped since a pop has loaded top, the node it   *)
(* saw is linked, and what it read there is true.                          *)
Remembered ==
  \A t \in Threads :
    /\ pc[t] \in {"oNext", "oSwap", "oRead", "oDelete"} =>
         oldTop[t].topNode \in Addrs
    /\ pc[t] \in {"oNext", "oSwap"} =>
         /\ oldTop[t].popCount <= top.popCount
         /\ oldTop[t].popCount = top.popCount => oldTop[t].topNode \in Linked
    /\ pc[t] = "oSwap" =>
         /\ newTop[t].popCount = oldTop[t].popCount + 1
         /\ oldTop[t].popCount = top.popCount =>
              newTop[t].topNode = next[oldTop[t].topNode]

IInv == /\ TypeOK
        /\ ListInMemory
        /\ OneOwner
        /\ Prepared
        /\ Remembered
-----------------------------------------------------------------------------
(* The stack starts empty.                                                 *)
LEMMA InitIInv == Init => IInv
  <1> SUFFICES ASSUME Init PROVE IInv
    OBVIOUS
  <1> USE DEF Init
  <1>1. TypeOK
    BY DEF TypeOK, PC, StackTop, Tops, NextTops, Pointers
  <1>2. ListInMemory /\ OneOwner
    BY DEF ListInMemory, OneOwner, Linked, Takers, Makers, StackTop
  <1>3. Prepared /\ Remembered
    BY DEF Prepared, Remembered
  <1> QED BY <1>1, <1>2, <1>3 DEF IInv

(* The linked nodes, and top.                                              *)
LEMMA ListOfNodes ==
  ASSUME IInv
  PROVE  /\ Len(stack) \in Nat
         /\ \A i \in 1 .. Len(stack) : stack[i] \in Linked
         /\ Linked \subseteq live /\ live \subseteq Addrs
         /\ stack = <<>> <=> Len(stack) = 0
         /\ stack = <<>> <=> top.topNode = nullptr
         /\ stack # <<>> => top.topNode = stack[1]
  <1>1. /\ Len(stack) \in Nat
        /\ \A i \in 1 .. Len(stack) : stack[i] \in Addrs /\ stack[i] \in Linked
        /\ stack = <<>> <=> Len(stack) = 0
        /\ stack # <<>> => Head(stack) = stack[1]
    BY DEF IInv, TypeOK, Linked
  <1>2. stack # <<>> => stack[1] # nullptr
    BY <1>1, StackAssumption
  <1>3. Linked \subseteq live /\ live \subseteq Addrs
    BY DEF IInv, TypeOK, OneOwner
  <1> QED BY <1>1, <1>2, <1>3 DEF IInv, ListInMemory

(* The list stays if neither top nor a linked node is written.             *)
LEMMA ListKept ==
  ASSUME IInv, UNCHANGED <<top, stack>>, \A a \in Linked : next'[a] = next[a]
  PROVE  ListInMemory' /\ Linked' = Linked
  <1>1. Linked' = Linked
    BY DEF Linked
  <1>2. ListInMemory'
    BY ListOfNodes DEF IInv, ListInMemory
  <1> QED BY <1>1, <1>2

(* A new node is in no one else's hands.                                   *)
LEMMA CallPushKeepsIInv ==
  ASSUME IInv, NEW t \in Threads, NEW v \in Values, NEW a \in Addrs,
         CallPush(t, v, a)
  PROVE  IInv'
  <1> USE DEF CallPush, Goto
  <1>1. TypeOK'
    BY DEF IInv, TypeOK, PC, Pointers
  <1>2. ListInMemory' /\ Linked' = Linked
    BY ListKept, ListOfNodes DEF IInv, TypeOK
  <1>3. Takers' = Takers /\ Makers' = Makers \cup {t} /\ t \notin Makers
    BY DEF IInv, TypeOK, Takers, Makers
  <1>4. OneOwner'
    BY <1>2, <1>3 DEF IInv, TypeOK, OneOwner
  <1>5. Prepared'
    BY DEF IInv, TypeOK, Prepared, OneOwner, Makers
  <1>6. Remembered'
    BY <1>2, ListOfNodes DEF IInv, TypeOK, Remembered
  <1> QED BY <1>1, <1>2, <1>4, <1>5, <1>6 DEF IInv

(* Only the pusher sees the node whose next field it writes.               *)
LEMMA PushLoadTopKeepsIInv ==
  ASSUME IInv, NEW t \in Threads, PushLoadTop(t) PROVE IInv'
  <1> USE DEF PushLoadTop, Goto
  <1>1. TypeOK'
    BY DEF IInv, TypeOK, PC, Tops, NextTops, Prepared
  <1>2. newNode[t] \in Addrs /\ newNode[t] \notin Linked
    BY DEF IInv, Prepared, OneOwner, Makers
  <1>3. ListInMemory' /\ Linked' = Linked
    BY <1>2, ListKept DEF IInv, TypeOK
  <1>4. Takers' = Takers /\ Makers' = Makers
    BY DEF IInv, TypeOK, Takers, Makers
  <1>5. OneOwner'
    BY <1>3, <1>4 DEF IInv, TypeOK, OneOwner, Takers
  <1>6. Prepared'
    BY <1>2 DEF IInv, TypeOK, Prepared, OneOwner, Makers, Tops
  <1>7. Remembered'
    BY <1>2, <1>3 DEF IInv, TypeOK, Remembered
  <1> QED BY <1>1, <1>3, <1>5, <1>6, <1>7 DEF IInv

(* What the exchange of push does to the list.                             *)
LEMMA PushSwapEffect ==
  ASSUME IInv, NEW t \in Threads, PushSwap(t)
  PROVE  /\ newNode[t] \in Addrs /\ newNode[t] \notin Linked
         /\ top'.topNode = newNode[t] /\ top'.popCount = top.popCount
         /\ next[newNode[t]] = top.topNode
         /\ stack' \in Seq(Addrs) /\ Len(stack') = Len(stack) + 1
         /\ stack'[1] = newNode[t]
         /\ \A i \in 1 .. Len(stack) : stack'[i + 1] = stack[i]
         /\ Linked' = Linked \cup {newNode[t]}
  <1> USE DEF PushSwap, Goto, Swaps
  <1>1. newNode[t] \in Addrs /\ newNode[t] \notin Linked
    BY DEF IInv, Prepared, OneOwner, Makers
  <1>2. /\ top'.topNode = newNode[t] /\ top'.popCount = top.popCount
        /\ next[newNode[t]] = top.topNode
    BY DEF IInv, Prepared
  <1>3. <<newNode[t]>> \in Seq(Addrs) /\ stack \in Seq(Addrs)
    BY <1>1 DEF IInv, TypeOK
  <1>4. /\ stack' \in Seq(Addrs) /\ Len(stack') = 1 + Len(stack)
        /\ \A i \in 1 .. 1 + Len(stack) :
             stack'[i] = IF i <= 1 THEN newNode[t] ELSE stack[i - 1]
    BY <1>3, ConcatProperties
  <1>5. /\ Len(stack') = Len(stack) + 1 /\ stack'[1] = newNode[t]
        /\ \A i \in 1 .. Len(stack) : stack'[i + 1] = stack[i]
    BY <1>3, <1>4
  <1>6. Linked' = Linked \cup {newNode[t]}
    BY <1>3, <1>4, <1>5 DEF Linked
  <1> QED BY <1>1, <1>2, <1>4, <1>5, <1>6

(* The node is no longer the pusher's but linked.                          *)
LEMMA PushSwapKeepsIInv ==
  ASSUME IInv, NEW t \in Threads, PushSwap(t) PROVE IInv'
  <1>1. /\ newNode[t] \in Addrs /\ newNode[t] \notin Linked
        /\ top'.topNode = newNode[t] /\ top'.popCount = top.popCount
        /\ next[newNode[t]] = top.topNode
        /\ Len(stack') = Len(stack) + 1 /\ stack'[1] = newNode[t]
        /\ \A i \in 1 .. Len(stack) : stack'[i + 1] = stack[i]
        /\ Linked' = Linked \cup {newNode[t]}
        /\ stack' # <<>> /\ Head(stack') = stack'[1]
    BY PushSwapEffect, ListOfNodes
  <1>2. TypeOK'
    BY PushSwapEffect DEF PushSwap, Goto, memory, IInv, TypeOK, PC, Tops,
                          NextTops, Pointers
  <1>3. \A k \in 1 .. Len(stack') :
          k # 1 => /\ k - 1 \in 1 .. Len(stack)
                   /\ stack'[k] = stack[k - 1] /\ stack'[k] \in Linked
    <2> SUFFICES ASSUME NEW k \in 1 .. Len(stack'), k # 1
                 PROVE  /\ k - 1 \in 1 .. Len(stack)
                        /\ stack'[k] = stack[k - 1] /\ stack'[k] \in Linked
      OBVIOUS
    <2>1. k - 1 \in 1 .. Len(stack)
      BY <1>1, ListOfNodes
    <2>2. stack'[(k - 1) + 1] = stack[k - 1]
      BY <1>1, <2>1
    <2> QED BY <2>1, <2>2, ListOfNodes
  <1>4. ListInMemory'
    <2>1. next' = next
      BY DEF PushSwap, memory
    <2>2. ASSUME NEW i \in 1 .. Len(stack')
          PROVE  next[stack'[i]] =
                   IF i = Len(stack') THEN nullptr ELSE stack'[i + 1]
      <3>1. CASE i = 1 /\ Len(stack) = 0
        BY <1>1, <3>1, ListOfNodes
      <3>2. CASE i = 1 /\ Len(stack) # 0
        <4>1. 1 \in 1 .. Len(stack) /\ i # Len(stack')
          BY <1>1, <3>2, ListOfNodes
        <4> QED BY <1>1, <3>2, <4>1, ListOfNodes
      <3>3. CASE i # 1
        <4>1. i - 1 \in 1 .. Len(stack) /\ stack'[i] = stack[i - 1]
          BY <1>3, <3>3
        <4>2. next[stack[i - 1]] =
                IF i - 1 = Len(stack) THEN nullptr ELSE stack[i]
          BY <4>1, ListOfNodes DEF IInv, ListInMemory
        <4>3. i # Len(stack') => stack'[i + 1] = stack[i]
          BY <1>1, <4>1, ListOfNodes
        <4>4. (i - 1 = Len(stack)) = (i = Len(stack'))
          BY <1>1, ListOfNodes
        <4> QED BY <4>1, <4>2, <4>3, <4>4
      <3> QED BY <3>1, <3>2, <3>3
    <2> QED BY <1>1, <2>1, <2>2 DEF ListInMemory
  <1>5. Takers' = Takers /\ Makers' = Makers \ {t} /\ t \in Makers
    BY DEF PushSwap, Goto, IInv, TypeOK, Takers, Makers
  <1>6. OneOwner'
    <2>1. ASSUME NEW i \in 1 .. Len(stack'), NEW j \in 1 .. Len(stack'),
                 stack'[i] = stack'[j]
          PROVE  i = j
      <3>1. (i = 1) = (j = 1)
        BY <1>1, <1>3, <2>1
      <3>2. CASE i # 1
        <4>1. /\ i - 1 \in 1 .. Len(stack) /\ j - 1 \in 1 .. Len(stack)
              /\ stack[i - 1] = stack[j - 1]
          BY <1>3, <2>1, <3>1, <3>2
        <4>2. i - 1 = j - 1
          BY <4>1 DEF IInv, OneOwner
        <4> QED BY <4>2
      <3> QED BY <3>1, <3>2
    <2>2. UNCHANGED <<live, newNode, oldTop>>
      BY DEF PushSwap, memory
    <2>3. \A u \in Takers : oldTop[u].topNode # newNode[t]
      BY <1>5 DEF IInv, OneOwner
    <2>4. \A u \in Makers \ {t} : newNode[u] # newNode[t]
      BY <1>5 DEF IInv, OneOwner
    <2> QED BY <1>1, <1>5, <2>1, <2>2, <2>3, <2>4 DEF IInv, OneOwner
  <1>7. Prepared'
    BY DEF PushSwap, Goto, memory, IInv, TypeOK, Prepared
  <1>8. Remembered'
    BY <1>1 DEF PushSwap, Goto, memory, IInv, TypeOK, Remembered
  <1> QED BY <1>2, <1>4, <1>6, <1>7, <1>8 DEF IInv

(* Steps that write neither top nor a node, and take none over.            *)
LEMMA MoveKeepsIInv ==
  ASSUME IInv, NEW t \in Threads,
         PushSwapFails(t) \/ PushReturn(t) \/ CallPop(t) \/ PopEmpty(t)
         \/ PopSwapFails(t) \/ PopReadValue(t) \/ PopReturn(t)
  PROVE  IInv'
  <1> USE DEF Goto, PushSwapFails, PushReturn, CallPop, PopEmpty,
              PopSwapFails, PopReadValue, PopReturn, memory
  <1>1. TypeOK'
    <2>1. StackTop \in Tops /\ StackTop \in NextTops
      BY DEF StackTop, Tops, NextTops, Pointers
    <2>2. CASE PopReadValue(t)
      BY <2>2 DEF IInv, TypeOK, PC, Remembered
    <2>3. CASE ~PopReadValue(t)
      BY <2>1, <2>3 DEF IInv, TypeOK, PC, Pointers
    <2> QED BY <2>2, <2>3
  <1>2. ListInMemory' /\ Linked' = Linked
    BY ListKept
  <1>3. /\ Takers' = Takers /\ \A u \in Takers : oldTop'[u] = oldTop[u]
        /\ Makers' = Makers /\ \A u \in Makers : newNode'[u] = newNode[u]
    BY DEF IInv, TypeOK, Takers, Makers
  <1>4. OneOwner'
    BY <1>2, <1>3 DEF IInv, OneOwner
  <1>5. Prepared'
    BY DEF IInv, TypeOK, Prepared
  <1>6. Remembered'
    BY <1>2 DEF IInv, TypeOK, Remembered
  <1> QED BY <1>1, <1>2, <1>4, <1>5, <1>6 DEF IInv

(* What a pop reads is true if nothing was popped since it loaded top, for *)
(* then the node is linked, and not deleted or in the hands of a push.     *)
LEMMA PopReadsKeepIInv ==
  ASSUME IInv, NEW t \in Threads, PopLoadTop(t) \/ PopReadNext(t)
  PROVE  IInv'
  <1> USE DEF Goto, PopLoadTop, PopReadNext, CountBumped, memory
  <1>1. /\ pc[t] \in {"oLoad", "oNext"} /\ pc' = [pc EXCEPT ![t] = pc'[t]]
        /\ pc'[t] \in {"oNext", "oSwap"}
        /\ \A u \in Threads \ {t} : /\ oldTop'[u] = oldTop[u]
                                    /\ newTop'[u] = newTop[u]
    BY DEF IInv, TypeOK
  <1>2. ListInMemory' /\ Linked' = Linked
    BY ListKept
  <1>3. Takers' = Takers /\ Makers' = Makers
    BY <1>1 DEF IInv, TypeOK, Takers, Makers
  <1>4. OneOwner'
    BY <1>1, <1>2, <1>3 DEF IInv, OneOwner, Takers
  <1>5. Prepared'
    BY <1>1 DEF IInv, TypeOK, Prepared
  <1>6. CASE PopLoadTop(t)
    <2>1. TypeOK'
      BY <1>6 DEF IInv, TypeOK, PC
    <2>2. top.topNode \in Addrs /\ top.topNode \in Linked
      BY <1>6, ListOfNodes DEF IInv, TypeOK, Tops
    <2>3. Remembered'
      BY <1>2, <1>6, <2>2 DEF IInv, TypeOK, Remembered, Tops
    <2> QED BY <1>2, <1>4, <1>5, <2>1, <2>3 DEF IInv
  <1>7. CASE PopReadNext(t)
    <2>1. PICK n \in NextReads(oldTop[t].topNode) :
            newTop' = [newTop EXCEPT
                        ![t] = [topNode |-> n,
                                popCount |-> oldTop[t].popCount + 1]]
      BY <1>7
    <2>2. oldTop[t].topNode \in Addrs /\ n \in Pointers \cup {Garbage}
      BY <1>7, <2>1 DEF IInv, TypeOK, Remembered, NextReads
    <2>3. TypeOK'
      BY <1>7, <2>1, <2>2 DEF IInv, TypeOK, PC, Tops, NextTops
    <2>4. ASSUME oldTop[t].popCount = top.popCount
          PROVE  n = next[oldTop[t].topNode]
      <3>1. oldTop[t].topNode \in Linked
        BY <1>7, <2>4 DEF IInv, Remembered
      <3>2. oldTop[t].topNode \in live \ Unpublished
        BY <3>1, ListOfNodes DEF IInv, OneOwner, Makers, Unpublished
      <3> QED BY <2>1, <3>2 DEF NextReads
    <2>5. /\ newTop'[t].popCount = oldTop[t].popCount + 1
          /\ newTop'[t].topNode = n
      BY <2>1 DEF IInv, TypeOK
    <2>6. Remembered'
      BY <1>1, <1>2, <1>7, <2>4, <2>5 DEF IInv, TypeOK, Remembered
    <2> QED BY <1>2, <1>4, <1>5, <2>3, <2>6 DEF IInv
  <1> QED BY <1>6, <1>7

(* What the exchange of pop does to the list.                              *)
LEMMA PopSwapEffect ==
  ASSUME IInv, NEW t \in Threads, PopSwap(t)
  PROVE  /\ stack # <<>> /\ stack[1] = oldTop[t].topNode
         /\ top.topNode = stack[1] /\ oldTop[t].topNode \in Linked
         /\ top'.popCount = top.popCount + 1
         /\ top'.topNode = next[stack[1]]
         /\ stack' \in Seq(Addrs) /\ Len(stack') = Len(stack) - 1
         /\ \A i \in 1 .. Len(stack) - 1 : stack'[i] = stack[i + 1]
         /\ Linked' = Linked \ {oldTop[t].topNode}
  <1> USE DEF PopSwap, Goto, Swaps
  <1>1. /\ oldTop[t].topNode \in Addrs /\ top.topNode = oldTop[t].topNode
        /\ newTop[t].topNode = next[oldTop[t].topNode]
        /\ newTop[t].popCount = top.popCount + 1
    BY DEF IInv, Remembered
  <1>2. stack # <<>> /\ top.topNode = stack[1] /\ stack[1] \in Linked
    BY <1>1, ListOfNodes, StackAssumption
  <1>3. /\ stack' \in Seq(Addrs) /\ Len(stack') = Len(stack) - 1
        /\ \A i \in 1 .. Len(stack) - 1 : stack'[i] = stack[i + 1]
    BY <1>2 DEF IInv, TypeOK
  <1>4. Linked' = Linked \ {stack[1]}
    <2>1. \A a \in Linked' : a \in Linked /\ a # stack[1]
      <3> SUFFICES ASSUME NEW i \in 1 .. Len(stack')
                   PROVE  stack'[i] \in Linked /\ stack'[i] # stack[1]
        BY DEF Linked
      <3>1. /\ i + 1 \in 1 .. Len(stack) /\ 1 \in 1 .. Len(stack)
            /\ stack'[i] = stack[i + 1]
        BY <1>3, ListOfNodes
      <3>2. i + 1 # 1
        OBVIOUS
      <3> QED BY <3>1, <3>2, ListOfNodes DEF IInv, OneOwner
    <2>2. ASSUME NEW a \in Linked, a # stack[1] PROVE a \in Linked'
      <3>1. PICK i \in 1 .. Len(stack) : a = stack[i]
        BY DEF Linked
      <3>2. i - 1 \in 1 .. Len(stack') /\ stack'[i - 1] = a
        BY <1>3, <2>2, <3>1, ListOfNodes
      <3> QED BY <3>2 DEF Linked
    <2> QED BY <2>1, <2>2
  <1> QED BY <1>1, <1>2, <1>3, <1>4

(* The node is no longer linked but the popper's.                          *)
LEMMA PopSwapKeepsIInv ==
  ASSUME IInv, NEW t \in Threads, PopSwap(t) PROVE IInv'
  <1>1. /\ stack[1] = oldTop[t].topNode /\ oldTop[t].topNode \in Linked
        /\ top'.popCount = top.popCount + 1 /\ top'.topNode = next[stack[1]]
        /\ Len(stack') = Len(stack) - 1 /\ Len(stack) \in Nat
        /\ \A i \in 1 .. Len(stack') : /\ i + 1 \in 1 .. Len(stack)
                                       /\ stack'[i] = stack[i + 1]
        /\ Linked' = Linked \ {oldTop[t].topNode}
    BY PopSwapEffect, ListOfNodes
  <1>2. 1 \in 1 .. Len(stack) /\ stack[1] \in Addrs
    BY PopSwapEffect, ListOfNodes
  <1>3. TypeOK'
    <2>1. top' \in NextTops
      BY DEF PopSwap, IInv, TypeOK
    <2>2. top'.topNode \in Pointers
      BY <1>1, <1>2 DEF IInv, TypeOK
    <2>3. top' \in Tops
      BY <2>1, <2>2 DEF Tops, NextTops
    <2> QED BY <2>3, PopSwapEffect
            DEF PopSwap, Goto, memory, IInv, TypeOK, PC
  <1>4. ListInMemory'
    <2>1. \A i \in 1 .. Len(stack) :
            next[stack[i]] = IF i = Len(stack) THEN nullptr ELSE stack[i + 1]
      BY DEF IInv, ListInMemory
    <2>2. top'.topNode = IF stack' = <<>> THEN nullptr ELSE Head(stack')
      <3>1. CASE Len(stack) = 1
        <4>1. stack' = <<>>
          BY <1>1, <3>1, PopSwapEffect
        <4> QED BY <1>1, <1>2, <2>1, <3>1, <4>1
      <3>2. CASE Len(stack) # 1
        <4>1. 1 \in 1 .. Len(stack')
          BY <1>1, <1>2, <3>2
        <4>2. stack' # <<>> /\ Head(stack') = stack'[1]
          BY <4>1, PopSwapEffect
        <4>3. stack'[1] = stack[1 + 1] /\ next[stack[1]] = stack[1 + 1]
          BY <1>1, <1>2, <2>1, <3>2, <4>1
        <4> QED BY <1>1, <4>2, <4>3
      <3> QED BY <3>1, <3>2
    <2>3. ASSUME NEW i \in 1 .. Len(stack')
          PROVE  next[stack'[i]] =
                   IF i = Len(stack') THEN nullptr ELSE stack'[i + 1]
      <3>1. next[stack[i + 1]] =
              IF i + 1 = Len(stack) THEN nullptr ELSE stack[(i + 1) + 1]
        BY <1>1, <2>1
      <3>2. i # Len(stack') => stack'[i + 1] = stack[(i + 1) + 1]
        BY <1>1
      <3>3. (i = Len(stack')) = (i + 1 = Len(stack))
        BY <1>1
      <3> QED BY <1>1, <3>1, <3>2, <3>3
    <2>4. next' = next
      BY DEF PopSwap, memory
    <2> QED BY <2>2, <2>3, <2>4 DEF ListInMemory
  <1>5. Takers' = Takers \cup {t} /\ t \notin Takers /\ Makers' = Makers
    BY DEF PopSwap, Goto, IInv, TypeOK, Takers, Makers
  <1>6. OneOwner'
    <2>1. ASSUME NEW i \in 1 .. Len(stack'), NEW j \in 1 .. Len(stack'),
                 stack'[i] = stack'[j]
          PROVE  i = j
      <3>1. i + 1 = j + 1
        BY <1>1, <2>1 DEF IInv, OneOwner
      <3> QED BY <3>1
    <2>2. UNCHANGED <<live, newNode, oldTop>>
      BY DEF PopSwap, memory
    <2>3. \A u \in Takers : oldTop[u].topNode # oldTop[t].topNode
      BY <1>1 DEF IInv, OneOwner
    <2>4. \A u \in Makers : newNode[u] # oldTop[t].topNode
      BY <1>1 DEF IInv, OneOwner
    <2> QED BY <1>1, <1>5, <2>1, <2>2, <2>3, <2>4 DEF IInv, OneOwner
  <1>7. Prepared'
    BY DEF PopSwap, Goto, memory, IInv, TypeOK, Prepared
  <1>8. Remembered'
    <2>1. \A u \in Threads : oldTop[u].popCount \in Nat
      BY DEF IInv, TypeOK, Tops
    <2>2. top.popCount \in Nat /\ next' = next /\ oldTop' = oldTop
          /\ newTop' = newTop
      BY DEF IInv, TypeOK, Tops, PopSwap, memory
    <2>3. \A u \in Threads : pc[u] \in {"oNext", "oSwap"} =>
            /\ oldTop[u].popCount <= top'.popCount
            /\ oldTop[u].popCount # top'.popCount
      BY <1>1, <2>1, <2>2 DEF IInv, Remembered
    <2> QED BY <2>2, <2>3 DEF PopSwap, Goto, IInv, TypeOK, Remembered
  <1> QED BY <1>3, <1>4, <1>6, <1>7, <1>8 DEF IInv

(* The node that is deleted was the popper's alone.                        *)
LEMMA PopDeleteKeepsIInv ==
  ASSUME IInv, NEW t \in Threads, PopDelete(t) PROVE IInv'
  <1> USE DEF PopDelete, Goto
  <1>1. TypeOK'
    BY DEF IInv, TypeOK, PC
  <1>2. ListInMemory' /\ Linked' = Linked
    BY ListKept
  <1>3. Takers' = Takers \ {t} /\ t \in Takers /\ Makers' = Makers
    BY DEF IInv, TypeOK, Takers, Makers
  <1>4. OneOwner'
    BY <1>2, <1>3 DEF IInv, OneOwner
  <1>5. Prepared'
    BY DEF IInv, TypeOK, Prepared
  <1>6. Remembered'
    BY <1>2 DEF IInv, TypeOK, Remembered
  <1> QED BY <1>1, <1>2, <1>4, <1>5, <1>6 DEF IInv

(* Every step keeps the invariant.                                         *)
LEMMA NextKeepsIInv == IInv /\ [Next]_vars => IInv'
  <1> SUFFICES ASSUME IInv, [Next]_vars PROVE IInv'
    OBVIOUS
  <1>1. ASSUME NEW t \in Threads, NEW v \in Values, NEW a \in Addrs,
               CallPush(t, v, a)
        PROVE  IInv'
    BY <1>1, CallPushKeepsIInv
  <1>2. ASSUME NEW t \in Threads, PushStep(t) PROVE IInv'
    BY <1>2, PushLoadTopKeepsIInv, PushSwapKeepsIInv, MoveKeepsIInv
    DEF PushStep
  <1>3. ASSUME NEW t \in Threads, CallPop(t) \/ PopStep(t) PROVE IInv'
    BY <1>3, PopReadsKeepIInv, PopSwapKeepsIInv, PopDeleteKeepsIInv,
       MoveKeepsIInv
    DEF PopStep
  <1>4. CASE UNCHANGED vars
    BY <1>4 DEF vars, memory, IInv, TypeOK, ListInMemory, OneOwner, Prepared,
                Remembered, Linked, Takers, Makers
  <1> QED BY <1>1, <1>2, <1>3, <1>4 DEF Next

(* The inductive invariant holds in every state.                           *)
THEOREM Invariance == Spec => []IInv
  BY InitIInv, NextKeepsIInv, PTL DEF Spec

(* The list is intact, and every node has one owner: none is lost, deleted *)
(* twice or deleted while it is linked.                                    *)
THEOREM NodesAreExact == Spec => []NodesExact
  <1>1. IInv => NodesExact
    BY DEF IInv, NodesExact
  <1> QED BY <1>1, Invariance, PTL

(* The count of pops makes up for the reuse of addresses, whatever a pop   *)
(* has read in a deleted node.                                             *)
THEOREM StaleReadsAreDiscarded == Spec => []StaleReadsLose
  <1>1. IInv => StaleReadsLose
    BY DEF IInv, StaleReadsLose, Remembered
  <1> QED BY <1>1, Invariance, PTL
-----------------------------------------------------------------------------
(* Linearizability: the refinement of ContainerSpec.                       *)

(* A step of t changes nothing of the others but what they cannot see.     *)
OnlyOf(t) ==
  /\ \A u \in Threads \ {t} : /\ pc'[u] = pc[u] /\ result'[u] = result[u]
                              /\ newNode'[u] = newNode[u]
                              /\ oldTop'[u] = oldTop[u]
  /\ \A a \in live : value'[a] = value[a]

(* Every step is of that kind.                                             *)
LEMMA StepsAreOfOne ==
  ASSUME IInv, NEW t \in Threads,
         (\E v \in Values, a \in Addrs : CallPush(t, v, a)) \/ PushStep(t)
         \/ CallPop(t) \/ PopStep(t)
  PROVE  OnlyOf(t)
  <1> USE DEF OnlyOf, Goto, memory
  <1>1. ASSUME NEW v \in Values, NEW a \in Addrs, CallPush(t, v, a)
        PROVE  OnlyOf(t)
    BY <1>1 DEF IInv, TypeOK, CallPush
  <1>2. CASE PushStep(t)
    BY <1>2 DEF IInv, TypeOK, PushStep, PushLoadTop, PushSwap, PushSwapFails,
                PushReturn
  <1>3. CASE CallPop(t) \/ PopStep(t)
    BY <1>3 DEF IInv, TypeOK, CallPop, PopStep, PopLoadTop, PopEmpty,
                PopReadNext, PopSwap, PopSwapFails, PopReadValue, PopDelete,
                PopReturn
  <1> QED BY <1>1, <1>2, <1>3

(* The operations of the other threads are where they were.                *)
LEMMA OthersStay ==
  ASSUME IInv, NEW t \in Threads, OnlyOf(t), NEW u \in Threads \ {t}
  PROVE  Phase'[u] = Phase[u] /\ Datum'[u] = Datum[u]
  <1>1. /\ pc[u] \in {"uLoad", "uSwap"} => newNode[u] \in live
        /\ pc[u] = "oRead" => oldTop[u].topNode \in live
    BY DEF IInv, OneOwner, Makers, Takers
  <1>2. pc'[u] = pc[u] /\ result'[u] = result[u] /\ newNode'[u] = newNode[u]
        /\ oldTop'[u] = oldTop[u]
    BY DEF OnlyOf
  <1>3. Phase'[u] = Phase[u]
    BY <1>2 DEF Phase
  <1>4. /\ pc[u] \in {"uLoad", "uSwap"} =>
             value'[newNode'[u]] = value[newNode[u]]
        /\ pc[u] = "oRead" =>
             value'[oldTop'[u].topNode] = value[oldTop[u].topNode]
    BY <1>1, <1>2 DEF OnlyOf
  <1>5. Datum'[u] = Datum[u]
    BY <1>2, <1>4 DEF Datum
  <1> QED BY <1>3, <1>5

(* The operation of t moves on, as ContainerSpec has it.                   *)
LEMMA Advances ==
  ASSUME IInv, NEW t \in Threads, OnlyOf(t), NEW from, NEW to, NEW d,
         Phase[t] = from, Phase'[t] = to, Datum'[t] = d
  PROVE  Abstract!Advance(t, from, to, d)
  <1>1. Phase' = [Phase EXCEPT ![t] = to]
    <2>1. \A u \in Threads : Phase'[u] = IF u = t THEN to ELSE Phase[u]
      BY OthersStay
    <2>2. /\ Phase = [u \in Threads |-> Phase[u]]
          /\ Phase' = [u \in Threads |-> Phase'[u]]
      BY DEF Phase
    <2> QED BY <2>1, <2>2
  <1>2. Datum' = [Datum EXCEPT ![t] = d]
    <2>1. \A u \in Threads : Datum'[u] = IF u = t THEN d ELSE Datum[u]
      BY OthersStay
    <2>2. /\ Datum = [u \in Threads |-> Datum[u]]
          /\ Datum' = [u \in Threads |-> Datum'[u]]
      BY DEF Datum
    <2> QED BY <2>1, <2>2
  <1> QED BY <1>1, <1>2 DEF Abstract!Advance

(* Nothing that ContainerSpec sees has changed.                            *)
LEMMA Stutters ==
  ASSUME IInv, NEW t \in Threads, OnlyOf(t),
         Phase'[t] = Phase[t], Datum'[t] = Datum[t], Contents' = Contents
  PROVE  UNCHANGED Abstract!vars
  <1>1. Phase' = Phase
    BY OthersStay DEF Phase
  <1>2. Datum' = Datum
    BY OthersStay DEF Datum
  <1> QED BY <1>1, <1>2 DEF Abstract!vars
-----------------------------------------------------------------------------
(* The contents are a sequence, as long as the list.                       *)
LEMMA ContentsAreSequence ==
  ASSUME IInv
  PROVE  /\ Contents \in Seq(Values \cup {NoValue})
         /\ Len(Contents) = Len(stack) /\ Len(stack) \in Nat
         /\ \A i \in 1 .. Len(stack) : Contents[i] = value[stack[i]]
         /\ stack = <<>> <=> Contents = <<>>
  <1>1. \A i \in 1 .. Len(stack) : value[stack[i]] \in Values \cup {NoValue}
    BY ListOfNodes DEF IInv, TypeOK
  <1>2. /\ Contents \in Seq(Values \cup {NoValue})
        /\ Len(Contents) = Len(stack) /\ Len(stack) \in Nat
        /\ \A i \in 1 .. Len(stack) : Contents[i] = value[stack[i]]
    BY <1>1, ListOfNodes DEF Contents
  <1> QED BY <1>2, ListOfNodes

(* They change only by the exchanges.                                      *)
LEMMA ContentsStay ==
  ASSUME IInv, NEW t \in Threads, OnlyOf(t), UNCHANGED stack
  PROVE  Contents' = Contents
  BY ListOfNodes DEF Contents, OnlyOf

(* A push adds its value on top, when it exchanges top.                    *)
LEMMA SwapAdds ==
  ASSUME IInv, NEW t \in Threads, PushSwap(t)
  PROVE  Contents' = <<value[newNode[t]]>> \o Contents
  <1> DEFINE n == Len(stack)
             V == Values \cup {NoValue}
             x == value[newNode[t]]
  <1>1. /\ n \in Nat /\ Len(stack') = n + 1 /\ value' = value /\ x \in V
        /\ stack'[1] = newNode[t]
        /\ \A i \in 1 .. n : stack'[i + 1] = stack[i]
    BY PushSwapEffect, ListOfNodes DEF PushSwap, memory, IInv, TypeOK
  <1>2. Contents' = [i \in 1 .. n + 1 |-> value[stack'[i]]]
    BY <1>1 DEF Contents
  <1>3. /\ <<x>> \o Contents \in Seq(V)
        /\ Len(<<x>> \o Contents) = n + 1
        /\ \A i \in 1 .. n + 1 :
             (<<x>> \o Contents)[i] = IF i = 1 THEN x ELSE Contents[i - 1]
    <2>1. <<x>> \in Seq(V) /\ Len(<<x>>) = 1 /\ <<x>>[1] = x
      BY <1>1
    <2>2. Contents \in Seq(V) /\ Len(Contents) = n
      BY ContentsAreSequence
    <2> HIDE DEF n, V, x
    <2>3. /\ <<x>> \o Contents \in Seq(V)
          /\ Len(<<x>> \o Contents) = 1 + n
          /\ \A i \in 1 .. 1 + n :
               (<<x>> \o Contents)[i] =
                  IF i <= 1 THEN <<x>>[i] ELSE Contents[i - 1]
      BY <2>1, <2>2, ConcatProperties
    <2> QED BY <1>1, <2>1, <2>3
  <1>4. ASSUME NEW i \in 1 .. n + 1
        PROVE  value[stack'[i]] = (<<x>> \o Contents)[i]
    <2>1. CASE i = 1
      BY <1>1, <1>3, <2>1
    <2>2. CASE i # 1
      <3>1. i - 1 \in 1 .. n /\ stack'[(i - 1) + 1] = stack[i - 1]
        BY <1>1, <2>2
      <3>2. Contents[i - 1] = value[stack[i - 1]]
        BY <3>1, ContentsAreSequence
      <3> QED BY <1>3, <2>2, <3>1, <3>2
    <2> QED BY <2>1, <2>2
  <1>5. <<x>> \o Contents = [i \in 1 .. n + 1 |-> (<<x>> \o Contents)[i]]
    <2> DEFINE s == <<x>> \o Contents
    <2>1. s \in Seq(V) /\ Len(s) = n + 1
      BY <1>3
    <2> HIDE DEF s, n, V, x
    <2>2. s = [i \in 1 .. Len(s) |-> s[i]]
      BY <2>1
    <2> QED BY <2>1, <2>2 DEF s
  <1> HIDE DEF n, x
  <1> QED BY <1>2, <1>4, <1>5 DEF x

(* A pop takes the top value, when it exchanges top.                       *)
LEMMA SwapRemoves ==
  ASSUME IInv, NEW t \in Threads, PopSwap(t)
  PROVE  /\ Contents # <<>>
         /\ Head(Contents) = value[oldTop[t].topNode]
         /\ Contents' = Tail(Contents)
  <1> DEFINE n == Len(stack)
             V == Values \cup {NoValue}
  <1>1. /\ n \in Nat /\ 1 \in 1 .. n /\ Len(stack') = n - 1 /\ value' = value
        /\ stack[1] = oldTop[t].topNode
        /\ \A i \in 1 .. n - 1 : stack'[i] = stack[i + 1]
    BY PopSwapEffect, ListOfNodes DEF PopSwap, memory
  <1>2. Contents # <<>> /\ Head(Contents) = value[oldTop[t].topNode]
    BY <1>1, ContentsAreSequence
  <1>3. Contents' = [i \in 1 .. n - 1 |-> value[stack[i + 1]]]
    BY <1>1 DEF Contents
  <1>4. /\ Tail(Contents) \in Seq(V) /\ Len(Tail(Contents)) = n - 1
        /\ \A i \in 1 .. n - 1 : Tail(Contents)[i] = Contents[i + 1]
    BY <1>2, ContentsAreSequence, HeadTailProperties
  <1>5. \A i \in 1 .. n - 1 : Contents[i + 1] = value[stack[i + 1]]
    BY <1>1, ContentsAreSequence
  <1>6. Tail(Contents) = [i \in 1 .. n - 1 |-> Tail(Contents)[i]]
    <2> DEFINE s == Tail(Contents)
    <2>1. s \in Seq(V) /\ Len(s) = n - 1
      BY <1>4
    <2> HIDE DEF s, n, V
    <2>2. s = [i \in 1 .. Len(s) |-> s[i]]
      BY <2>1
    <2> QED BY <2>1, <2>2 DEF s
  <1> HIDE DEF n
  <1> QED BY <1>2, <1>3, <1>4, <1>5, <1>6
-----------------------------------------------------------------------------
(* The steps of push: its instant is the exchange.                         *)
LEMMA PushRefines ==
  ASSUME IInv, NEW t \in Threads, PushStep(t)
  PROVE  Abstract!Push(t) \/ Abstract!Return(t) \/ UNCHANGED Abstract!vars
  <1> USE DEF Goto, memory
  <1>1. OnlyOf(t)
    BY StepsAreOfOne
  <1>2. CASE PushLoadTop(t) \/ PushSwapFails(t)
    <2>1. Phase'[t] = Phase[t] /\ Datum'[t] = Datum[t] /\ UNCHANGED stack
      BY <1>2 DEF IInv, TypeOK, Phase, PhaseAt, Datum, PushLoadTop,
                  PushSwapFails
    <2> QED BY <1>1, <2>1, ContentsStay, Stutters
  <1>3. CASE PushSwap(t)
    <2>1. /\ Phase[t] = "push" /\ Phase'[t] = "pushed"
          /\ Datum'[t] = NoValue /\ Datum[t] = value[newNode[t]]
      BY <1>3 DEF IInv, TypeOK, Phase, PhaseAt, Datum, PushSwap
    <2>2. Contents' = <<Datum[t]>> \o Contents
      BY <1>3, <2>1, SwapAdds
    <2> QED BY <1>1, <2>1, <2>2, Advances DEF Abstract!Push
  <1>4. CASE PushReturn(t)
    <2>1. /\ Phase[t] = "pushed" /\ Phase'[t] = "idle" /\ Datum'[t] = NoValue
          /\ UNCHANGED stack
      BY <1>4 DEF IInv, TypeOK, Phase, PhaseAt, Datum, PushReturn
    <2> QED BY <1>1, <2>1, ContentsStay, Advances DEF Abstract!Return
  <1> QED BY <1>2, <1>3, <1>4 DEF PushStep

(* The steps of pop: its instant is the exchange, or the load of a null    *)
(* top.                                                                    *)
LEMMA PopRefines ==
  ASSUME IInv, NEW t \in Threads, PopStep(t)
  PROVE  Abstract!Pop(t) \/ Abstract!Return(t) \/ UNCHANGED Abstract!vars
  <1> USE DEF Goto, memory
  <1>1. OnlyOf(t)
    BY StepsAreOfOne
  <1>2. ASSUME UNCHANGED stack PROVE Contents' = Contents
    BY <1>1, <1>2, ContentsStay
  <1>3. CASE PopLoadTop(t) \/ PopReadNext(t) \/ PopSwapFails(t) \/ PopDelete(t)
    <2>1. Phase'[t] = Phase[t] /\ Datum'[t] = Datum[t] /\ UNCHANGED stack
      BY <1>3 DEF IInv, TypeOK, Phase, PhaseAt, Datum, PopLoadTop,
                  PopReadNext, PopSwapFails, PopDelete
    <2> QED BY <1>1, <1>2, <2>1, Stutters
  <1>4. CASE PopReadValue(t)
    <2>1. Phase'[t] = Phase[t] /\ Datum'[t] = Datum[t] /\ UNCHANGED stack
      BY <1>4 DEF IInv, TypeOK, Phase, PhaseAt, Datum, PopReadValue
    <2> QED BY <1>1, <1>2, <2>1, Stutters
  <1>5. CASE PopEmpty(t)
    <2>1. /\ Phase[t] = "pop" /\ Phase'[t] = "popped" /\ Datum'[t] = Empty
          /\ UNCHANGED stack
      BY <1>5 DEF IInv, TypeOK, Phase, PhaseAt, Datum, PopEmpty
    <2>2. Contents = <<>>
      BY <1>5, ListOfNodes, ContentsAreSequence DEF PopEmpty
    <2> QED BY <1>1, <1>2, <2>1, <2>2, Advances DEF Abstract!Pop
  <1>6. CASE PopSwap(t)
    <2>1. /\ Phase[t] = "pop" /\ Phase'[t] = "popped"
          /\ Datum'[t] = value[oldTop[t].topNode]
      BY <1>6 DEF IInv, TypeOK, Phase, PhaseAt, Datum, PopSwap
    <2>2. /\ Contents # <<>> /\ Contents' = Tail(Contents)
          /\ Datum'[t] = Head(Contents)
      BY <1>6, <2>1, SwapRemoves
    <2> QED BY <1>1, <2>1, <2>2, Advances DEF Abstract!Pop
  <1>7. CASE PopReturn(t)
    <2>1. /\ Phase[t] = "popped" /\ Phase'[t] = "idle" /\ Datum'[t] = NoValue
          /\ UNCHANGED stack
      BY <1>7 DEF IInv, TypeOK, Phase, PhaseAt, Datum, PopReturn
    <2> QED BY <1>1, <1>2, <2>1, Advances DEF Abstract!Return
  <1> QED BY <1>3, <1>4, <1>5, <1>6, <1>7 DEF PopStep

(* The calls.                                                              *)
LEMMA CallsRefine ==
  ASSUME IInv, NEW t \in Threads
  PROVE  /\ \A v \in Values, a \in Addrs :
              CallPush(t, v, a) => Abstract!CallPush(t, v)
         /\ CallPop(t) => Abstract!CallPop(t)
  <1> USE DEF Goto
  <1>1. ASSUME NEW v \in Values, NEW a \in Addrs, CallPush(t, v, a)
        PROVE  Abstract!CallPush(t, v)
    <2>1. OnlyOf(t)
      BY <1>1, StepsAreOfOne
    <2>2. /\ Phase[t] = "idle" /\ Phase'[t] = "push" /\ Datum'[t] = v
          /\ UNCHANGED stack
      BY <1>1 DEF CallPush, IInv, TypeOK, Phase, PhaseAt, Datum
    <2> QED BY <2>1, <2>2, ContentsStay, Advances DEF Abstract!CallPush
  <1>2. ASSUME CallPop(t) PROVE Abstract!CallPop(t)
    <2>1. OnlyOf(t)
      BY <1>2, StepsAreOfOne
    <2>2. /\ Phase[t] = "idle" /\ Phase'[t] = "pop" /\ Datum'[t] = NoValue
          /\ UNCHANGED stack
      BY <1>2 DEF CallPop, IInv, TypeOK, Phase, PhaseAt, Datum
    <2> QED BY <2>1, <2>2, ContentsStay, Advances DEF Abstract!CallPop
  <1> QED BY <1>1, <1>2

(* push and pop take effect at one instant, in last-in first-out order.    *)
THEOREM StackIsLinearizable == Spec => ImplementsStack
  <1>1. Init => Abstract!Init
    <2> SUFFICES ASSUME Init PROVE Abstract!Init
      OBVIOUS
    <2>1. Contents = <<>>
      BY DEF Init, Contents
    <2> QED BY <2>1 DEF Init, Abstract!Init, Phase, PhaseAt, Datum
  <1>2. IInv /\ [Next]_vars => [Abstract!Next]_(Abstract!vars)
    <2> SUFFICES ASSUME IInv, [Next]_vars
                 PROVE  Abstract!Next \/ UNCHANGED Abstract!vars
      OBVIOUS
    <2>1. CASE UNCHANGED vars
      BY <2>1 DEF vars, memory, Abstract!vars, Contents, Phase, PhaseAt, Datum
    <2>2. CASE Next
      BY <2>2, PushRefines, PopRefines, CallsRefine DEF Next, Abstract!Next
    <2> QED BY <2>1, <2>2
  <1> QED
    BY <1>1, <1>2, Invariance, PTL DEF Spec, ImplementsStack, Abstract!Spec
=============================================================================
