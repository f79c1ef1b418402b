----------------------------- MODULE PartsProofs -----------------------------
(***************************************************************************)
(* Proofs about the parts of the program that MCLockFree and MCSequential  *)
(* put side by side, each for every value of its constants: the lock-free  *)
(* stack, the SList and the reference counts under any number of threads;  *)
(* the receive buffer, CheckCycle, the casts and StompAllocator.           *)
(***************************************************************************)
EXTENDS MCLockFree, MCSequential, CycleSearchProofs, SequenceTheorems

-----------------------------------------------------------------------------
(* Proofs about LockFreeStack, for any number of threads and nodes: while  *)
(* no two threads pop at the same time it is whole, and it is a stack.     *)

IsOn(n, nodes) == \E i \in 1 .. Len(nodes) : nodes[i] = n

(* A node that is not in the stack yet, or no longer, is one thread's.     *)
Private ==
  \A t \in Threads :
    stackPc[t] \in {"pushCas", "take"} =>
      /\ mine[t] \in allocated
      /\ ~ IsOn(mine[t], chain)
      /\ \A u \in Threads :
           stackPc[u] \in {"pushCas", "take"} /\ mine[u] = mine[t] => u = t

OnePopper == \A t, u \in Threads : Pops(t) /\ Pops(u) => t = u

(* What the popping thread read is still so: nobody else takes nodes out.  *)
ReadIsTrue ==
  \A t \in Threads :
    /\ stackPc[t] \in {"readNext", "popCas"} => IsOn(mine[t], chain)
    /\ stackPc[t] = "popCas" => oldNext[t] = next[mine[t]]

Whole == Linked /\ stackCrash = "no" /\ Private /\ OnePopper /\ ReadIsTrue

StackIInv == StackTypeOK /\ (overlapped = "no" => Whole)

-----------------------------------------------------------------------------
(* Lemmas about the chain                                                  *)

(* The chain as a sequence.                                                *)
LEMMA ChainIsASequence ==
  ASSUME StackTypeOK
  PROVE  /\ Len(chain) \in Nat
         /\ chain = <<>> <=> Len(chain) = 0
         /\ \A i \in 1 .. Len(chain) : chain[i] \in Nodes
BY LenProperties, EmptySeq, ElementOfSeq DEF StackTypeOK

(* A node put before the chain.                                            *)
LEMMA Grown ==
  ASSUME StackTypeOK, NEW n \in Nodes
  PROVE  /\ <<n>> \o chain \in Seq(Nodes)
         /\ Len(<<n>> \o chain) = Len(chain) + 1
         /\ (<<n>> \o chain)[1] = n
         /\ \A i \in 1 .. Len(chain) : (<<n>> \o chain)[i + 1] = chain[i]
         /\ \A i \in 1 .. Len(<<n>> \o chain) :
              \/ i = 1
              \/ i - 1 \in 1 .. Len(chain) /\ (<<n>> \o chain)[i] = chain[i - 1]
<1> DEFINE longer == <<n>> \o chain
<1>1. chain \in Seq(Nodes) /\ Len(chain) \in Nat
  BY LenProperties DEF StackTypeOK
<1>2. <<n>> \in Seq(Nodes) /\ Len(<<n>>) = 1 /\ <<n>>[1] = n
  OBVIOUS
<1>3. /\ longer \in Seq(Nodes)
      /\ Len(longer) = Len(chain) + 1
      /\ \A i \in 1 .. Len(chain) + 1 :
           longer[i] = IF i <= 1 THEN <<n>>[i] ELSE chain[i - 1]
  BY <1>1, <1>2, ConcatProperties
<1> HIDE DEF longer
<1>4. longer[1] = n
  BY <1>1, <1>2, <1>3
<1>5. ASSUME NEW i \in 1 .. Len(chain)
      PROVE  longer[i + 1] = chain[i]
  <2>1. i + 1 \in 1 .. Len(chain) + 1 /\ ~(i + 1 <= 1) /\ (i + 1) - 1 = i
    BY <1>1
  <2> QED
    BY <1>3, <2>1
<1>6. \A i \in 1 .. Len(longer) :
        i = 1 \/ (i - 1 \in 1 .. Len(chain) /\ longer[i] = chain[i - 1])
  BY <1>1, <1>3
<1> QED
  BY <1>3, <1>4, <1>5, <1>6 DEF longer

(* The chain without its first node.                                       *)
LEMMA Shrunk ==
  ASSUME StackTypeOK, chain # <<>>
  PROVE  /\ Tail(chain) \in Seq(Nodes)
         /\ Len(chain) \in Nat \ {0}
         /\ Len(Tail(chain)) = Len(chain) - 1
         /\ \A i \in 1 .. Len(chain) - 1 : Tail(chain)[i] = chain[i + 1]
         /\ Head(chain) = chain[1]
<1>1. chain \in Seq(Nodes)
  BY DEF StackTypeOK
<1>2. /\ Tail(chain) \in Seq(Nodes)
      /\ Len(Tail(chain)) = Len(chain) - 1
      /\ \A i \in 1 .. Len(Tail(chain)) : Tail(chain)[i] = chain[i + 1]
  BY <1>1, HeadTailProperties, Zenon
<1>3. Len(chain) \in Nat \ {0}
  BY <1>1, EmptySeq, LenProperties
<1>4. Head(chain) = chain[1]
  BY <1>1
<1> QED
  BY <1>2, <1>3, <1>4

(* A step that leaves the chain and its nodes as they are.                 *)
LEMMA ChainKept ==
  ASSUME StackTypeOK, Linked, chain' = chain, head' = head,
         \A i \in 1 .. Len(chain) :
           chain[i] \in allocated' /\ next'[chain[i]] = next[chain[i]]
  PROVE  Linked'
BY DEF Linked, LinkOf

-----------------------------------------------------------------------------
(* One lemma per action                                                    *)

(* At first the stack is empty.                                            *)
LEMMA InitStackIInv ==
  ASSUME LockFreeStackAssumption, StackInit
  PROVE  StackIInv
<1>1. Len(chain) = 0 /\ chain \in Seq(Nodes)
  BY EmptySeq DEF StackInit
<1>2. (CHOOSE v \in Values : TRUE) \in Values
  BY DEF LockFreeStackAssumption
<1>3. StackTypeOK
  BY <1>1, <1>2 DEF StackInit, StackTypeOK
<1>4. Whole
  BY <1>1 DEF StackInit, Whole, Linked, Private, OnePopper, ReadIsTrue, Pops
<1> QED
  BY <1>3, <1>4 DEF StackIInv

(* A new node is in nobody's chain or hands.                               *)
LEMMA NewNodeKeepsStackIInv ==
  ASSUME LockFreeStackAssumption, StackIInv, NEW t \in Threads, NEW n \in Nodes,
         NEW v \in Values, NewNode(t, n, v)
  PROVE  StackIInv'
<1>1. /\ stackPc[t] = "idle"
      /\ stackPc' = [stackPc EXCEPT ![t] = "pushCas"]
      /\ n \notin allocated
      /\ allocated' = allocated \cup {n}
      /\ data' = [data EXCEPT ![n] = v]
      /\ next' = [next EXCEPT ![n] = head]
      /\ mine' = [mine EXCEPT ![t] = n]
      /\ UNCHANGED <<head, oldNext, chain, overlapped, stackCrash>>
  BY DEF NewNode, At
<1>2. StackTypeOK'
  BY <1>1 DEF StackIInv, StackTypeOK
<1>3. ASSUME overlapped = "no"
      PROVE  Whole'
  <2>1. Linked /\ Private /\ OnePopper /\ ReadIsTrue /\ stackCrash = "no"
    BY <1>3 DEF StackIInv, Whole
  <2>2. \A i \in 1 .. Len(chain) : chain[i] \in Nodes /\ chain[i] \in allocated
    BY <2>1, ChainIsASequence DEF StackIInv, Linked
  <2>3. /\ \A m \in Nodes : m # n => next'[m] = next[m]
        /\ mine'[t] = n /\ stackPc'[t] = "pushCas"
        /\ \A u \in Threads : u # t => mine'[u] = mine[u] /\ stackPc'[u] = stackPc[u]
    BY <1>1 DEF StackIInv, StackTypeOK
  <2>4. \A i \in 1 .. Len(chain) : chain[i] # n
    BY <1>1, <2>2
  <2>5. Linked'
    BY <1>1, <2>1, <2>2, <2>3, <2>4, ChainKept DEF StackIInv
  <2>6. Private'
    <3>1. ~ IsOn(n, chain)
      BY <2>4 DEF IsOn
    <3>2. \A m : IsOn(m, chain') <=> IsOn(m, chain)
      BY <1>1 DEF IsOn
    <3> QED
      BY <1>1, <2>1, <2>3, <3>1, <3>2 DEF Private
  <2>7. OnePopper'
    BY <2>1, <2>3 DEF OnePopper, Pops
  <2>8. ReadIsTrue'
    <3> SUFFICES ASSUME NEW u \in Threads, stackPc'[u] \in {"readNext", "popCas"}
                 PROVE  /\ IsOn(mine'[u], chain')
                        /\ stackPc'[u] = "popCas" => oldNext'[u] = next'[mine'[u]]
      BY DEF ReadIsTrue
    <3>1. u # t /\ IsOn(mine[u], chain)
      BY <2>1, <2>3 DEF ReadIsTrue
    <3>2. mine[u] \in Nodes /\ mine[u] # n
      BY <2>2, <2>4, <3>1 DEF IsOn
    <3> QED
      BY <1>1, <2>1, <2>3, <3>1, <3>2 DEF ReadIsTrue, IsOn
  <2> QED
    BY <1>1, <2>1, <2>5, <2>6, <2>7, <2>8 DEF Whole
<1> QED
  BY <1>1, <1>2, <1>3 DEF StackIInv

(* The CAS of Push puts the node on top of what its next leads to.         *)
LEMMA PushCasKeepsStackIInv ==
  ASSUME LockFreeStackAssumption, StackIInv, NEW t \in Threads, PushCas(t)
  PROVE  StackIInv'
<1>1. /\ stackPc[t] = "pushCas"
      /\ stackPc' = [stackPc EXCEPT ![t] = "idle"]
      /\ head = next[mine[t]]
      /\ head' = mine[t]
      /\ mine' = [mine EXCEPT ![t] = Null]
      /\ UNCHANGED <<next, data, allocated, oldNext, overlapped, stackCrash>>
      /\ chain' = IF overlapped = "yes" THEN <<>> ELSE <<mine[t]>> \o chain
  BY DEF PushCas, At, Record
<1>2. overlapped \in {"no", "yes"}
  BY DEF StackIInv, StackTypeOK
<1>3. ASSUME chain' \in Seq(Nodes)
      PROVE  StackTypeOK'
  BY <1>1, <1>3 DEF StackIInv, StackTypeOK
<1>4. CASE overlapped = "yes"
  <2>1. chain' \in Seq(Nodes)
    BY <1>1, <1>4, EmptySeq
  <2> QED
    BY <1>1, <1>3, <1>4, <2>1 DEF StackIInv
<1>5. CASE overlapped = "no"
  <2>1. Linked /\ Private /\ OnePopper /\ ReadIsTrue /\ stackCrash = "no"
    BY <1>5 DEF StackIInv, Whole
  <2>2. /\ mine[t] \in allocated /\ mine[t] \in Nodes
        /\ ~ IsOn(mine[t], chain)
    BY <1>1, <2>1 DEF Private, StackIInv, StackTypeOK
  <2>3. chain' = <<mine[t]>> \o chain
    BY <1>1, <1>5
  <2>4. /\ chain' \in Seq(Nodes)
        /\ Len(chain') = Len(chain) + 1
        /\ chain'[1] = mine[t]
        /\ \A i \in 1 .. Len(chain) : chain'[i + 1] = chain[i]
        /\ \A i \in 1 .. Len(chain') :
             i = 1 \/ (i - 1 \in 1 .. Len(chain) /\ chain'[i] = chain[i - 1])
    <3> DEFINE longer == <<mine[t]>> \o chain
    <3>1. StackTypeOK
      BY DEF StackIInv
    <3>2. /\ longer \in Seq(Nodes)
          /\ Len(longer) = Len(chain) + 1
          /\ longer[1] = mine[t]
          /\ \A i \in 1 .. Len(chain) : longer[i + 1] = chain[i]
          /\ \A i \in 1 .. Len(longer) :
               i = 1 \/ (i - 1 \in 1 .. Len(chain) /\ longer[i] = chain[i - 1])
      BY <2>2, <3>1, Grown, Zenon
    <3> HIDE DEF longer
    <3>3. chain' = longer
      BY <2>3 DEF longer
    <3> QED
      BY <3>2, <3>3
  <2>5. Len(chain) \in Nat /\ (chain = <<>> <=> Len(chain) = 0)
    BY ChainIsASequence DEF StackIInv
  <2>6. /\ mine'[t] = Null /\ stackPc'[t] = "idle"
        /\ \A u \in Threads : u # t => mine'[u] = mine[u] /\ stackPc'[u] = stackPc[u]
    BY <1>1 DEF StackIInv, StackTypeOK
  <2>7. \A m : IsOn(m, chain') <=> IsOn(m, chain) \/ m = mine[t]
    <3>1. ASSUME NEW m, IsOn(m, chain)
          PROVE  IsOn(m, chain')
      <4>1. PICK i \in 1 .. Len(chain) : chain[i] = m
        BY <3>1 DEF IsOn
      <4>2. i + 1 \in 1 .. Len(chain') /\ chain'[i + 1] = m
        BY <2>4, <2>5, <4>1
      <4> QED
        BY <4>2 DEF IsOn
    <3>2. IsOn(mine[t], chain')
      <4>1. 1 \in 1 .. Len(chain')
        BY <2>4, <2>5
      <4> QED
        BY <2>4, <4>1 DEF IsOn
    <3>3. ASSUME NEW m, IsOn(m, chain'), m # mine[t]
          PROVE  IsOn(m, chain)
      BY <2>4, <3>3 DEF IsOn
    <3> QED
      BY <3>1, <3>2, <3>3
  <2>8. Linked'
    <3>1. head' = IF chain' = <<>> THEN Null ELSE chain'[1]
      BY <1>1, <2>4, <2>5, EmptySeq
    <3>2. ASSUME NEW i \in 1 .. Len(chain')
          PROVE  chain'[i] \in allocated' /\ next'[chain'[i]] = LinkOf(i)'
      <4>1. CASE i = 1 /\ Len(chain) = 0
        <5>1. head = Null
          BY <2>1, <2>5, <4>1 DEF Linked
        <5>2. chain'[i] \in allocated' /\ next'[chain'[i]] = Null
          BY <1>1, <2>2, <2>4, <4>1, <5>1
        <5>3. i = Len(chain')
          BY <2>4, <4>1
        <5> QED
          BY <5>2, <5>3 DEF LinkOf
      <4>2. CASE i = 1 /\ Len(chain) # 0
        <5>1. head = chain[1] /\ 1 \in 1 .. Len(chain)
          BY <2>1, <2>5, <4>2 DEF Linked
        <5>2. chain'[1 + 1] = chain[1]
          BY <2>4, <5>1
        <5>3. chain'[i] \in allocated' /\ next'[chain'[i]] = chain[1]
          BY <1>1, <2>2, <2>4, <4>2, <5>1
        <5>4. i # Len(chain') /\ chain'[i + 1] = chain[1]
          BY <2>4, <2>5, <4>2, <5>2
        <5> QED
          BY <5>3, <5>4 DEF LinkOf
      <4>3. CASE i # 1
        <5>1. i - 1 \in 1 .. Len(chain) /\ chain'[i] = chain[i - 1]
          BY <2>4, <4>3
        <5>2. chain[i - 1] \in allocated /\ next[chain[i - 1]] = LinkOf(i - 1)
          BY <2>1, <5>1 DEF Linked
        <5>3. CASE i - 1 = Len(chain)
          BY <1>1, <2>4, <2>5, <5>1, <5>2, <5>3 DEF LinkOf
        <5>4. CASE i - 1 # Len(chain)
          <6>1. i \in 1 .. Len(chain) /\ (i - 1) + 1 = i
            BY <2>5, <5>1, <5>4
          <6>2. chain'[i + 1] = chain[i]
            BY <2>4, <6>1
          <6> QED
            BY <1>1, <2>4, <2>5, <5>1, <5>2, <5>4, <6>1, <6>2 DEF LinkOf
        <5> QED
          BY <5>3, <5>4
      <4> QED
        BY <4>1, <4>2, <4>3
    <3>3. ASSUME NEW i \in 1 .. Len(chain'), NEW j \in 1 .. Len(chain'),
                 chain'[i] = chain'[j]
          PROVE  i = j
      <4>1. \A k \in 1 .. Len(chain) : chain[k] # mine[t]
        BY <2>2 DEF IsOn
      <4>2. CASE i = 1 \/ j = 1
        BY <2>4, <3>3, <4>1, <4>2
      <4>3. CASE i # 1 /\ j # 1
        <5>1. /\ i - 1 \in 1 .. Len(chain) /\ j - 1 \in 1 .. Len(chain)
              /\ chain[i - 1] = chain[j - 1]
          BY <2>4, <3>3, <4>3
        <5>2. i - 1 = j - 1
          BY <2>1, <5>1 DEF Linked
        <5> QED
          BY <5>2
      <4> QED
        BY <4>2, <4>3
    <3> QED
      BY <3>1, <3>2, <3>3 DEF Linked
  <2>9. Private'
    BY <1>1, <2>1, <2>6, <2>7 DEF Private
  <2>10. OnePopper'
    BY <2>1, <2>6 DEF OnePopper, Pops
  <2>11. ReadIsTrue'
    BY <1>1, <2>1, <2>6, <2>7 DEF ReadIsTrue
  <2>12. StackTypeOK'
    BY <1>3, <2>4
  <2> QED
    BY <1>1, <2>1, <2>8, <2>9, <2>10, <2>11, <2>12 DEF StackIInv, Whole
<1> QED
  BY <1>2, <1>4, <1>5

(* The failed CAS writes to a node nobody else has.                        *)
LEMMA PushCasFailedKeepsStackIInv ==
  ASSUME StackIInv, NEW t \in Threads, PushCasFailed(t)
  PROVE  StackIInv'
<1>1. /\ stackPc[t] = "pushCas"
      /\ next' = [next EXCEPT ![mine[t]] = head]
      /\ UNCHANGED <<head, data, allocated, stackPc, mine, oldNext, chain,
                     overlapped, stackCrash>>
  BY DEF PushCasFailed
<1>2. StackTypeOK'
  BY <1>1 DEF StackIInv, StackTypeOK
<1>3. ASSUME overlapped = "no"
      PROVE  Whole'
  <2>1. Linked /\ Private /\ OnePopper /\ ReadIsTrue /\ stackCrash = "no"
    BY <1>3 DEF StackIInv, Whole
  <2>2. ~ IsOn(mine[t], chain)
    BY <1>1, <2>1 DEF Private
  <2>3. \A m \in Nodes : m # mine[t] => next'[m] = next[m]
    BY <1>1 DEF StackIInv, StackTypeOK
  <2>4. \A i \in 1 .. Len(chain) :
          chain[i] \in Nodes /\ chain[i] \in allocated /\ chain[i] # mine[t]
    BY <2>1, <2>2, ChainIsASequence DEF StackIInv, Linked, IsOn
  <2>5. Linked'
    BY <1>1, <2>1, <2>3, <2>4, ChainKept DEF StackIInv
  <2>6. Private' /\ OnePopper'
    BY <1>1, <2>1 DEF Private, OnePopper, Pops, IsOn
  <2>7. ReadIsTrue'
    <3> SUFFICES ASSUME NEW u \in Threads, stackPc[u] \in {"readNext", "popCas"}
                 PROVE  /\ IsOn(mine[u], chain)
                        /\ stackPc[u] = "popCas" => oldNext[u] = next'[mine[u]]
      BY <1>1 DEF ReadIsTrue, IsOn
    <3>1. IsOn(mine[u], chain)
      BY <2>1 DEF ReadIsTrue
    <3>2. next'[mine[u]] = next[mine[u]]
      BY <2>3, <2>4, <3>1 DEF IsOn
    <3> QED
      BY <2>1, <3>1, <3>2 DEF ReadIsTrue
  <2> QED
    BY <1>1, <2>1, <2>5, <2>6, <2>7 DEF Whole
<1> QED
  BY <1>1, <1>2, <1>3 DEF StackIInv

(* What a load of _head that is not null gives is in the chain.            *)
LEMMA LoadedIsChained ==
  ASSUME StackIInv, overlapped = "no", AfterLoad = "readNext"
  PROVE  IsOn(head, chain)
<1>1. Linked /\ head # Null
  BY DEF StackIInv, Whole, AfterLoad
<1>2. chain # <<>> /\ head = chain[1]
  BY <1>1 DEF Linked
<1>3. 1 \in 1 .. Len(chain)
  BY <1>2, ChainIsASequence DEF StackIInv
<1> QED
  BY <1>2, <1>3 DEF IsOn

(* A pop begins.                                                           *)
LEMMA TryPopKeepsStackIInv ==
  ASSUME StackIInv, NEW t \in Threads, TryPop(t)
  PROVE  StackIInv'
<1>1. /\ stackPc[t] = "idle"
      /\ stackPc' = [stackPc EXCEPT ![t] = AfterLoad]
      /\ mine' = [mine EXCEPT ![t] = head]
      /\ overlapped' = IF \E u \in Threads : Pops(u) THEN "yes" ELSE overlapped
      /\ chain' = IF overlapped' = "yes" THEN <<>> ELSE chain
      /\ UNCHANGED <<head, next, data, allocated, oldNext, stackCrash>>
  BY DEF TryPop, At, Record
<1>2. AfterLoad \in {"empty", "readNext"}
  BY DEF AfterLoad
<1>3. chain' \in Seq(Nodes)
  BY <1>1, EmptySeq DEF StackIInv, StackTypeOK
<1>4. overlapped' \in {"no", "yes"}
  BY <1>1 DEF StackIInv, StackTypeOK
<1>5. StackTypeOK'
  BY <1>1, <1>2, <1>3, <1>4 DEF StackIInv, StackTypeOK
<1>6. ASSUME overlapped' = "no"
      PROVE  Whole'
  <2>1. overlapped = "no" /\ chain' = chain /\ \A u \in Threads : ~ Pops(u)
    BY <1>1, <1>6
  <2>2. Linked /\ Private /\ OnePopper /\ ReadIsTrue /\ stackCrash = "no"
    BY <2>1 DEF StackIInv, Whole
  <2>3. /\ mine'[t] = head /\ stackPc'[t] = AfterLoad
        /\ \A u \in Threads : u # t => mine'[u] = mine[u] /\ stackPc'[u] = stackPc[u]
    BY <1>1 DEF StackIInv, StackTypeOK
  <2>4. Linked'
    BY <1>1, <2>1, <2>2 DEF Linked, LinkOf
  <2>5. \A m : IsOn(m, chain') <=> IsOn(m, chain)
    BY <2>1 DEF IsOn
  <2>6. Private'
    BY <1>1, <1>2, <2>2, <2>3, <2>5 DEF Private
  <2>7. OnePopper'
    BY <2>1, <2>3 DEF OnePopper, Pops
  <2>8. ReadIsTrue'
    BY <1>1, <1>2, <2>1, <2>2, <2>3, <2>5, LoadedIsChained DEF ReadIsTrue
  <2> QED
    BY <1>1, <2>2, <2>4, <2>6, <2>7, <2>8 DEF Whole
<1> QED
  BY <1>5, <1>6 DEF StackIInv

(* A CAS that fails begins again with the head it found.                   *)
LEMMA PopCasFailedKeepsStackIInv ==
  ASSUME StackIInv, NEW t \in Threads, PopCasFailed(t)
  PROVE  StackIInv'
<1>1. /\ stackPc[t] = "popCas"
      /\ stackPc' = [stackPc EXCEPT ![t] = AfterLoad]
      /\ mine' = [mine EXCEPT ![t] = head]
      /\ oldNext' = [oldNext EXCEPT ![t] = Null]
      /\ UNCHANGED <<head, next, data, allocated, chain, overlapped, stackCrash>>
  BY DEF PopCasFailed, At
<1>2. AfterLoad \in {"empty", "readNext"}
  BY DEF AfterLoad
<1>3. StackTypeOK'
  BY <1>1, <1>2 DEF StackIInv, StackTypeOK
<1>4. ASSUME overlapped = "no"
      PROVE  Whole'
  <2>1. Linked /\ Private /\ OnePopper /\ ReadIsTrue /\ stackCrash = "no"
    BY <1>4 DEF StackIInv, Whole
  <2>2. /\ mine'[t] = head /\ stackPc'[t] = AfterLoad
        /\ \A u \in Threads : u # t => /\ mine'[u] = mine[u]
                                       /\ stackPc'[u] = stackPc[u]
                                       /\ oldNext'[u] = oldNext[u]
    BY <1>1 DEF StackIInv, StackTypeOK
  <2>3. Linked'
    BY <1>1, <2>1 DEF Linked, LinkOf
  <2>4. \A m : IsOn(m, chain') <=> IsOn(m, chain)
    BY <1>1 DEF IsOn
  <2>5. Private'
    BY <1>1, <1>2, <2>1, <2>2, <2>4 DEF Private
  <2>6. OnePopper'
    BY <1>1, <2>1, <2>2 DEF OnePopper, Pops
  <2>7. ReadIsTrue'
    BY <1>1, <1>2, <1>4, <2>1, <2>2, <2>4, LoadedIsChained DEF ReadIsTrue
  <2> QED
    BY <1>1, <2>1, <2>3, <2>5, <2>6, <2>7 DEF Whole
<1> QED
  BY <1>1, <1>3, <1>4 DEF StackIInv

(* oldHead->next.                                                          *)
LEMMA ReadNextKeepsStackIInv ==
  ASSUME StackIInv, NEW t \in Threads, ReadNext(t)
  PROVE  StackIInv'
<1>1. /\ stackPc[t] = "readNext"
      /\ stackPc' = [stackPc EXCEPT ![t] = "popCas"]
      /\ mine[t] \in allocated
      /\ oldNext' = [oldNext EXCEPT ![t] = next[mine[t]]]
      /\ UNCHANGED <<head, next, data, allocated, mine, chain, overlapped,
                     stackCrash>>
  BY DEF ReadNext, At
<1>2. StackTypeOK'
  BY <1>1 DEF StackIInv, StackTypeOK
<1>3. ASSUME overlapped = "no"
      PROVE  Whole'
  <2>1. Linked /\ Private /\ OnePopper /\ ReadIsTrue /\ stackCrash = "no"
    BY <1>3 DEF StackIInv, Whole
  <2>2. /\ oldNext'[t] = next[mine[t]] /\ stackPc'[t] = "popCas"
        /\ \A u \in Threads : u # t => /\ stackPc'[u] = stackPc[u]
                                       /\ oldNext'[u] = oldNext[u]
    BY <1>1 DEF StackIInv, StackTypeOK
  <2>3. Linked'
    BY <1>1, <2>1 DEF Linked, LinkOf
  <2>4. \A m : IsOn(m, chain') <=> IsOn(m, chain)
    BY <1>1 DEF IsOn
  <2>5. Private'
    BY <1>1, <2>1, <2>2, <2>4 DEF Private
  <2>6. OnePopper'
    BY <1>1, <2>1, <2>2 DEF OnePopper, Pops
  <2>7. ReadIsTrue'
    BY <1>1, <2>1, <2>2, <2>4 DEF ReadIsTrue
  <2> QED
    BY <1>1, <2>1, <2>3, <2>5, <2>6, <2>7 DEF Whole
<1> QED
  BY <1>1, <1>2, <1>3 DEF StackIInv

(* When the CAS of TryPop succeeds, the next it was given is still the     *)
(* next of the first node, and the rest of the chain follows it.           *)
LEMMA PopCasTakesFirst ==
  ASSUME StackIInv, overlapped = "no", NEW t \in Threads, PopCas(t)
  PROVE  /\ chain # <<>>
         /\ mine[t] = chain[1]
         /\ oldNext[t] = LinkOf(1)
         /\ chain' = Tail(chain)
<1>1. /\ stackPc[t] = "popCas"
      /\ head = mine[t]
      /\ overlapped' = overlapped
      /\ chain' = IF overlapped' = "yes" THEN <<>>
                  ELSE IF chain = <<>> THEN <<>> ELSE Tail(chain)
  BY DEF PopCas, At, Record
<1>2. Linked /\ IsOn(mine[t], chain) /\ oldNext[t] = next[mine[t]]
  BY <1>1 DEF StackIInv, Whole, ReadIsTrue
<1>3. /\ Len(chain) \in Nat
      /\ chain = <<>> <=> Len(chain) = 0
  BY ChainIsASequence DEF StackIInv
<1>4. chain # <<>> /\ 1 \in 1 .. Len(chain)
  BY <1>2, <1>3 DEF IsOn
<1>5. mine[t] = chain[1] /\ next[chain[1]] = LinkOf(1)
  BY <1>1, <1>2, <1>4 DEF Linked
<1> QED
  BY <1>1, <1>2, <1>4, <1>5

(* The node that leaves the chain is in the hands of its popper.           *)
LEMMA PopCasKeepsStackIInv ==
  ASSUME StackIInv, NEW t \in Threads, PopCas(t)
  PROVE  StackIInv'
<1>1. /\ stackPc[t] = "popCas"
      /\ stackPc' = [stackPc EXCEPT ![t] = "take"]
      /\ head = mine[t]
      /\ head' = oldNext[t]
      /\ oldNext' = [oldNext EXCEPT ![t] = Null]
      /\ UNCHANGED <<next, data, allocated, mine, overlapped, stackCrash>>
      /\ chain' = IF overlapped = "yes" THEN <<>>
                  ELSE IF chain = <<>> THEN <<>> ELSE Tail(chain)
  BY DEF PopCas, At, Record
<1>2. chain' \in Seq(Nodes)
  BY <1>1, EmptySeq, Shrunk DEF StackIInv, StackTypeOK
<1>3. StackTypeOK'
  BY <1>1, <1>2 DEF StackIInv, StackTypeOK
<1>4. ASSUME overlapped = "no"
      PROVE  Whole'
  <2>1. Linked /\ Private /\ OnePopper /\ ReadIsTrue /\ stackCrash = "no"
    BY <1>4 DEF StackIInv, Whole
  <2>2. /\ chain # <<>> /\ mine[t] = chain[1] /\ oldNext[t] = LinkOf(1)
        /\ chain' = Tail(chain)
    BY <1>4, PopCasTakesFirst
  <2>3. /\ Len(chain) \in Nat \ {0}
        /\ Len(chain') = Len(chain) - 1
        /\ \A i \in 1 .. Len(chain) - 1 : chain'[i] = chain[i + 1]
    BY <2>2, Shrunk DEF StackIInv
  <2>4. /\ stackPc'[t] = "take"
        /\ \A u \in Threads : u # t => /\ stackPc'[u] = stackPc[u]
                                       /\ oldNext'[u] = oldNext[u]
    BY <1>1 DEF StackIInv, StackTypeOK
  <2>5. \A i \in 1 .. Len(chain') : i + 1 \in 1 .. Len(chain) /\ i + 1 # 1
    BY <2>3
  <2>6. Linked'
    <3>1. head' = IF chain' = <<>> THEN Null ELSE chain'[1]
      <4>1. CASE Len(chain) = 1
        <5>1. chain' = <<>>
          BY <1>2, <2>3, <4>1, EmptySeq
        <5> QED
          BY <1>1, <2>2, <4>1, <5>1 DEF LinkOf
      <4>2. CASE Len(chain) # 1
        <5>1. chain' # <<>> /\ chain'[1] = chain[1 + 1]
          BY <1>2, <2>3, <4>2, EmptySeq
        <5> QED
          BY <1>1, <2>2, <2>3, <4>2, <5>1 DEF LinkOf
      <4> QED
        BY <4>1, <4>2
    <3>2. ASSUME NEW i \in 1 .. Len(chain')
          PROVE  chain'[i] \in allocated' /\ next'[chain'[i]] = LinkOf(i)'
      <4>1. i + 1 \in 1 .. Len(chain) /\ chain'[i] = chain[i + 1]
        BY <2>3, <2>5
      <4>2. chain[i + 1] \in allocated /\ next[chain[i + 1]] = LinkOf(i + 1)
        BY <2>1, <4>1 DEF Linked
      <4>3. LinkOf(i)' = LinkOf(i + 1)
        <5>1. CASE i = Len(chain')
          BY <2>3, <5>1 DEF LinkOf
        <5>2. CASE i # Len(chain')
          <6>1. /\ i + 1 \in 1 .. Len(chain) - 1 /\ i + 1 # Len(chain)
            BY <2>3, <5>2
          <6>2. chain'[i + 1] = chain[(i + 1) + 1]
            BY <2>3, <6>1
          <6> QED
            BY <5>2, <6>1, <6>2 DEF LinkOf
        <5> QED
          BY <5>1, <5>2
      <4> QED
        BY <1>1, <4>1, <4>2, <4>3
    <3>3. ASSUME NEW i \in 1 .. Len(chain'), NEW j \in 1 .. Len(chain'),
                 chain'[i] = chain'[j]
          PROVE  i = j
      <4>1. /\ i + 1 \in 1 .. Len(chain) /\ j + 1 \in 1 .. Len(chain)
            /\ chain[i + 1] = chain[j + 1]
        BY <2>3, <2>5, <3>3
      <4>2. i + 1 = j + 1
        BY <2>1, <4>1 DEF Linked
      <4> QED
        BY <4>2
    <3> QED
      BY <3>1, <3>2, <3>3 DEF Linked
  <2>7. \A m : IsOn(m, chain') => IsOn(m, chain)
    BY <2>3, <2>5 DEF IsOn
  <2>8. mine[t] \in allocated /\ ~ IsOn(mine[t], chain')
    <3>1. 1 \in 1 .. Len(chain)
      BY <2>3
    <3>2. mine[t] \in allocated
      BY <2>1, <2>2, <3>1 DEF Linked
    <3>3. ASSUME NEW i \in 1 .. Len(chain')
          PROVE  chain'[i] # mine[t]
      <4>1. i + 1 \in 1 .. Len(chain) /\ i + 1 # 1 /\ chain'[i] = chain[i + 1]
        BY <2>3, <2>5
      <4> QED
        BY <2>1, <2>2, <3>1, <4>1 DEF Linked
    <3> QED
      BY <3>2, <3>3 DEF IsOn
  <2>9. Private'
    <3>1. \A u \in Threads :
            u # t /\ stackPc[u] \in {"pushCas", "take"} => mine[u] # mine[t]
      BY <1>1, <2>1 DEF Private, ReadIsTrue
    <3> QED
      BY <1>1, <2>1, <2>4, <2>7, <2>8, <3>1 DEF Private
  <2>10. OnePopper'
    BY <1>1, <2>1, <2>4 DEF OnePopper, Pops
  <2>11. ReadIsTrue'
    BY <1>1, <2>1, <2>4 DEF OnePopper, Pops, ReadIsTrue
  <2> QED
    BY <1>1, <2>1, <2>6, <2>9, <2>10, <2>11 DEF Whole
<1> QED
  BY <1>1, <1>3, <1>4 DEF StackIInv

(* The node deleted is nobody else's and in no chain.                      *)
LEMMA TakeKeepsStackIInv ==
  ASSUME StackIInv, NEW t \in Threads, Take(t)
  PROVE  StackIInv'
<1>1. /\ stackPc[t] = "take"
      /\ stackPc' = [stackPc EXCEPT ![t] = "idle"]
      /\ allocated' = allocated \ {mine[t]}
      /\ mine' = [mine EXCEPT ![t] = Null]
      /\ UNCHANGED <<head, next, data, oldNext, chain, overlapped, stackCrash>>
  BY DEF Take, At
<1>2. StackTypeOK'
  BY <1>1 DEF StackIInv, StackTypeOK
<1>3. ASSUME overlapped = "no"
      PROVE  Whole'
  <2>1. Linked /\ Private /\ OnePopper /\ ReadIsTrue /\ stackCrash = "no"
    BY <1>3 DEF StackIInv, Whole
  <2>2. ~ IsOn(mine[t], chain)
    BY <1>1, <2>1 DEF Private
  <2>3. /\ stackPc'[t] = "idle"
        /\ \A u \in Threads : u # t => mine'[u] = mine[u] /\ stackPc'[u] = stackPc[u]
    BY <1>1 DEF StackIInv, StackTypeOK
  <2>4. Linked'
    BY <1>1, <2>1, <2>2, ChainKept DEF StackIInv, Linked, IsOn
  <2>5. \A m : IsOn(m, chain') <=> IsOn(m, chain)
    BY <1>1 DEF IsOn
  <2>6. Private'
    BY <1>1, <2>1, <2>3, <2>5 DEF Private
  <2>7. OnePopper'
    BY <2>1, <2>3 DEF OnePopper, Pops
  <2>8. ReadIsTrue'
    BY <1>1, <2>1, <2>3, <2>5 DEF ReadIsTrue
  <2> QED
    BY <1>1, <2>1, <2>4, <2>6, <2>7, <2>8 DEF Whole
<1> QED
  BY <1>1, <1>2, <1>3 DEF StackIInv

(* Nothing is left to return.                                              *)
LEMMA ReturnFalseKeepsStackIInv ==
  ASSUME StackIInv, NEW t \in Threads, ReturnFalse(t)
  PROVE  StackIInv'
<1>1. /\ stackPc[t] = "empty"
      /\ stackPc' = [stackPc EXCEPT ![t] = "idle"]
      /\ UNCHANGED <<head, next, data, allocated, mine, oldNext, chain,
                     overlapped, stackCrash>>
  BY DEF ReturnFalse, At
<1>2. StackTypeOK'
  BY <1>1 DEF StackIInv, StackTypeOK
<1>3. /\ stackPc'[t] = "idle"
      /\ \A u \in Threads : u # t => stackPc'[u] = stackPc[u]
  BY <1>1 DEF StackIInv, StackTypeOK
<1>4. ASSUME Whole PROVE Whole'
  BY <1>1, <1>3, <1>4 DEF Whole, Linked, LinkOf, Private, OnePopper, Pops,
                          ReadIsTrue, IsOn
<1> QED
  BY <1>1, <1>2, <1>4 DEF StackIInv

(* Without an overlap nobody meets a node that was deleted.                *)
LEMMA NeverDeleted ==
  ASSUME StackIInv, NEW t \in Threads, ReadDeleted(t) \/ DeleteTwice(t)
  PROVE  overlapped = "yes" /\ StackIInv'
<1>1. ASSUME overlapped = "no"
      PROVE  FALSE
  <2>1. Linked /\ Private /\ ReadIsTrue
    BY <1>1 DEF StackIInv, Whole
  <2>2. CASE ReadDeleted(t)
    BY <2>1, <2>2 DEF ReadDeleted, ReadIsTrue, IsOn, Linked
  <2>3. CASE DeleteTwice(t)
    BY <2>1, <2>3 DEF DeleteTwice, Private
  <2> QED
    BY <2>2, <2>3
<1>2. overlapped = "yes"
  BY <1>1 DEF StackIInv, StackTypeOK
<1>3. overlapped' = "yes" /\ StackTypeOK'
  BY <1>2 DEF StackIInv, StackTypeOK, ReadDeleted, DeleteTwice
<1> QED
  BY <1>2, <1>3 DEF StackIInv

(* No step leaves the invariant.                                           *)
LEMMA NextKeepsStackIInv ==
  ASSUME LockFreeStackAssumption, StackIInv, [StackNext]_stackVars
  PROVE  StackIInv'
<1>1. ASSUME NEW t \in Threads, StackStep(t)
      PROVE  StackIInv'
  <2>1. ASSUME NEW n \in Nodes, NEW v \in Values, NewNode(t, n, v)
        PROVE  StackIInv'
    BY <2>1, NewNodeKeepsStackIInv
  <2> QED
    BY <1>1, <2>1, PushCasKeepsStackIInv, PushCasFailedKeepsStackIInv, TryPopKeepsStackIInv,
       ReadNextKeepsStackIInv, PopCasKeepsStackIInv, PopCasFailedKeepsStackIInv, TakeKeepsStackIInv,
       ReturnFalseKeepsStackIInv, NeverDeleted
       DEF StackStep
<1>2. CASE UNCHANGED stackVars
  BY <1>2 DEF stackVars, StackIInv, StackTypeOK, Whole, Linked, LinkOf, Private,
              OnePopper, Pops, ReadIsTrue, IsOn
<1> QED
  BY <1>1, <1>2 DEF StackNext

-----------------------------------------------------------------------------
(* The steps as steps of StackPromise                                      *)

(* The values from _head on.                                               *)
LEMMA ItemsAreValues ==
  ASSUME StackIInv, overlapped = "no"
  PROVE  /\ StackItems = [i \in 1 .. Len(chain) |-> data[chain[i]]]
         /\ StackItems \in Seq(Values)
         /\ Len(StackItems) = Len(chain)
         /\ \A i \in 1 .. Len(chain) : StackItems[i] = data[chain[i]]
<1>1. /\ Len(chain) \in Nat
      /\ \A i \in 1 .. Len(chain) : data[chain[i]] \in Values
  BY ChainIsASequence DEF StackIInv, StackTypeOK
<1>2. StackItems = [i \in 1 .. Len(chain) |-> data[chain[i]]]
  BY DEF StackItems
<1>3. StackItems \in [1 .. Len(chain) -> Values]
  BY <1>1, <1>2
<1>4. StackItems \in Seq(Values) /\ Len(StackItems) = Len(chain)
  BY <1>1, <1>3, SeqDef, LenProperties
<1> QED
  BY <1>2, <1>4

(* The same after a step.                                                  *)
LEMMA ItemsAreValuesAfter ==
  ASSUME StackIInv', overlapped' = "no"
  PROVE  /\ StackItems' \in Seq(Values)
         /\ Len(StackItems') = Len(chain')
         /\ \A i \in 1 .. Len(chain') : StackItems'[i] = data'[chain'[i]]
<1>1. /\ Len(chain') \in Nat
      /\ \A i \in 1 .. Len(chain') : data'[chain'[i]] \in Values
  BY LenProperties, ElementOfSeq DEF StackIInv, StackTypeOK
<1>2. StackItems' = [i \in 1 .. Len(chain') |-> data'[chain'[i]]]
  BY DEF StackItems
<1>3. StackItems' \in [1 .. Len(chain') -> Values]
  BY <1>1, <1>2
<1>4. StackItems' \in Seq(Values) /\ Len(StackItems') = Len(chain')
  BY <1>1, <1>3, SeqDef, LenProperties
<1> QED
  BY <1>2, <1>4

(* What changes in the threads' hands when one of them makes a step.       *)
LEMMA HandsOfOne ==
  ASSUME NEW t \in Threads, overlapped' = overlapped,
         \A u \in Threads :
           u # t => /\ stackPc'[u] = stackPc[u]
                    /\ stackPc[u] = "take" => data'[mine'[u]] = data[mine[u]]
  PROVE  InHands' = [InHands EXCEPT ![t] = PoppedBy(t)']
<1>1. \A u \in Threads : u # t => PoppedBy(u)' = PoppedBy(u)
  BY DEF PoppedBy
<1> QED
  BY <1>1 DEF InHands

(* Nobody's value changes.                                                 *)
LEMMA HandsKept ==
  ASSUME \A u \in Threads : PoppedBy(u)' = PoppedBy(u)
  PROVE  InHands' = InHands
BY DEF InHands

(* Once the rule is broken nothing is promised any more.                   *)
LEMMA StaysVoid ==
  ASSUME overlapped = "yes", overlapped' = "yes"
  PROVE  UNCHANGED <<StackItems, InHands, StackRule>>
<1>1. StackItems' = StackItems /\ StackRule' = StackRule
  BY DEF StackItems, StackRule
<1>2. InHands' = InHands
  BY HandsKept DEF PoppedBy
<1> QED
  BY <1>1, <1>2

(* A step inside Push or TryPop that the promise does not see.             *)
LEMMA HandsUnseen ==
  ASSUME overlapped = "no", overlapped' = "no", chain' = chain,
         \A i \in 1 .. Len(chain) : data'[chain[i]] = data[chain[i]],
         \A u \in Threads :
           /\ stackPc'[u] = "take" <=> stackPc[u] = "take"
           /\ stackPc'[u] = "empty" <=> stackPc[u] = "empty"
           /\ stackPc[u] = "take" => data'[mine'[u]] = data[mine[u]]
  PROVE  UNCHANGED <<StackItems, InHands, StackRule>>
<1>1. StackItems' = StackItems
  BY DEF StackItems
<1>2. InHands' = InHands
  <2>1. \A u \in Threads : PoppedBy(u)' = PoppedBy(u)
    BY DEF PoppedBy
  <2> QED
    BY <2>1, HandsKept
<1>3. StackRule' = StackRule
  BY DEF StackRule
<1> QED
  BY <1>1, <1>2, <1>3

(* The CAS of Push.                                                        *)
LEMMA PushIsPromised ==
  ASSUME LockFreeStackAssumption, StackIInv, overlapped = "no", NEW t \in Threads,
         PushCas(t)
  PROVE  Promise!Next
<1>1. /\ stackPc[t] = "pushCas"
      /\ stackPc' = [stackPc EXCEPT ![t] = "idle"]
      /\ mine' = [mine EXCEPT ![t] = Null]
      /\ data' = data /\ overlapped' = overlapped
      /\ chain' = <<mine[t]>> \o chain
  BY DEF PushCas, At, Record
<1>2. mine[t] \in Nodes
  BY <1>1 DEF StackIInv, Whole, Private, StackTypeOK
<1> DEFINE v == data[mine[t]]
<1>3. v \in Values
  BY <1>2 DEF StackIInv, StackTypeOK
<1>4. /\ StackItems \in Seq(Values)
      /\ Len(StackItems) = Len(chain)
      /\ \A i \in 1 .. Len(chain) : StackItems[i] = data[chain[i]]
  BY ItemsAreValues
<1>5. /\ StackItems' \in Seq(Values)
      /\ Len(StackItems') = Len(chain')
      /\ \A i \in 1 .. Len(chain') : StackItems'[i] = data'[chain'[i]]
  BY <1>1, PushCasKeepsStackIInv, ItemsAreValuesAfter
<1>6. /\ Len(<<mine[t]>> \o chain) = Len(chain) + 1
      /\ (<<mine[t]>> \o chain)[1] = mine[t]
      /\ \A i \in 1 .. Len(<<mine[t]>> \o chain) :
           \/ i = 1
           \/ i - 1 \in 1 .. Len(chain) /\ (<<mine[t]>> \o chain)[i] = chain[i - 1]
  BY <1>2, Grown, Zenon DEF StackIInv
<1>7. /\ Len(chain') = Len(chain) + 1
      /\ chain'[1] = mine[t]
      /\ \A i \in 1 .. Len(chain') :
           i = 1 \/ (i - 1 \in 1 .. Len(chain) /\ chain'[i] = chain[i - 1])
  BY <1>1, <1>6
<1>8. Len(chain) \in Nat
  BY ChainIsASequence DEF StackIInv
<1> HIDE DEF v
<1>9. /\ <<v>> \o StackItems \in Seq(Values)
      /\ Len(<<v>> \o StackItems) = Len(chain) + 1
      /\ \A i \in 1 .. Len(chain) + 1 :
           (<<v>> \o StackItems)[i] = IF i <= 1 THEN <<v>>[i] ELSE StackItems[i - 1]
  <2>1. <<v>> \in Seq(Values) /\ Len(<<v>>) = 1
    BY <1>3
  <2> QED
    BY <1>4, <2>1, ConcatProperties
<1>10. StackItems' = <<v>> \o StackItems
  <2>1. ASSUME NEW i \in 1 .. Len(chain) + 1
        PROVE  StackItems'[i] = (<<v>> \o StackItems)[i]
    <3>1. CASE i = 1
      BY <1>1, <1>5, <1>7, <1>8, <1>9, <3>1 DEF v
    <3>2. CASE i # 1
      <4>1. i - 1 \in 1 .. Len(chain) /\ chain'[i] = chain[i - 1]
        BY <1>7, <3>2
      <4>2. StackItems'[i] = data[chain[i - 1]]
        BY <1>1, <1>5, <1>7, <4>1
      <4>3. (<<v>> \o StackItems)[i] = StackItems[i - 1]
        BY <1>8, <1>9, <3>2
      <4> QED
        BY <1>4, <4>1, <4>2, <4>3
    <3> QED
      BY <3>1, <3>2
  <2> QED
    BY <1>5, <1>7, <1>9, <2>1, SeqEqual
<1>11. InHands' = InHands
  <2>1. \A u \in Threads : PoppedBy(u)' = PoppedBy(u)
    <3>1. /\ stackPc'[t] = "idle"
          /\ \A u \in Threads : u # t => /\ mine'[u] = mine[u]
                                         /\ stackPc'[u] = stackPc[u]
      BY <1>1 DEF StackIInv, StackTypeOK
    <3> QED
      BY <1>1, <3>1 DEF PoppedBy
  <2> QED
    BY <2>1, HandsKept
<1>12. StackRule = "kept" /\ StackRule' = "kept"
  BY <1>1 DEF StackRule
<1> QED
  BY <1>3, <1>10, <1>11, <1>12 DEF Promise!Next, Promise!Push

(* The CAS of TryPop.                                                      *)
LEMMA PopIsPromised ==
  ASSUME LockFreeStackAssumption, StackIInv, overlapped = "no", NEW t \in Threads,
         PopCas(t)
  PROVE  Promise!Next
<1>1. /\ stackPc[t] = "popCas"
      /\ stackPc' = [stackPc EXCEPT ![t] = "take"]
      /\ UNCHANGED <<data, mine, overlapped>>
  BY DEF PopCas, At
<1>2. /\ chain # <<>>
      /\ mine[t] = chain[1]
      /\ chain' = Tail(chain)
  BY PopCasTakesFirst
<1>3. /\ Len(chain) \in Nat \ {0}
      /\ Len(chain') = Len(chain) - 1
      /\ \A i \in 1 .. Len(chain) - 1 : chain'[i] = chain[i + 1]
  BY <1>2, Shrunk DEF StackIInv
<1>4. /\ StackItems \in Seq(Values)
      /\ Len(StackItems) = Len(chain)
      /\ \A i \in 1 .. Len(chain) : StackItems[i] = data[chain[i]]
  BY ItemsAreValues
<1>5. /\ StackItems' \in Seq(Values)
      /\ Len(StackItems') = Len(chain')
      /\ \A i \in 1 .. Len(chain') : StackItems'[i] = data'[chain'[i]]
  BY <1>1, PopCasKeepsStackIInv, ItemsAreValuesAfter
<1>6. StackItems # <<>>
  BY <1>3, <1>4, EmptySeq
<1>7. /\ Tail(StackItems) \in Seq(Values)
      /\ Len(Tail(StackItems)) = Len(StackItems) - 1
      /\ \A i \in 1 .. Len(Tail(StackItems)) : Tail(StackItems)[i] = StackItems[i + 1]
  BY <1>4, <1>6, HeadTailProperties, Zenon
<1>8. Head(StackItems) = data[mine[t]]
  <2>1. Head(StackItems) = StackItems[1]
    BY <1>4, <1>6
  <2> QED
    BY <1>2, <1>3, <1>4, <2>1
<1>9. StackItems' = Tail(StackItems)
  <2>1. ASSUME NEW i \in 1 .. Len(chain) - 1
        PROVE  StackItems'[i] = Tail(StackItems)[i]
    <3>1. i + 1 \in 1 .. Len(chain)
      BY <1>3
    <3>2. StackItems'[i] = data[chain[i + 1]]
      BY <1>1, <1>3, <1>5
    <3>3. Tail(StackItems)[i] = StackItems[i + 1]
      BY <1>3, <1>4, <1>7
    <3> QED
      BY <1>4, <3>1, <3>2, <3>3
  <2> QED
    BY <1>3, <1>4, <1>5, <1>7, <2>1, SeqEqual
<1>10. InHands' = [InHands EXCEPT ![t] = PoppedBy(t)']
  <2>1. \A u \in Threads : u # t => stackPc'[u] = stackPc[u]
    BY <1>1 DEF StackIInv, StackTypeOK
  <2> QED
    BY <1>1, <2>1, HandsOfOne
<1>11. InHands[t] = Null /\ PoppedBy(t)' = data[mine[t]]
  <2>1. stackPc'[t] = "take"
    BY <1>1 DEF StackIInv, StackTypeOK
  <2>2. PoppedBy(t) = Null
    BY <1>1 DEF PoppedBy
  <2>3. PoppedBy(t)' = data[mine[t]]
    BY <1>1, <2>1 DEF PoppedBy
  <2> QED
    BY <2>2, <2>3 DEF InHands
<1>12. StackRule = "kept" /\ StackRule' = "kept"
  BY <1>1 DEF StackRule
<1> QED
  BY <1>6, <1>8, <1>9, <1>10, <1>11, <1>12 DEF Promise!Next, Promise!Pop

(* A load of a null _head.                                                 *)
LEMMA EmptyIsPromised ==
  ASSUME StackIInv, overlapped = "no", overlapped' = "no", NEW t \in Threads,
         head = Null, LockFreeStackAssumption,
         stackPc[t] \in {"idle", "popCas"}, stackPc' = [stackPc EXCEPT ![t] = "empty"],
         mine' = [mine EXCEPT ![t] = head], data' = data, chain' = chain
  PROVE  Promise!Next
<1>1. StackItems = <<>> /\ StackItems' = StackItems
  <2>1. chain = <<>>
    <3>1. Linked
      BY DEF StackIInv, Whole
    <3>2. CASE chain # <<>>
      <4>1. head = chain[1] /\ 1 \in 1 .. Len(chain)
        BY <3>1, <3>2, ChainIsASequence DEF Linked, StackIInv
      <4> QED
        BY <4>1, ChainIsASequence DEF StackIInv, LockFreeStackAssumption
    <3> QED
      BY <3>2
  <2>2. StackItems \in Seq(Values) /\ Len(StackItems) = 0
    BY <2>1, ItemsAreValues, EmptySeq
  <2>3. StackItems' = StackItems
    BY DEF StackItems
  <2> QED
    BY <2>2, <2>3, EmptySeq
<1>2. /\ stackPc'[t] = "empty"
      /\ \A u \in Threads : u # t => stackPc'[u] = stackPc[u] /\ mine'[u] = mine[u]
  BY DEF StackIInv, StackTypeOK
<1>3. InHands' = [InHands EXCEPT ![t] = PoppedBy(t)']
  BY <1>2, HandsOfOne
<1>4. InHands[t] = Null /\ PoppedBy(t)' = Empty
  <2>1. PoppedBy(t) = Null
    BY DEF PoppedBy
  <2>2. PoppedBy(t)' = Empty
    BY <1>2 DEF PoppedBy
  <2> QED
    BY <2>1, <2>2 DEF InHands
<1>5. StackRule = "kept" /\ StackRule' = "kept"
  BY DEF StackRule
<1> QED
  BY <1>1, <1>3, <1>4, <1>5 DEF Promise!Next, Promise!PopEmpty

(* TryPop returns, with a value or without.                                *)
LEMMA ReturnIsPromised ==
  ASSUME LockFreeStackAssumption, StackIInv, overlapped = "no", NEW t \in Threads,
         Take(t) \/ ReturnFalse(t)
  PROVE  Promise!Next
<1>1. /\ stackPc[t] \in {"take", "empty"}
      /\ stackPc' = [stackPc EXCEPT ![t] = "idle"]
      /\ \/ stackPc[t] = "take" /\ mine' = [mine EXCEPT ![t] = Null]
         \/ stackPc[t] = "empty" /\ mine' = mine
      /\ UNCHANGED <<data, chain, overlapped>>
  BY DEF Take, ReturnFalse, At
<1>2. StackItems' = StackItems
  BY <1>1 DEF StackItems
<1>3. /\ stackPc'[t] = "idle"
      /\ \A u \in Threads : u # t => stackPc'[u] = stackPc[u] /\ mine'[u] = mine[u]
  BY <1>1 DEF StackIInv, StackTypeOK
<1>4. InHands' = [InHands EXCEPT ![t] = PoppedBy(t)']
  BY <1>1, <1>3, HandsOfOne
<1>5. InHands[t] # Null /\ PoppedBy(t)' = Null
  <2>1. CASE stackPc[t] = "take"
    <3>1. mine[t] \in Nodes
      BY <2>1 DEF StackIInv, Whole, Private, StackTypeOK
    <3>2. data[mine[t]] \in Values
      BY <3>1 DEF StackIInv, StackTypeOK
    <3>3. PoppedBy(t) = data[mine[t]]
      BY <2>1 DEF PoppedBy
    <3> QED
      BY <1>3, <3>2, <3>3 DEF InHands, PoppedBy, LockFreeStackAssumption
  <2>2. CASE stackPc[t] = "empty"
    <3>1. PoppedBy(t) = Empty
      BY <2>2 DEF PoppedBy
    <3> QED
      BY <1>3, <3>1 DEF InHands, PoppedBy, LockFreeStackAssumption
  <2> QED
    BY <1>1, <2>1, <2>2
<1>6. StackRule = "kept" /\ StackRule' = "kept"
  BY <1>1 DEF StackRule
<1> QED
  BY <1>2, <1>4, <1>5, <1>6 DEF Promise!Next, Promise!Return

(* A second thread in TryPop breaks the rule.                              *)
LEMMA OverlapBreaksRule ==
  ASSUME overlapped = "no", overlapped' = "yes"
  PROVE  Promise!Next
<1>1. StackRule = "kept" /\ StackRule' = "void" /\ StackItems' = <<>>
  BY DEF StackRule, StackItems
<1>2. InHands' = [u \in Threads |-> Null]
  BY DEF InHands, PoppedBy
<1> QED
  BY <1>1, <1>2 DEF Promise!Next, Promise!BreakRule

(* Every step is a step of the promise or is not seen by it.               *)
LEMMA StepIsPromised ==
  ASSUME LockFreeStackAssumption, StackIInv, NEW t \in Threads, StackStep(t)
  PROVE  Promise!Next \/ UNCHANGED <<StackItems, InHands, StackRule>>
<1>1. overlapped \in {"no", "yes"} /\ overlapped' \in {"no", "yes"}
      /\ (overlapped = "yes" => overlapped' = "yes")
  BY DEF StackIInv, StackTypeOK, StackStep, NewNode, PushCas, PushCasFailed, TryPop,
         ReadNext, ReadDeleted, PopCas, PopCasFailed, Take, DeleteTwice, ReturnFalse
<1>2. CASE overlapped = "yes"
  BY <1>1, <1>2, StaysVoid
<1>3. CASE overlapped = "no" /\ overlapped' = "yes"
  BY <1>3, OverlapBreaksRule
<1>4. CASE overlapped = "no" /\ overlapped' = "no"
  <2>1. Linked /\ Private /\ ReadIsTrue
    BY <1>4 DEF StackIInv, Whole
  <2>2. ASSUME NEW n \in Nodes, NEW v \in Values, NewNode(t, n, v)
        PROVE  UNCHANGED <<StackItems, InHands, StackRule>>
    <3>1. /\ n \notin allocated
          /\ stackPc[t] = "idle"
          /\ stackPc' = [stackPc EXCEPT ![t] = "pushCas"]
          /\ data' = [data EXCEPT ![n] = v]
          /\ mine' = [mine EXCEPT ![t] = n]
          /\ chain' = chain
      BY <2>2 DEF NewNode, At
    <3>2. /\ \A m \in Nodes : m # n => data'[m] = data[m]
          /\ stackPc'[t] = "pushCas"
          /\ \A u \in Threads : u # t => /\ mine'[u] = mine[u]
                                         /\ stackPc'[u] = stackPc[u]
      BY <3>1 DEF StackIInv, StackTypeOK
    <3>3. \A i \in 1 .. Len(chain) : data'[chain[i]] = data[chain[i]]
      BY <2>1, <3>1, <3>2, ChainIsASequence DEF Linked, StackIInv
    <3>4. \A u \in Threads :
            stackPc[u] = "take" => u # t /\ data'[mine'[u]] = data[mine[u]]
      BY <2>1, <3>1, <3>2 DEF Private, StackIInv, StackTypeOK
    <3> QED
      BY <1>4, <3>1, <3>2, <3>3, <3>4, HandsUnseen
  <2>3. CASE PushCasFailed(t)
    <3>1. UNCHANGED <<data, chain, stackPc, mine>>
      BY <2>3 DEF PushCasFailed
    <3> QED
      BY <1>4, <3>1, HandsUnseen
  <2>4. CASE ReadNext(t)
    <3>1. /\ stackPc[t] = "readNext"
          /\ stackPc' = [stackPc EXCEPT ![t] = "popCas"]
          /\ UNCHANGED <<data, chain, mine>>
      BY <2>4 DEF ReadNext, At
    <3>2. /\ stackPc'[t] = "popCas"
          /\ \A u \in Threads : u # t => stackPc'[u] = stackPc[u]
      BY <3>1 DEF StackIInv, StackTypeOK
    <3> QED
      BY <1>4, <3>1, <3>2, HandsUnseen
  <2>5. CASE TryPop(t) \/ PopCasFailed(t)
    <3>1. /\ stackPc[t] \in {"idle", "popCas"}
          /\ stackPc' = [stackPc EXCEPT ![t] = AfterLoad]
          /\ mine' = [mine EXCEPT ![t] = head]
          /\ data' = data /\ chain' = chain
      BY <1>4, <2>5 DEF TryPop, PopCasFailed, At, Record
    <3>2. CASE head = Null
      BY <1>4, <3>1, <3>2, EmptyIsPromised DEF AfterLoad
    <3>3. CASE head # Null
      <4>1. /\ stackPc'[t] = "readNext"
            /\ \A u \in Threads : u # t => /\ mine'[u] = mine[u]
                                           /\ stackPc'[u] = stackPc[u]
        BY <3>1, <3>3 DEF AfterLoad, StackIInv, StackTypeOK
      <4> QED
        BY <1>4, <3>1, <4>1, HandsUnseen
    <3> QED
      BY <3>2, <3>3
  <2>6. CASE PushCas(t)
    BY <1>4, <2>6, PushIsPromised
  <2>7. CASE PopCas(t)
    BY <1>4, <2>7, PopIsPromised
  <2>8. CASE Take(t) \/ ReturnFalse(t)
    BY <1>4, <2>8, ReturnIsPromised
  <2>9. CASE ReadDeleted(t) \/ DeleteTwice(t)
    BY <1>4, <2>9, NeverDeleted
  <2> QED
    BY <2>2, <2>3, <2>4, <2>5, <2>6, <2>7, <2>8, <2>9 DEF StackStep
<1> QED
  BY <1>1, <1>2, <1>3, <1>4

-----------------------------------------------------------------------------
(* Theorems                                                                *)

(* The invariant that carries the rest: with one thread in TryPop at a     *)
(* time, what it has read of the first node stays true until its CAS.      *)
THEOREM StackInvariance == StackSpec => []StackIInv
<1>1. StackInit => StackIInv
  BY InitStackIInv, LockFreeStackAssumption
<1>2. StackIInv /\ [StackNext]_stackVars => StackIInv'
  BY NextKeepsStackIInv, LockFreeStackAssumption
<1> QED
  BY <1>1, <1>2, PTL DEF StackSpec

(* While no two threads are inside TryPop, the stack is whole and no node  *)
(* is read or deleted after its delete, however many threads push.         *)
THEOREM WholeUntilOverlapHolds == StackSpec => []WholeUntilOverlap
<1>1. StackIInv => WholeUntilOverlap
  BY DEF StackIInv, Whole, WholeUntilOverlap
<1> QED
  BY <1>1, StackInvariance, PTL

(* LockFreeStack implements StackPromise: with one popping thread at a     *)
(* time, Push and TryPop happen at once at their successful CAS, and the   *)
(* value TryPop returns was on top then.                                   *)
THEOREM ImplementsStackHolds == StackSpec => ImplementsStack
<1>1. StackInit => Promise!Init
  <2> SUFFICES ASSUME StackInit PROVE Promise!Init
    OBVIOUS
  <2>1. StackIInv /\ overlapped = "no" /\ chain = <<>>
    BY InitStackIInv, LockFreeStackAssumption DEF StackInit
  <2>2. StackItems = <<>>
    <3>1. StackItems \in Seq(Values) /\ Len(StackItems) = 0
      BY <2>1, ItemsAreValues, EmptySeq
    <3> QED
      BY <3>1, EmptySeq
  <2>3. InHands = [t \in Threads |-> Null]
    BY DEF StackInit, InHands, PoppedBy
  <2> QED
    BY <2>1, <2>2, <2>3 DEF Promise!Init, StackRule
<1>2. StackIInv /\ [StackNext]_stackVars =>
        [Promise!Next]_<<StackItems, InHands, StackRule>>
  <2> SUFFICES ASSUME StackIInv, [StackNext]_stackVars
               PROVE  Promise!Next \/ UNCHANGED <<StackItems, InHands, StackRule>>
    OBVIOUS
  <2>1. CASE StackNext
    BY <2>1, StepIsPromised, LockFreeStackAssumption DEF StackNext
  <2>2. CASE UNCHANGED stackVars
    <3>1. UNCHANGED <<data, chain, stackPc, mine, overlapped>>
      BY <2>2 DEF stackVars
    <3>2. StackItems' = StackItems /\ StackRule' = StackRule
      BY <3>1 DEF StackItems, StackRule
    <3>3. InHands' = InHands
      BY <3>1, HandsKept DEF PoppedBy
    <3> QED
      BY <3>2, <3>3
  <2> QED
    BY <2>1, <2>2
<1> QED
  BY <1>1, <1>2, StackInvariance, PTL DEF StackSpec, ImplementsStack, Promise!Spec

(* Every variable keeps its type, overlap or not.                          *)
THEOREM StackTypeCorrect == StackSpec => []StackTypeOK
<1>1. StackIInv => StackTypeOK
  BY DEF StackIInv
<1> QED
  BY <1>1, StackInvariance, PTL

-----------------------------------------------------------------------------
(* Proofs about the third list of TestLockFree.cpp, for any number of      *)
(* threads and entries and any width of its two counts.                    *)

Pushing(t) == listPc[t] \in {"read", "readLow", "readHigh", "link", "cas"}

(* A thread's entry is in its hands alone, until the exchange lists it.    *)
Owned ==
  \A t \in Threads :
    /\ entry[t] = Null <=> ~Pushing(t)
    /\ \A i \in 1 .. Len(listed) : listed[i] # entry[t]
    /\ \A u \in Threads : entry[t] = entry[u] => t = u \/ entry[t] = Null

(* Before the exchange the entry leads to what high is expected to be.     *)
LinkedToExpected ==
  \A t \in Threads :
    listPc[t] = "cas" => entryNext[entry[t]] = expectedHigh[t]

ListIInv == SListTypeOK /\ Owned /\ LinkedToExpected /\ EveryEntryListed

-----------------------------------------------------------------------------
(* A count that wraps around counts modulo its width.                      *)
LEMMA CountWraps ==
  ASSUME NEW n \in Nat, NEW d \in Nat \ {0}
  PROVE  /\ n % d \in 0 .. d - 1
         /\ ((n % d) + 1) % d = (n + 1) % d
<1> DEFINE q == n \div d
           r == n % d
<1>1. r \in 0 .. d - 1 /\ q \in Nat /\ n = d * q + r
  BY SMT
<1>2. ASSUME NEW k \in Nat, NEW s \in 0 .. d - 1
      PROVE  (d * k + s) % d = s
  BY SMT
<1> HIDE DEF q, r
<1>3. CASE r + 1 < d
  <2>1. n + 1 = d * q + (r + 1) /\ r + 1 \in 0 .. d - 1 /\ d * 0 + (r + 1) = r + 1
    BY <1>1, <1>3
  <2>2. (d * q + (r + 1)) % d = r + 1 /\ (d * 0 + (r + 1)) % d = r + 1
    BY <1>1, <1>2, <2>1
  <2> QED
    BY <1>1, <2>1, <2>2 DEF r
<1>4. CASE r + 1 = d
  <2>1. /\ n + 1 = d * (q + 1) + 0 /\ d * 1 + 0 = r + 1
        /\ 0 \in 0 .. d - 1 /\ q + 1 \in Nat
    BY <1>1, <1>4
  <2>2. (d * (q + 1) + 0) % d = 0 /\ (d * 1 + 0) % d = 0
    BY <1>2, <2>1
  <2> QED
    BY <1>1, <2>1, <2>2 DEF r
<1> QED
  BY <1>1, <1>3, <1>4

(* An empty header, and nobody at it.                                      *)
LEMMA InitListIInv ==
  ASSUME SListAssumption, SListInit
  PROVE  ListIInv
<1>1. Len(listed) = 0 /\ listed \in Seq(Entries)
  BY EmptySeq DEF SListInit
<1>2. 0 % DepthLimit = 0 /\ 0 % SequenceLimit = 0
  BY SMT DEF SListAssumption
<1>3. low \in Counts
  BY DEF SListInit, Counts, SListAssumption
<1>4. SListTypeOK
  BY <1>1, <1>3 DEF SListInit, SListTypeOK
<1>5. Owned /\ LinkedToExpected
  BY <1>1 DEF SListInit, Owned, LinkedToExpected, Pushing
<1>6. EveryEntryListed
  BY <1>1, <1>2 DEF SListInit, EveryEntryListed
<1> QED
  BY <1>4, <1>5, <1>6 DEF ListIInv

-----------------------------------------------------------------------------
(* One lemma per action                                                    *)

(* The entry a caller brings is nobody else's.                             *)
LEMMA PushKeepsListIInv ==
  ASSUME SListAssumption, ListIInv, NEW t \in Threads, NEW e \in Entries,
         PushEntrySList(t, e)
  PROVE  ListIInv'
<1>1. /\ listPc[t] = "idle"
      /\ \A u \in Threads : entry[u] # e
      /\ \A i \in DOMAIN listed : listed[i] # e
      /\ entry' = [entry EXCEPT ![t] = e]
      /\ listPc' = [listPc EXCEPT ![t] = "read"]
      /\ UNCHANGED <<low, high, entryNext, expectedLow, expectedHigh, listed>>
  BY DEF PushEntrySList, IsUsed, expected
<1>2. DOMAIN listed = 1 .. Len(listed) /\ e # Null
  BY LenProperties DEF ListIInv, SListTypeOK, SListAssumption
<1>3. SListTypeOK'
  BY <1>1 DEF ListIInv, SListTypeOK
<1>4. Owned'
  <2>1. /\ entry'[t] = e /\ listPc'[t] = "read"
        /\ \A u \in Threads : u # t => entry'[u] = entry[u] /\ listPc'[u] = listPc[u]
    BY <1>1 DEF ListIInv, SListTypeOK
  <2> QED
    BY <1>1, <1>2, <2>1 DEF ListIInv, Owned, Pushing
<1>5. LinkedToExpected'
  BY <1>1 DEF ListIInv, SListTypeOK, LinkedToExpected
<1>6. EveryEntryListed'
  BY <1>1 DEF ListIInv, EveryEntryListed, EntryAfter
<1> QED
  BY <1>3, <1>4, <1>5, <1>6 DEF ListIInv

(* A step that only moves t and renews what it expects, not to the         *)
(* exchange.                                                               *)
LEMMA ReadingKeepsListIInv ==
  ASSUME ListIInv, NEW t \in Threads, SListTypeOK', listPc'[t] # "cas",
         \A u \in Threads : u # t => listPc'[u] = listPc[u]
                                     /\ expectedHigh'[u] = expectedHigh[u],
         Pushing(t)' <=> Pushing(t),
         UNCHANGED <<low, high, entryNext, entry, listed>>
  PROVE  ListIInv'
<1>1. Owned'
  BY DEF ListIInv, Owned, Pushing
<1>2. LinkedToExpected'
  BY DEF ListIInv, LinkedToExpected
<1>3. EveryEntryListed'
  BY DEF ListIInv, EveryEntryListed, EntryAfter
<1> QED
  BY <1>1, <1>2, <1>3 DEF ListIInv

(* Either half of the header.                                              *)
LEMMA ReadKeepsListIInv ==
  ASSUME ListIInv, NEW t \in Threads, ReadLow(t) \/ ReadHigh(t)
  PROVE  ListIInv'
<1>1. SListTypeOK'
  BY DEF ListIInv, SListTypeOK, ReadLow, ReadHigh
<1>2. /\ listPc'[t] # "cas"
      /\ Pushing(t)' <=> Pushing(t)
      /\ \A u \in Threads : u # t => /\ listPc'[u] = listPc[u]
                                     /\ expectedHigh'[u] = expectedHigh[u]
  BY DEF ListIInv, SListTypeOK, ReadLow, ReadHigh, Pushing
<1>3. UNCHANGED <<low, high, entryNext, entry, listed>>
  BY DEF ReadLow, ReadHigh
<1> QED
  BY <1>1, <1>2, <1>3, ReadingKeepsListIInv

(* The next of t's entry is nobody else's to read.                         *)
LEMMA LinkKeepsListIInv ==
  ASSUME ListIInv, NEW t \in Threads, Link(t)
  PROVE  ListIInv'
<1>1. /\ listPc[t] = "link"
      /\ entryNext' = [entryNext EXCEPT ![entry[t]] = expectedHigh[t]]
      /\ listPc' = [listPc EXCEPT ![t] = "cas"]
      /\ UNCHANGED <<low, high, entry, expectedLow, expectedHigh, listed>>
  BY DEF Link, expected
<1>2. entry[t] \in Entries
  BY <1>1 DEF ListIInv, SListTypeOK, Owned, Pushing
<1>3. /\ entryNext'[entry[t]] = expectedHigh[t]
      /\ \A f \in Entries : f # entry[t] => entryNext'[f] = entryNext[f]
      /\ listPc'[t] = "cas"
      /\ \A u \in Threads : u # t => listPc'[u] = listPc[u]
  BY <1>1, <1>2 DEF ListIInv, SListTypeOK
<1>4. SListTypeOK'
  BY <1>1, <1>2 DEF ListIInv, SListTypeOK
<1>5. Owned'
  BY <1>1, <1>3 DEF ListIInv, Owned, Pushing
<1>6. LinkedToExpected'
  <2> SUFFICES ASSUME NEW u \in Threads, listPc'[u] = "cas", u # t
               PROVE  entryNext'[entry[u]] = expectedHigh[u]
    BY <1>1, <1>3 DEF LinkedToExpected
  <2>1. listPc[u] = "cas"
    BY <1>3
  <2>2. entry[u] \in Entries /\ entry[u] # entry[t]
    BY <1>1, <2>1 DEF ListIInv, SListTypeOK, Owned, Pushing
  <2> QED
    BY <1>3, <2>1, <2>2 DEF ListIInv, LinkedToExpected
<1>7. EveryEntryListed'
  <2>1. \A i \in 1 .. Len(listed) : listed[i] \in Entries /\ listed[i] # entry[t]
    BY ElementOfSeq DEF ListIInv, SListTypeOK, Owned
  <2> QED
    BY <1>1, <1>3, <2>1 DEF ListIInv, EveryEntryListed, EntryAfter
<1> QED
  BY <1>4, <1>5, <1>6, <1>7 DEF ListIInv

(* What the exchange finds is the header t read, though it read it in two  *)
(* halves: its entry leads to the first of the list and becomes the first. *)
LEMMA ExchangeKeepsListIInv ==
  ASSUME SListAssumption, ListIInv, NEW t \in Threads, Exchange(t)
  PROVE  ListIInv'
<1> DEFINE e == entry[t]
<1>1. /\ listPc[t] = "cas"
      /\ low = expectedLow[t] /\ high = expectedHigh[t]
      /\ low' = Counted(low)
      /\ high' = e
      /\ listed' = <<e>> \o listed
      /\ entry' = [entry EXCEPT ![t] = Null]
      /\ listPc' = [listPc EXCEPT ![t] = "idle"]
      /\ UNCHANGED <<entryNext, expectedLow, expectedHigh>>
  BY DEF Exchange, Matches, expected
<1>2. e \in Entries /\ entryNext[e] = high
  BY <1>1 DEF ListIInv, SListTypeOK, Owned, Pushing, LinkedToExpected
<1>3. listed \in Seq(Entries) /\ Len(listed) \in Nat
  BY LenProperties DEF ListIInv, SListTypeOK
<1>4. /\ <<e>> \in Seq(Entries)
      /\ Len(<<e>>) = 1
      /\ <<e>>[1] = e
  BY <1>2
<1>5. /\ listed' \in Seq(Entries)
      /\ Len(listed') = Len(listed) + 1
      /\ \A i \in 1 .. Len(listed) + 1 :
           listed'[i] = IF i <= 1 THEN <<e>>[i] ELSE listed[i - 1]
  BY <1>1, <1>3, <1>4, ConcatProperties
<1>6. /\ listed'[1] = e
      /\ \A i \in 1 .. Len(listed) : listed'[i + 1] = listed[i]
  <2>1. listed'[1] = e
    BY <1>3, <1>4, <1>5
  <2>2. ASSUME NEW i \in 1 .. Len(listed)
        PROVE  listed'[i + 1] = listed[i]
    <3>1. i + 1 \in 1 .. Len(listed) + 1 /\ ~(i + 1 <= 1) /\ (i + 1) - 1 = i
      BY <1>3
    <3> QED
      BY <1>5, <3>1
  <2> QED
    BY <2>1, <2>2
<1>7. \A i \in 1 .. Len(listed') :
        i = 1 \/ (i - 1 \in 1 .. Len(listed) /\ listed'[i] = listed[i - 1])
  BY <1>3, <1>5
<1>8. /\ entry'[t] = Null /\ listPc'[t] = "idle"
      /\ \A u \in Threads : u # t => entry'[u] = entry[u] /\ listPc'[u] = listPc[u]
  BY <1>1 DEF ListIInv, SListTypeOK
<1>9. /\ low'.depth = (low.depth + 1) % DepthLimit
      /\ low'.sequence = (low.sequence + 1) % SequenceLimit
      /\ low' \in Counts
  <2>1. low \in Counts
    BY DEF ListIInv, SListTypeOK
  <2>2. /\ low'.depth = (low.depth + 1) % DepthLimit
        /\ low'.sequence = (low.sequence + 1) % SequenceLimit
        /\ low' = [depth    |-> (low.depth + 1) % DepthLimit,
                   sequence |-> (low.sequence + 1) % SequenceLimit]
    BY <1>1 DEF Counted
  <2>3. /\ (low.depth + 1) % DepthLimit \in 0 .. DepthLimit - 1
        /\ (low.sequence + 1) % SequenceLimit \in 0 .. SequenceLimit - 1
    <3>1. low.depth \in Nat /\ low.sequence \in Nat
      BY <2>1 DEF Counts
    <3>2. low.depth + 1 \in Nat /\ low.sequence + 1 \in Nat
      BY <3>1
    <3>3. DepthLimit \in Nat \ {0} /\ SequenceLimit \in Nat \ {0}
      BY DEF SListAssumption
    <3> QED
      BY <3>2, <3>3, CountWraps, Zenon
  <2> QED
    BY <2>2, <2>3 DEF Counts
<1>10. SListTypeOK'
  <2>1. high' \in Entries \cup {Null}
    BY <1>1, <1>2
  <2>2. /\ listPc' \in [Threads -> {"idle", "read", "readLow", "readHigh",
                                    "link", "cas", "pop"}]
        /\ entry' \in [Threads -> Entries \cup {Null}]
    BY <1>1 DEF ListIInv, SListTypeOK
  <2> QED
    BY <1>1, <1>5, <1>9, <2>1, <2>2 DEF ListIInv, SListTypeOK
<1>11. Owned'
  <2> SUFFICES ASSUME NEW u \in Threads
               PROVE  /\ entry'[u] = Null <=> ~Pushing(u)'
                      /\ \A i \in 1 .. Len(listed') : listed'[i] # entry'[u]
                      /\ \A v \in Threads :
                           entry'[u] = entry'[v] => u = v \/ entry'[u] = Null
    BY DEF Owned
  <2>1. entry'[u] = Null <=> ~Pushing(u)'
    BY <1>8 DEF ListIInv, Owned, Pushing
  <2>2. \A v \in Threads : entry'[u] = entry'[v] => u = v \/ entry'[u] = Null
    BY <1>8 DEF ListIInv, Owned
  <2>3. ASSUME NEW i \in 1 .. Len(listed')
        PROVE  listed'[i] # entry'[u]
    <3>1. listed'[i] \in Entries /\ Null \notin Entries
      BY <1>5, ElementOfSeq DEF SListAssumption
    <3>2. CASE u = t
      BY <1>8, <3>1, <3>2
    <3>3. CASE u # t
      <4>1. entry'[u] = entry[u] /\ e # entry[u]
        BY <1>2, <1>8, <3>1, <3>3 DEF ListIInv, Owned
      <4> QED
        BY <1>6, <1>7, <4>1 DEF ListIInv, Owned
    <3> QED
      BY <3>2, <3>3
  <2> QED
    BY <2>1, <2>2, <2>3
<1>12. LinkedToExpected'
  BY <1>1, <1>8 DEF ListIInv, LinkedToExpected
<1>13. EveryEntryListed'
  <2>1. high' = IF listed' = <<>> THEN Null ELSE listed'[1]
    BY <1>1, <1>3, <1>5, <1>6, EmptySeq
  <2>2. ASSUME NEW i \in 1 .. Len(listed')
        PROVE  entryNext'[listed'[i]] = EntryAfter(i)'
    <3>1. CASE i = 1 /\ Len(listed) = 0
      <4>1. high = Null
        BY <1>3, <3>1, EmptySeq DEF ListIInv, EveryEntryListed
      <4> QED
        BY <1>1, <1>2, <1>5, <1>6, <3>1, <4>1 DEF EntryAfter
    <3>2. CASE i = 1 /\ Len(listed) # 0
      <4>1. high = listed[1] /\ 1 \in 1 .. Len(listed)
        BY <1>3, <3>2, EmptySeq DEF ListIInv, EveryEntryListed
      <4>2. listed'[1 + 1] = listed[1]
        BY <1>6, <4>1
      <4> QED
        BY <1>1, <1>2, <1>3, <1>5, <1>6, <3>2, <4>1, <4>2 DEF EntryAfter
    <3>3. CASE i # 1
      <4>1. i - 1 \in 1 .. Len(listed) /\ listed'[i] = listed[i - 1]
        BY <1>7, <3>3
      <4>2. entryNext[listed[i - 1]] = EntryAfter(i - 1)
        BY <4>1 DEF ListIInv, EveryEntryListed
      <4>3. CASE i - 1 = Len(listed)
        BY <1>1, <1>3, <1>5, <4>1, <4>2, <4>3 DEF EntryAfter
      <4>4. CASE i - 1 # Len(listed)
        <5>1. i \in 1 .. Len(listed) /\ (i - 1) + 1 = i
          BY <1>3, <4>1, <4>4
        <5>2. listed'[i + 1] = listed[i]
          BY <1>6, <5>1
        <5> QED
          BY <1>1, <1>3, <1>5, <4>1, <4>2, <4>4, <5>1, <5>2 DEF EntryAfter
      <4> QED
        BY <4>3, <4>4
    <3> QED
      BY <3>1, <3>2, <3>3
  <2>3. ASSUME NEW i \in 1 .. Len(listed'), NEW j \in 1 .. Len(listed'),
               listed'[i] = listed'[j]
        PROVE  i = j
    <3>1. \A k \in 1 .. Len(listed) : listed[k] # e
      BY DEF ListIInv, Owned
    <3>2. CASE i = 1 \/ j = 1
      BY <1>6, <1>7, <2>3, <3>1, <3>2
    <3>3. CASE i # 1 /\ j # 1
      <4>1. /\ i - 1 \in 1 .. Len(listed) /\ j - 1 \in 1 .. Len(listed)
            /\ listed[i - 1] = listed[j - 1]
        BY <1>7, <2>3, <3>3
      <4>2. i - 1 = j - 1
        BY <4>1 DEF ListIInv, EveryEntryListed
      <4> QED
        BY <4>2
    <3> QED
      BY <3>2, <3>3
  <2>4. /\ low.depth = Len(listed) % DepthLimit
        /\ low.sequence = Len(listed) % SequenceLimit
    BY DEF ListIInv, EveryEntryListed
  <2>5. /\ low'.depth = Len(listed') % DepthLimit
        /\ low'.sequence = Len(listed') % SequenceLimit
    BY <1>3, <1>5, <1>9, <2>4, CountWraps DEF SListAssumption
  <2> QED
    BY <2>1, <2>2, <2>3, <2>5 DEF EveryEntryListed
<1> QED
  BY <1>10, <1>11, <1>12, <1>13 DEF ListIInv

(* The header is read again, or a pop begins or ends.                      *)
LEMMA OthersKeepListIInv ==
  ASSUME ListIInv, NEW t \in Threads,
         ExchangeFails(t) \/ PopEntrySList(t) \/ PopEmpty(t)
  PROVE  ListIInv'
<1>1. SListTypeOK'
  BY DEF ListIInv, SListTypeOK, ExchangeFails, PopEntrySList, PopEmpty, expected
<1>2. /\ listPc'[t] # "cas"
      /\ Pushing(t)' <=> Pushing(t)
      /\ \A u \in Threads : u # t => /\ listPc'[u] = listPc[u]
                                     /\ expectedHigh'[u] = expectedHigh[u]
  BY DEF ListIInv, SListTypeOK, ExchangeFails, PopEntrySList, PopEmpty, Pushing, expected
<1>3. UNCHANGED <<low, high, entryNext, entry, listed>>
  BY DEF ExchangeFails, PopEntrySList, PopEmpty
<1> QED
  BY <1>1, <1>2, <1>3, ReadingKeepsListIInv

(* No step leaves the invariant.                                           *)
LEMMA NextKeepsListIInv ==
  ASSUME SListAssumption, ListIInv, [SListNext]_listVars
  PROVE  ListIInv'
<1>1. ASSUME NEW t \in Threads, NEW e \in Entries, PushEntrySList(t, e)
      PROVE  ListIInv'
  BY <1>1, PushKeepsListIInv
<1>2. ASSUME NEW t \in Threads, ReadLow(t) \/ ReadHigh(t)
      PROVE  ListIInv'
  BY <1>2, ReadKeepsListIInv
<1>3. ASSUME NEW t \in Threads, Link(t)
      PROVE  ListIInv'
  BY <1>3, LinkKeepsListIInv
<1>4. ASSUME NEW t \in Threads, Exchange(t)
      PROVE  ListIInv'
  BY <1>4, ExchangeKeepsListIInv
<1>5. ASSUME NEW t \in Threads, ExchangeFails(t) \/ PopEntrySList(t) \/ PopEmpty(t)
      PROVE  ListIInv'
  BY <1>5, OthersKeepListIInv
<1>6. CASE UNCHANGED listVars
  BY <1>6 DEF listVars, expected, ListIInv, SListTypeOK, Owned, LinkedToExpected, Pushing,
              EveryEntryListed, EntryAfter
<1> QED
  BY <1>1, <1>2, <1>3, <1>4, <1>5, <1>6 DEF SListNext

-----------------------------------------------------------------------------
(* Theorems                                                                *)

(* The invariant: an entry in a thread's hands is in no list and no other  *)
(* thread's, and leads to what the exchange is to find.                    *)
THEOREM ListInvariance == SListSpec => []ListIInv
<1>1. SListInit => ListIInv
  BY InitListIInv, SListAssumption
<1>2. ListIInv /\ [SListNext]_listVars => ListIInv'
  BY NextKeepsListIInv, SListAssumption
<1> QED
  BY <1>1, <1>2, PTL DEF SListSpec

(* No push is lost and none links to a stale first entry, though the       *)
(* header is read in two halves: for every number of threads.              *)
THEOREM EveryEntryListedHolds == SListSpec => []EveryEntryListed
<1>1. ListIInv => EveryEntryListed
  BY DEF ListIInv
<1> QED
  BY <1>1, ListInvariance, PTL

(* Every variable keeps its type; the counts keep their width.             *)
THEOREM ListTypeCorrect == SListSpec => []SListTypeOK
<1>1. ListIInv => SListTypeOK
  BY DEF ListIInv
<1> QED
  BY <1>1, ListInvariance, PTL

-----------------------------------------------------------------------------
(* Proofs about RefCountable, for any number of threads and of references. *)

(* Either somebody has a reference, or one thread is about to delete the   *)
(* object, or it is deleted.                                               *)
Living   == released = {} /\ deletions = 0
Dying    == Held = {} /\ deletions = 0 /\ \E t \in Threads : released = {t}
Dead     == Held = {} /\ deletions = 1 /\ released = {}

RefIInv ==
  /\ holder \in [References -> Threads \cup {Null}]
  /\ refCount = Cardinality(Held)
  /\ (Living /\ Held # {}) \/ Dying \/ Dead

-----------------------------------------------------------------------------
(* The references held can be counted.                                     *)
LEMMA HeldIsFinite ==
  ASSUME RefCountingAssumption
  PROVE  IsFiniteSet(Held) /\ Held \subseteq References
BY FS_Subset DEF RefCountingAssumption, Held

(* The same after a step.                                                  *)
LEMMA HeldIsFiniteAfter ==
  ASSUME RefCountingAssumption
  PROVE  IsFiniteSet(Held') /\ Held' \subseteq References
BY FS_Subset DEF RefCountingAssumption, Held

(* The maker's reference is the only one at first.                         *)
LEMMA InitRefIInv ==
  ASSUME RefCountingAssumption, RefInit
  PROVE  RefIInv
<1>1. Held = {First}
  BY DEF RefInit, Held, RefCountingAssumption
<1>2. Cardinality(Held) = 1
  BY <1>1, FS_Singleton
<1>3. holder \in [References -> Threads \cup {Null}]
  BY DEF RefInit, RefCountingAssumption
<1> QED
  BY <1>1, <1>2, <1>3 DEF RefInit, RefIInv, Living

(* Who makes a reference has one, so that nobody deletes the object.       *)
LEMMA AddRefKeepsRefIInv ==
  ASSUME RefCountingAssumption, RefIInv, NEW t \in Threads, NEW u \in Threads,
         NEW r \in References, AddRef(t, r, u)
  PROVE  RefIInv'
<1>1. PICK own \in References : holder[own] = t
  BY DEF AddRef
<1>2. /\ holder[r] = Null
      /\ holder' = [holder EXCEPT ![r] = u]
      /\ refCount' = refCount + 1
      /\ UNCHANGED <<released, deletions>>
  BY DEF AddRef, CountUp
<1>3. u # Null /\ t # Null
  BY DEF RefCountingAssumption
<1>4. Held # {} /\ Living
  BY <1>1, <1>3 DEF Held, RefIInv, Dying, Dead
<1>5. holder' \in [References -> Threads \cup {Null}]
  BY <1>2 DEF RefIInv
<1>6. Held' = Held \cup {r} /\ r \notin Held
  BY <1>2, <1>3 DEF Held, RefIInv
<1>7. Cardinality(Held') = Cardinality(Held) + 1
  BY <1>6, HeldIsFinite, FS_AddElement
<1>8. Living'
  BY <1>2, <1>4 DEF Living
<1>9. refCount' = Cardinality(Held') /\ Held' # {}
  BY <1>2, <1>6, <1>7 DEF RefIInv
<1> QED
  BY <1>5, <1>8, <1>9 DEF RefIInv

(* The count that ReleaseRef brings to 0 is the last reference's.          *)
LEMMA ReleaseRefKeepsRefIInv ==
  ASSUME RefCountingAssumption, RefIInv, NEW t \in Threads, NEW r \in References,
         ReleaseRef(t, r)
  PROVE  RefIInv'
<1>1. /\ holder[r] = t
      /\ holder' = [holder EXCEPT ![r] = Null]
      /\ refCount' = refCount - 1
      /\ released' = IF IsLast(refCount) THEN released \cup {t} ELSE released
      /\ deletions' = deletions
  BY DEF ReleaseRef
<1>2. t # Null
  BY DEF RefCountingAssumption
<1>3. r \in Held /\ Living
  BY <1>1, <1>2 DEF Held, RefIInv, Dying, Dead
<1>4. holder' \in [References -> Threads \cup {Null}]
  BY <1>1 DEF RefIInv
<1>5. Held' = Held \ {r}
  BY <1>1, <1>2 DEF Held, RefIInv
<1>6. /\ Cardinality(Held') = Cardinality(Held) - 1
      /\ Cardinality(Held) \in Nat
  BY <1>3, <1>5, HeldIsFinite, FS_RemoveElement, FS_CardinalityType
<1>7. refCount' = Cardinality(Held')
  BY <1>1, <1>6 DEF RefIInv
<1>8. IsLast(refCount) <=> Held' = {}
  <2>1. IsLast(refCount) <=> Cardinality(Held') = 0
    BY <1>1, <1>7 DEF IsLast
  <2> QED
    BY <2>1, HeldIsFiniteAfter, FS_EmptySet
<1>9. CASE Held' = {}
  BY <1>1, <1>3, <1>4, <1>7, <1>8, <1>9 DEF RefIInv, Living, Dying
<1>10. CASE Held' # {}
  BY <1>1, <1>3, <1>4, <1>7, <1>8, <1>10 DEF RefIInv, Living
<1> QED
  BY <1>9, <1>10

(* delete this.                                                            *)
LEMMA DeleteKeepsRefIInv ==
  ASSUME RefIInv, NEW t \in Threads, Delete(t)
  PROVE  RefIInv'
<1>1. /\ t \in released
      /\ released' = released \ {t}
      /\ deletions' = deletions + 1
      /\ UNCHANGED <<refCount, holder>>
  BY DEF Delete
<1>2. Dying
  BY <1>1 DEF RefIInv, Living, Dead
<1>3. Held' = Held
  BY <1>1 DEF Held
<1>4. Dead'
  BY <1>1, <1>2, <1>3 DEF Dying, Dead
<1> QED
  BY <1>1, <1>3, <1>4 DEF RefIInv

(* No step leaves the invariant.                                           *)
LEMMA NextKeepsRefIInv ==
  ASSUME RefCountingAssumption, RefIInv, [RefNext]_refVars
  PROVE  RefIInv'
<1>1. ASSUME NEW t \in Threads, NEW r \in References, ReleaseRef(t, r)
      PROVE  RefIInv'
  BY <1>1, ReleaseRefKeepsRefIInv
<1>2. ASSUME NEW t \in Threads, NEW r \in References, NEW u \in Threads,
             AddRef(t, r, u)
      PROVE  RefIInv'
  BY <1>2, AddRefKeepsRefIInv
<1>3. ASSUME NEW t \in Threads, Delete(t)
      PROVE  RefIInv'
  BY <1>3, DeleteKeepsRefIInv
<1>4. CASE UNCHANGED refVars
  BY <1>4 DEF refVars, RefIInv, Held, Living, Dying, Dead
<1> QED
  BY <1>1, <1>2, <1>3, <1>4 DEF RefNext

-----------------------------------------------------------------------------
(* Theorems                                                                *)

(* The object is alive, about to be deleted by one thread, or dead.        *)
THEOREM RefInvariance == RefSpec => []RefIInv
<1>1. RefInit => RefIInv
  BY InitRefIInv, RefCountingAssumption
<1>2. RefIInv /\ [RefNext]_refVars => RefIInv'
  BY NextKeepsRefIInv, RefCountingAssumption
<1> QED
  BY <1>1, <1>2, PTL DEF RefSpec

(* The object is deleted once, and not before the last reference is gone,  *)
(* however AddRef and ReleaseRef of any number of threads interleave.      *)
THEOREM DeletedByTheLastHolds == RefSpec => []DeletedByTheLast
<1>1. ASSUME RefIInv PROVE DeletedByTheLast
  <2>1. Cardinality({}) = 0 /\ \A t \in Threads : Cardinality({t}) = 1
    BY FS_EmptySet, FS_Singleton
  <2>2. CASE Living /\ Held # {}
    BY <1>1, <2>1, <2>2 DEF DeletedByTheLast, RefIInv, Living
  <2>3. CASE Dying
    BY <1>1, <2>1, <2>3 DEF DeletedByTheLast, RefIInv, Dying
  <2>4. CASE Dead
    BY <1>1, <2>1, <2>4 DEF DeletedByTheLast, RefIInv, Dead
  <2> QED
    BY <1>1, <2>2, <2>3, <2>4 DEF RefIInv
<1> QED
  BY <1>1, RefInvariance, PTL

(* The count neither falls below 0 nor exceeds the references there are.   *)
THEOREM RefTypeCorrect == RefSpec => []RefTypeOK
<1>1. ASSUME RefIInv PROVE RefTypeOK
  <2>1. refCount \in 0 .. Cardinality(References)
    <3>1. /\ Cardinality(Held) \in Nat
          /\ Cardinality(References) \in Nat
          /\ Cardinality(Held) <= Cardinality(References)
      BY HeldIsFinite, FS_Subset, FS_CardinalityType, RefCountingAssumption
         DEF RefCountingAssumption
    <3> QED
      BY <1>1, <3>1 DEF RefIInv
  <2> QED
    BY <1>1, <2>1 DEF RefIInv, RefTypeOK, Living, Dying, Dead
<1> QED
  BY <1>1, RefInvariance, PTL

-----------------------------------------------------------------------------
(* The cursors of RecvBuffer, for every size of the buffer.                *)

(* There is room for a whole buffer, since BUFFER_COUNT is not 0.          *)
LEMMA CapacityIsEnough == Capacity \in Nat /\ Capacity >= BufferSize
<1> DEFINE extra == BufferSize * (BufferCount - 1)
<1>1. BufferSize \in Nat /\ BufferCount - 1 \in Nat
  BY RecvBufferAssumption
<1>2. extra \in Nat
  BY <1>1
<1>3. Capacity = extra + BufferSize
  BY <1>1, RecvBufferAssumption DEF Capacity
<1> HIDE DEF extra
<1> QED
  BY <1>1, <1>2, <1>3

(* The number of a byte of the stream is one of Bytes.                     *)
LEMMA NumbersAreBytes == \A n \in Nat : n % (Capacity + 1) \in Bytes
<1> DEFINE k == Capacity + 1
<1>1. Capacity \in Nat /\ k \in Nat \ {0} /\ Capacity = k - 1
  BY CapacityIsEnough
<1> HIDE DEF k
<1>2. \A n \in Nat : n % k \in 0 .. k - 1
  BY <1>1
<1> QED
  BY <1>1, <1>2 DEF Bytes, k

-----------------------------------------------------------------------------
(* What the three properties need of each other: the number of bytes that  *)
(* is pending bounds what OnRead takes, and the cursors are in order.      *)
RInv == BufferTypeOK /\ NoByteCountLost /\ CleanMakesRoom

LEMMA InitRInv == BufferInit => RInv
<1> SUFFICES ASSUME BufferInit PROVE RInv
  OBVIOUS
<1>1. Capacity \in Nat
  BY CapacityIsEnough
<1>2. pending \in Seq(Bytes) /\ Len(pending) = 0
  BY DEF BufferInit
<1>3. buffer \in [0 .. Capacity - 1 -> Bytes \cup {Junk}]
  BY DEF BufferInit
<1>4. BufferTypeOK
  <2>1. readPos \in 0 .. writePos /\ writePos \in 0 .. Capacity /\ nextByte \in Bytes
    BY <1>1 DEF BufferInit, Bytes
  <2>2. cleaned \in BOOLEAN
    BY DEF BufferInit
  <2> QED
    BY <1>2, <1>3, <2>1, <2>2 DEF BufferTypeOK
<1>5. NoByteCountLost
  BY <1>2 DEF NoByteCountLost, DataSize, BufferInit
<1> QED
  BY <1>4, <1>5 DEF RInv, CleanMakesRoom, BufferInit

LEMMA OnWriteRInv ==
  ASSUME RInv, NEW n \in 1 .. Capacity, OnWrite(n)
  PROVE  RInv'
<1> DEFINE came == [i \in 1 .. n |-> (nextByte + i - 1) % (Capacity + 1)]
<1>1. Capacity \in Nat /\ n \in Nat
  BY CapacityIsEnough
<1>2. /\ readPos \in 0 .. writePos /\ writePos \in 0 .. Capacity
      /\ buffer \in [0 .. Capacity - 1 -> Bytes \cup {Junk}]
      /\ pending \in Seq(Bytes)
      /\ nextByte \in Nat
  BY <1>1 DEF RInv, BufferTypeOK, Bytes
<1>3. came \in Seq(Bytes) /\ Len(came) = n
  <2>1. \A i \in 1 .. n : nextByte + i - 1 \in Nat
    BY <1>1, <1>2
  <2>2. \A i \in 1 .. n : (nextByte + i - 1) % (Capacity + 1) \in Bytes
    BY <2>1, NumbersAreBytes, Zenon
  <2>3. came \in [1 .. n -> Bytes]
    BY <2>2
  <2> QED
    BY <1>1, <2>3
<1>4. /\ buffer' = [i \in DOMAIN buffer |->
                      IF i \in writePos .. writePos + n - 1
                      THEN came[i - writePos + 1] ELSE buffer[i]]
      /\ pending' = pending \o came
      /\ nextByte' = (nextByte + n) % (Capacity + 1)
      /\ writePos' = writePos + n
      /\ n <= Capacity - writePos
      /\ cleaned' = FALSE
      /\ readPos' = readPos
  BY DEF OnWrite, Fits, FreeSize
<1> HIDE DEF came
<1>5. buffer' \in [0 .. Capacity - 1 -> Bytes \cup {Junk}]
  <2>1. \A i \in 1 .. n : came[i] \in Bytes
    BY <1>3, ElementOfSeq
  <2>2. ASSUME NEW i \in 0 .. Capacity - 1, i \in writePos .. writePos + n - 1
        PROVE  came[i - writePos + 1] \in Bytes
    BY <1>1, <1>2, <2>1, <2>2
  <2> QED
    BY <1>2, <1>4, <2>2
<1>6. pending' \in Seq(Bytes) /\ Len(pending') = Len(pending) + n
  <2>1. pending \in Seq(Bytes) /\ pending' = pending \o came
    BY <1>2, <1>4
  <2> QED
    BY <1>3, <2>1, ConcatProperties
<1>7. nextByte' \in Bytes
  <2>1. nextByte + n \in Nat
    BY <1>1, <1>2
  <2> QED
    BY <2>1, <1>4, NumbersAreBytes, Zenon
<1>8. writePos - readPos = Len(pending)
  BY DEF RInv, NoByteCountLost, DataSize
<1>9. BufferTypeOK'
  <2>1. readPos' \in 0 .. writePos' /\ writePos' \in 0 .. Capacity
    BY <1>1, <1>2, <1>4
  <2>2. cleaned' \in BOOLEAN
    BY <1>4
  <2> QED
    BY <1>5, <1>6, <1>7, <2>1, <2>2 DEF BufferTypeOK
<1>10. NoByteCountLost'
  BY <1>1, <1>2, <1>4, <1>6, <1>8 DEF NoByteCountLost, DataSize
<1> QED
  BY <1>4, <1>9, <1>10 DEF RInv, CleanMakesRoom

LEMMA OnReadRInv ==
  ASSUME RInv, NEW n \in 1 .. Capacity, OnRead(n)
  PROVE  RInv'
<1>1. Capacity \in Nat /\ n \in Nat
  BY CapacityIsEnough
<1>2. /\ readPos \in 0 .. writePos /\ writePos \in 0 .. Capacity
      /\ pending \in Seq(Bytes)
      /\ writePos - readPos = Len(pending)
  BY DEF RInv, BufferTypeOK, NoByteCountLost, DataSize
<1>3. /\ n <= Len(pending)
      /\ readPos' = readPos + n
      /\ pending' = SubSeq(pending, n + 1, Len(pending))
      /\ cleaned' = FALSE
      /\ writePos' = writePos /\ buffer' = buffer /\ nextByte' = nextByte
  BY <1>2 DEF OnRead, DataSize
<1>4. pending' \in Seq(Bytes) /\ Len(pending') = Len(pending) - n
  BY <1>1, <1>2, <1>3
<1>5. BufferTypeOK'
  <2>1. readPos' \in 0 .. writePos' /\ writePos' \in 0 .. Capacity
    BY <1>1, <1>2, <1>3
  <2>2. cleaned' \in BOOLEAN
    BY <1>3
  <2> QED
    BY <1>3, <1>4, <2>1, <2>2 DEF RInv, BufferTypeOK
<1>6. NoByteCountLost'
  BY <1>1, <1>2, <1>3, <1>4 DEF NoByteCountLost, DataSize
<1> QED
  BY <1>3, <1>5, <1>6 DEF RInv, CleanMakesRoom

(* The data keeps its size wherever it is moved, and what is moved down to *)
(* the start leaves all the rest of the buffer free.                       *)
LEMMA CleanRInv ==
  ASSUME RInv, Clean
  PROVE  RInv'
<1>1. Capacity \in Nat /\ BufferSize \in Nat /\ Capacity >= BufferSize
  BY CapacityIsEnough, RecvBufferAssumption
<1>2. /\ readPos \in 0 .. writePos /\ writePos \in 0 .. Capacity
      /\ buffer \in [0 .. Capacity - 1 -> Bytes \cup {Junk}]
      /\ writePos - readPos = Len(pending)
  BY DEF RInv, BufferTypeOK, NoByteCountLost, DataSize
<1>3. cleaned' = TRUE /\ pending' = pending /\ nextByte' = nextByte
  BY DEF Clean
<1>4. CASE DataSize = 0
  <2>1. readPos' = 0 /\ writePos' = 0 /\ buffer' = buffer
    BY <1>4 DEF Clean
  <2> QED
    BY <1>1, <1>2, <1>3, <1>4, <2>1
    DEF RInv, BufferTypeOK, NoByteCountLost, CleanMakesRoom, DataSize, FreeSize
<1>5. CASE DataSize # 0 /\ IsShort
  <2>1. /\ writePos' = writePos - readPos /\ readPos' = 0
        /\ buffer' = Moved(writePos, DataSize)
    BY <1>5 DEF Clean, MovedCursors
  <2>2. buffer' \in [0 .. Capacity - 1 -> Bytes \cup {Junk}]
    BY <1>2, <2>1 DEF Moved
  <2>3. BufferTypeOK'
    BY <1>1, <1>2, <1>3, <2>1, <2>2 DEF RInv, BufferTypeOK
  <2>4. NoByteCountLost' /\ CleanMakesRoom'
    BY <1>1, <1>2, <1>3, <2>1
    DEF NoByteCountLost, CleanMakesRoom, DataSize, FreeSize
  <2> QED
    BY <2>3, <2>4 DEF RInv
<1>6. CASE DataSize # 0 /\ ~IsShort
  <2>1. readPos' = readPos /\ writePos' = writePos /\ buffer' = buffer
    BY <1>6 DEF Clean
  <2> QED
    BY <1>1, <1>2, <1>3, <1>6, <2>1
    DEF RInv, BufferTypeOK, NoByteCountLost, CleanMakesRoom, DataSize, FreeSize, IsShort
<1> QED
  BY <1>4, <1>5, <1>6

LEMMA NextRInv == RInv /\ [BufferNext]_bufferVars => RInv'
<1> SUFFICES ASSUME RInv, [BufferNext]_bufferVars PROVE RInv'
  OBVIOUS
<1>1. ASSUME NEW n \in 1 .. Capacity, OnWrite(n) PROVE RInv'
  BY <1>1, OnWriteRInv
<1>2. ASSUME NEW n \in 1 .. Capacity, OnRead(n) PROVE RInv'
  BY <1>2, OnReadRInv
<1>3. CASE Clean
  BY <1>3, CleanRInv
<1>4. CASE UNCHANGED bufferVars
  BY <1>4 DEF bufferVars, RInv, BufferTypeOK, NoByteCountLost, CleanMakesRoom, DataSize, FreeSize
<1> QED
  BY <1>1, <1>2, <1>3, <1>4 DEF BufferNext

-----------------------------------------------------------------------------
(* The inductive invariant of RecvBuffer.cpp's three functions.            *)
THEOREM BufferInvariance == BufferSpec => []RInv
<1> QED
  BY InitRInv, NextRInv, PTL DEF BufferSpec

(* _readPos and _writePos stay in order and inside the buffer.             *)
THEOREM BufferTypeCorrect == BufferSpec => []BufferTypeOK
<1>1. RInv => BufferTypeOK
  BY DEF RInv
<1> QED
  BY <1>1, BufferInvariance, PTL

(* Through any order of OnWrite, OnRead and Clean, DataSize is the number  *)
(* of bytes received and not read.                                         *)
THEOREM NoByteCountLostHolds == BufferSpec => []NoByteCountLost
<1>1. RInv => NoByteCountLost
  BY DEF RInv
<1> QED
  BY <1>1, BufferInvariance, PTL

(* After a Clean there is room for a whole receive, unless the unread data *)
(* takes it.                                                               *)
THEOREM CleanMakesRoomHolds == BufferSpec => []CleanMakesRoom
<1>1. RInv => CleanMakesRoom
  BY DEF RInv
<1> QED
  BY <1>1, BufferInvariance, PTL

-----------------------------------------------------------------------------
(* The runs                                                                *)

(* A behaviour of MCLockFree is one of each of its three parts, so that    *)
(* what is proved of a part holds in it.                                   *)
THEOREM PartsAreLockFree == Spec => StackSpec /\ SListSpec /\ RefSpec
<1>1. Init => StackInit /\ SListInit /\ RefInit
  BY DEF Init
<1>2. [Next]_vars =>
        [StackNext]_stackVars /\ [SListNext]_listVars /\ [RefNext]_refVars
  BY DEF Next, vars
<1> QED
  BY <1>1, <1>2, PTL DEF Spec, StackSpec, SListSpec, RefSpec

(* Every variable of the three keeps its type, for any number of threads,  *)
(* nodes, entries and references.                                          *)
THEOREM LockFreeTypeCorrect == Spec => []TypeOK
<1>1. StackTypeOK /\ SListTypeOK /\ RefTypeOK => TypeOK
  BY DEF TypeOK
<1> QED
  BY <1>1, PartsAreLockFree, StackTypeCorrect, ListTypeCorrect, RefTypeCorrect, PTL

(* A history built pair after pair records no lock inside itself.          *)
LEMMA HistoryGrows ==
  ASSUME history \in Histories, NEW i \in Ids, NEW j \in Ids, AddPair(i, j)
  PROVE  history' \in Histories
<1>1. /\ history \in [Ids -> SUBSET Ids] /\ \A k \in Ids : k \notin history[k]
      /\ i # j /\ history' = [history EXCEPT ![i] = history[i] \cup {j}]
  BY DEF Histories, AddPair
<1> DEFINE h == history'
<1> HIDE DEF h
<1>2. h \in [Ids -> SUBSET Ids]
  BY <1>1 DEF h
<1>3. \A k \in Ids : k \notin h[k]
  BY <1>1 DEF h
<1>4. h \in Histories
  BY <1>2, <1>3 DEF Histories
<1> QED
  BY <1>4 DEF h

(* CheckCycle finds every cycle of every history over any number of locks, *)
(* and a cycle it prints is one.                                           *)
THEOREM FindsEveryCycleHolds == SequentialSpec => []FindsEveryCycle
<1>1. SequentialInit => history \in Histories
  BY DEF SequentialInit, Histories
<1>2. history \in Histories /\ [SequentialNext]_sequentialVars => (history \in Histories)'
  <2> SUFFICES ASSUME history \in Histories, [SequentialNext]_sequentialVars
               PROVE  history' \in Histories
    OBVIOUS
  <2>1. ASSUME NEW i \in Ids, NEW j \in Ids, AddPair(i, j) PROVE history' \in Histories
    BY <2>1, HistoryGrows
  <2>2. CASE history' = history
    BY <2>2
  <2> QED
    BY <2>1, <2>2 DEF SequentialNext, sequentialVars
<1>3. history \in Histories => FindsEveryCycle
  <2> SUFFICES ASSUME history \in Histories PROVE FindsEveryCycle
    OBVIOUS
  <2>1. Cardinality(Names) = LockMax /\ LockMax \in 0 .. LockMax
    BY LockMaxIsNat DEF LockMax
  <2>2. \A i \in Ids : i >= LockMax => history[i] = {}
    BY IdsAre, LockMaxIsNat
  <2>3. /\ Cyclic(history) => CheckCycle(history, LockMax) # "none"
        /\ CheckCycle(history, LockMax) = "DEADLOCK_DETECTED" => Cyclic(history)
    BY <2>1, <2>2, CheckCycleFindsCycles
  <2> QED
    BY <2>1, <2>3 DEF FindsEveryCycle, Alarm
<1> QED
  BY <1>1, <1>2, <1>3, PTL DEF SequentialSpec

(* The buffer's behaviours in MCSequential are those of RecvBuffer.        *)
THEOREM BufferIsAsSpecified == SequentialSpec => BufferSpec
<1>1. SequentialInit => BufferInit
  BY DEF SequentialInit
<1>2. [SequentialNext]_sequentialVars => [BufferNext]_bufferVars
  <2> SUFFICES ASSUME [SequentialNext]_sequentialVars PROVE [BufferNext]_bufferVars
    OBVIOUS
  <2>1. CASE SequentialNext
    BY <2>1, Zenon DEF SequentialNext
  <2>2. CASE UNCHANGED sequentialVars
    BY <2>2 DEF sequentialVars
  <2> QED
    BY <2>1, <2>2
<1> QED
  BY <1>1, <1>2, PTL DEF SequentialSpec, BufferSpec

-----------------------------------------------------------------------------
(* StompAllocator                                                          *)

(* Remainders of a multiple and of what is added to it.                    *)
LEMMA Remainders ==
  ASSUME NEW d \in Nat \ {0}
  PROVE  /\ \A n \in Nat : n \div d \in Nat /\ n % d \in 0 .. d - 1 /\ n = d * (n \div d) + (n % d)
         /\ \A k \in Nat : \A r \in 0 .. d - 1 : (d * k + r) % d = r
<1>1. ASSUME NEW n \in Nat
      PROVE  n \div d \in Nat /\ n % d \in 0 .. d - 1 /\ n = d * (n \div d) + (n % d)
  BY SMT
<1>2. ASSUME NEW k \in Nat, NEW r \in 0 .. d - 1
      PROVE  (d * k + r) % d = r
  BY SMT
<1> QED
  BY <1>1, <1>2

(* A block's pages are as many whole ones as it needs, and it begins on the*)
(* first of them.                                                          *)
LEMMA PagesOfSize ==
  ASSUME NEW size \in Nat \ {0}
  PROVE  /\ PageCount(size) * PAGE_SIZE \in Nat
         /\ PageCount(size) * PAGE_SIZE >= size
         /\ DataOffset(size) \in 0 .. PAGE_SIZE - 1
         /\ DataOffset(size) + size = PageCount(size) * PAGE_SIZE
<1> DEFINE n == size + PAGE_SIZE - 1
           q == n \div PAGE_SIZE
           r == n % PAGE_SIZE
<1>1. PAGE_SIZE \in Nat \ {0} /\ n \in Nat
  BY StompAssumption
<1>2. q \in Nat /\ r \in 0 .. PAGE_SIZE - 1 /\ n = PAGE_SIZE * q + r
  BY <1>1, Remainders
<1>3. PageCount(size) * PAGE_SIZE = PAGE_SIZE * q
  <2>1. PageCount(size) = q
    BY DEF PageCount
  <2> HIDE DEF q
  <2>2. q * PAGE_SIZE = PAGE_SIZE * q
    BY <1>1, <1>2
  <2> QED
    BY <2>1, <2>2
<1>4. DataOffset(size) = PAGE_SIZE * q - size
  BY <1>3 DEF DataOffset
<1> DEFINE bytes == PAGE_SIZE * q
<1>5. bytes \in Nat
  BY <1>1, <1>2
<1>6. n = bytes + r
  BY <1>2
<1> HIDE DEF bytes, r, q
<1>7. bytes >= size /\ bytes - size \in 0 .. PAGE_SIZE - 1
  BY <1>1, <1>2, <1>5, <1>6
<1> QED
  BY <1>3, <1>4, <1>5, <1>7 DEF bytes

(* Where memory is reserved, a page begins, and not the first one.         *)
LEMMA GranulesArePages ==
  ASSUME NEW a \in Nat, a % Granularity = 0
  PROVE  /\ \E k \in Nat : a = PAGE_SIZE * k
         /\ a # 0 => a >= PAGE_SIZE
<1>1. PAGE_SIZE \in Nat \ {0} /\ Granularity \in Nat \ {0} /\ Granularity % PAGE_SIZE = 0
  BY StompAssumption
<1>2. PICK i \in Nat : a = Granularity * i
  <2>1. a \div Granularity \in Nat /\ a = Granularity * (a \div Granularity) + 0
    BY <1>1, Remainders
  <2>2. Granularity * (a \div Granularity) \in Nat
    BY <1>1, <2>1
  <2> QED
    BY <2>1, <2>2
<1>3. PICK j \in Nat : Granularity = PAGE_SIZE * j
  <2>1. /\ Granularity \div PAGE_SIZE \in Nat
        /\ Granularity = PAGE_SIZE * (Granularity \div PAGE_SIZE) + 0
    BY <1>1, Remainders
  <2>2. PAGE_SIZE * (Granularity \div PAGE_SIZE) \in Nat
    BY <1>1, <2>1
  <2> QED
    BY <2>1, <2>2
<1>4. j * i \in Nat /\ a = PAGE_SIZE * (j * i)
  BY <1>1, <1>2, <1>3
<1>5. ASSUME NEW k \in Nat, a = PAGE_SIZE * k, a # 0 PROVE a >= PAGE_SIZE
  <2>1. k # 0
    BY <1>1, <1>5
  <2>2. k - 1 \in Nat /\ PAGE_SIZE * k = PAGE_SIZE * (k - 1) + PAGE_SIZE
    BY <1>1, <2>1
  <2>3. PAGE_SIZE * (k - 1) \in Nat
    BY <1>1, <2>2
  <2> QED
    BY <1>1, <1>5, <2>2, <2>3
<1> QED
  BY <1>4, <1>5

(* A block's address tells its base.                                       *)
LEMMA BaseFromAddress ==
  ASSUME NEW a \in Nat, a % Granularity = 0, NEW size \in Nat \ {0}
  PROVE  BaseAddress(a + DataOffset(size)) = a
<1>1. PAGE_SIZE \in Nat \ {0} /\ DataOffset(size) \in 0 .. PAGE_SIZE - 1
  BY StompAssumption, PagesOfSize
<1>2. PICK k \in Nat : a = PAGE_SIZE * k
  BY GranulesArePages
<1>3. (a + DataOffset(size)) % PAGE_SIZE = DataOffset(size)
  BY <1>1, <1>2, Remainders
<1> QED
  BY <1>1, <1>3 DEF BaseAddress

(* What Release relies on: every block in use has pages of its own, of     *)
(* which its address tells the first one, and nothing else is reserved.    *)
ReservationsFit ==
  /\ \A r \in reserved : r.base \in Nat \ {0} /\ r.base % Granularity = 0 /\ r.bytes \in Nat
  /\ \A r, s \in reserved : r # s => Pages(r) \cap Pages(s) = {}

BlocksFit ==
  \A b \in blocks :
    /\ b.size \in Nat \ {0}
    /\ b.base \in Nat /\ b.base % Granularity = 0
    /\ b.ptr = b.base + DataOffset(b.size)

OwnPages ==
  /\ \A b \in blocks :
       b.base # 0 => [base |-> b.base, bytes |-> PageCount(b.size) * PAGE_SIZE] \in reserved
  /\ \A r \in reserved : \E b \in blocks : b.base = r.base
  /\ \A b, c \in blocks : b.base = c.base => b = c \/ b.base = 0

StompInv == ReservationsFit /\ BlocksFit /\ OwnPages

LEMMA InitStompInv == StompInit => StompInv
BY DEF StompInit, StompInv, ReservationsFit, BlocksFit, OwnPages

LEMMA AllocKeepsStompInv ==
  ASSUME StompInv, NEW size \in 1 .. Space, NEW base0 \in 0 .. Space, Alloc(size, base0)
  PROVE  StompInv'
<1> DEFINE bytes == PageCount(size) * PAGE_SIZE
           new   == [base |-> base0, bytes |-> bytes]
           block == [ptr |-> base0 + DataOffset(size), size |-> size, base |-> base0]
<1>1. /\ IsVacant(base0, bytes)
      /\ reserved' = reserved \cup {new}
      /\ blocks' = blocks \cup {block}
  BY DEF Alloc
<1>2. size \in Nat \ {0} /\ base0 \in Nat \ {0} /\ base0 % Granularity = 0
  BY <1>1, StompAssumption DEF IsVacant
<1>3. bytes \in Nat /\ bytes >= size
  BY <1>2, PagesOfSize
<1>4. /\ new.base = base0 /\ new.bytes = bytes
      /\ block.base = base0 /\ block.size = size /\ block.ptr = base0 + DataOffset(size)
  OBVIOUS
<1>5. Pages(new) = base0 .. base0 + bytes - 1
  BY <1>4 DEF Pages
<1>6. \A r \in reserved : Pages(new) \cap Pages(r) = {}
  BY <1>1, <1>5 DEF IsVacant
<1>7. base0 \in Pages(new)
  BY <1>2, <1>3, <1>5
<1> HIDE DEF new, block, bytes
<1>8. \A r \in reserved : r.base # base0 \/ r.bytes = 0
  <2> SUFFICES ASSUME NEW r \in reserved, r.base = base0, r.bytes # 0 PROVE FALSE
    OBVIOUS
  <2>1. r.bytes \in Nat
    BY DEF StompInv, ReservationsFit
  <2>2. base0 \in Pages(r)
    BY <1>2, <2>1 DEF Pages
  <2> QED
    BY <1>6, <1>7, <2>2
<1>9. \A b \in blocks : b.base # base0
  <2> SUFFICES ASSUME NEW b \in blocks, b.base = base0 PROVE FALSE
    OBVIOUS
  <2> DEFINE r == [base |-> b.base, bytes |-> PageCount(b.size) * PAGE_SIZE]
  <2>1. r \in reserved
    BY <1>2 DEF StompInv, OwnPages
  <2>2. r.base = base0 /\ r.bytes = PageCount(b.size) * PAGE_SIZE
    OBVIOUS
  <2>3. r.bytes # 0
    <3>1. b.size \in Nat \ {0}
      BY DEF StompInv, BlocksFit
    <3> QED
      BY <2>2, <3>1, PagesOfSize
  <2> QED
    BY <1>8, <2>1, <2>2, <2>3
<1>10. ReservationsFit'
  <2>1. \A r \in reserved' :
          r.base \in Nat \ {0} /\ r.base % Granularity = 0 /\ r.bytes \in Nat
    BY <1>1, <1>2, <1>3, <1>4 DEF StompInv, ReservationsFit
  <2>2. \A r, s \in reserved' : r # s => Pages(r) \cap Pages(s) = {}
    BY <1>1, <1>6 DEF StompInv, ReservationsFit
  <2> QED
    BY <2>1, <2>2 DEF ReservationsFit, Pages
<1>11. BlocksFit'
  <2>1. \A b \in blocks' : /\ b.size \in Nat \ {0}
                           /\ b.base \in Nat /\ b.base % Granularity = 0
                           /\ b.ptr = b.base + DataOffset(b.size)
    BY <1>1, <1>2, <1>4 DEF StompInv, BlocksFit
  <2> QED
    BY <2>1 DEF BlocksFit
<1>12. OwnPages'
  <2>1. \A b \in blocks' : b.base # 0 =>
          [base |-> b.base, bytes |-> PageCount(b.size) * PAGE_SIZE] \in reserved'
    <3>1. [base |-> block.base, bytes |-> PageCount(block.size) * PAGE_SIZE] = new
      BY <1>4 DEF new, bytes
    <3> QED
      BY <1>1, <3>1 DEF StompInv, OwnPages
  <2>2. \A r \in reserved' : \E b \in blocks' : b.base = r.base
    BY <1>1, <1>4 DEF StompInv, OwnPages
  <2>3. \A b, c \in blocks' : b.base = c.base => b = c \/ b.base = 0
    BY <1>1, <1>4, <1>9 DEF StompInv, OwnPages
  <2> QED
    BY <2>1, <2>2, <2>3 DEF OwnPages
<1> QED
  BY <1>10, <1>11, <1>12 DEF StompInv

LEMMA AllocFailsKeepsStompInv ==
  ASSUME StompInv, NEW size \in 1 .. Space, AllocFails(size)
  PROVE  StompInv'
<1> DEFINE block == [ptr |-> DataOffset(size), size |-> size, base |-> 0]
<1>1. blocks' = blocks \cup {block} /\ reserved' = reserved
  BY DEF AllocFails
<1>2. size \in Nat \ {0} /\ DataOffset(size) \in Nat /\ 0 % Granularity = 0
  <2>1. size \in Nat \ {0} /\ PAGE_SIZE \in Nat /\ Granularity \in Nat \ {0}
    BY StompAssumption
  <2>2. 0 % Granularity = 0
    BY <2>1, SMT
  <2> QED
    BY <2>1, <2>2, PagesOfSize
<1>3. block.base = 0 /\ block.size = size /\ block.ptr = 0 + DataOffset(size)
  BY <1>2
<1> HIDE DEF block
<1>4. ReservationsFit'
  BY <1>1 DEF StompInv, ReservationsFit, Pages
<1>5. BlocksFit'
  <2>1. \A b \in blocks' : /\ b.size \in Nat \ {0}
                           /\ b.base \in Nat /\ b.base % Granularity = 0
                           /\ b.ptr = b.base + DataOffset(b.size)
    BY <1>1, <1>2, <1>3 DEF StompInv, BlocksFit
  <2> QED
    BY <2>1 DEF BlocksFit
<1>6. OwnPages'
  <2>1. \A b \in blocks' : b.base # 0 =>
          [base |-> b.base, bytes |-> PageCount(b.size) * PAGE_SIZE] \in reserved'
    BY <1>1, <1>3 DEF StompInv, OwnPages
  <2>2. \A r \in reserved' : \E b \in blocks' : b.base = r.base
    BY <1>1 DEF StompInv, OwnPages
  <2>3. \A b, c \in blocks' : b.base = c.base => b = c \/ b.base = 0
    BY <1>1, <1>3 DEF StompInv, OwnPages
  <2> QED
    BY <2>1, <2>2, <2>3 DEF OwnPages
<1> QED
  BY <1>4, <1>5, <1>6 DEF StompInv

(* Release frees the pages of this block only.                             *)
LEMMA ReleaseBlockKeepsStompInv ==
  ASSUME StompInv, NEW b \in blocks, ReleaseBlock(b)
  PROVE  StompInv'
<1>1. /\ blocks' = blocks \ {b}
      /\ reserved' = {r \in reserved : r.base # BaseAddress(b.ptr)}
  BY DEF ReleaseBlock
<1>2. BaseAddress(b.ptr) = b.base
  BY BaseFromAddress DEF StompInv, BlocksFit
<1>3. reserved' = {r \in reserved : r.base # b.base}
  BY <1>1, <1>2
<1>4. ReservationsFit'
  <2>1. reserved' \subseteq reserved
    BY <1>3
  <2> QED
    BY <2>1 DEF StompInv, ReservationsFit, Pages
<1>5. BlocksFit'
  <2>1. \A c \in blocks' : /\ c.size \in Nat \ {0}
                           /\ c.base \in Nat /\ c.base % Granularity = 0
                           /\ c.ptr = c.base + DataOffset(c.size)
    BY <1>1 DEF StompInv, BlocksFit
  <2> QED
    BY <2>1 DEF BlocksFit
<1>6. OwnPages'
  <2>1. ASSUME NEW c \in blocks', c.base # 0
        PROVE  [base |-> c.base, bytes |-> PageCount(c.size) * PAGE_SIZE] \in reserved'
    <3> DEFINE r == [base |-> c.base, bytes |-> PageCount(c.size) * PAGE_SIZE]
    <3>1. c \in blocks /\ c # b
      BY <1>1
    <3>2. r \in reserved /\ c.base # b.base
      BY <2>1, <3>1 DEF StompInv, OwnPages
    <3>3. r.base = c.base
      OBVIOUS
    <3> QED
      BY <1>3, <3>2, <3>3
  <2>2. ASSUME NEW r \in reserved' PROVE \E c \in blocks' : c.base = r.base
    <3>1. r \in reserved /\ r.base # b.base
      BY <1>3
    <3>2. PICK c \in blocks : c.base = r.base
      BY <3>1 DEF StompInv, OwnPages
    <3>3. c # b
      BY <3>1, <3>2
    <3> QED
      BY <1>1, <3>2, <3>3
  <2>3. \A c, d \in blocks' : c.base = d.base => c = d \/ c.base = 0
    BY <1>1 DEF StompInv, OwnPages
  <2> QED
    BY <2>1, <2>2, <2>3 DEF OwnPages
<1> QED
  BY <1>4, <1>5, <1>6 DEF StompInv

LEMMA NextKeepsStompInv == StompInv /\ [StompNext]_stompVars => StompInv'
<1> SUFFICES ASSUME StompInv, [StompNext]_stompVars PROVE StompInv'
  OBVIOUS
<1>1. ASSUME NEW size \in 1 .. Space, AllocFails(size) PROVE StompInv'
  BY <1>1, AllocFailsKeepsStompInv
<1>2. ASSUME NEW size \in 1 .. Space, NEW a \in 0 .. Space, Alloc(size, a) PROVE StompInv'
  BY <1>2, AllocKeepsStompInv
<1>3. ASSUME NEW b \in blocks, ReleaseBlock(b) PROVE StompInv'
  BY <1>3, ReleaseBlockKeepsStompInv
<1>4. CASE UNCHANGED stompVars
  BY <1>4 DEF stompVars, StompInv, ReservationsFit, BlocksFit, OwnPages, Pages
<1> QED
  BY <1>1, <1>2, <1>3, <1>4 DEF StompNext

LEMMA FitsCatchStomps == StompInv => StompsAreCaught
<1> SUFFICES ASSUME StompInv PROVE StompsAreCaught
  OBVIOUS
<1>0. PAGE_SIZE \in Nat \ {0}
  BY StompAssumption
<1>1. {r.base : r \in reserved} = {b.base : b \in blocks} \ {0}
  <2>1. ASSUME NEW r \in reserved PROVE r.base \in {b.base : b \in blocks} \ {0}
    BY DEF StompInv, ReservationsFit, OwnPages
  <2>2. ASSUME NEW b \in blocks, b.base # 0 PROVE b.base \in {r.base : r \in reserved}
    <3> DEFINE r == [base |-> b.base, bytes |-> PageCount(b.size) * PAGE_SIZE]
    <3>1. r \in reserved /\ r.base = b.base
      BY <2>2 DEF StompInv, OwnPages
    <3> QED
      BY <3>1
  <2> QED
    BY <2>1, <2>2
<1>2. ASSUME NEW b \in blocks, b.base = 0 PROVE ~ IsMapped(b.ptr)
  <2> SUFFICES ASSUME NEW r \in reserved, b.ptr \in Pages(r) PROVE FALSE
    BY DEF IsMapped
  <2>1. b.ptr \in 0 .. PAGE_SIZE - 1
    BY <1>2, PagesOfSize DEF StompInv, BlocksFit
  <2>2. r.base \in Nat /\ r.base >= PAGE_SIZE /\ r.bytes \in Nat
    BY GranulesArePages DEF StompInv, ReservationsFit
  <2> QED
    BY <1>0, <2>1, <2>2 DEF Pages
<1>3. ASSUME NEW b \in blocks, b.base # 0, NEW end, end = b.ptr + b.size
      PROVE  /\ \A address \in b.ptr .. end - 1 : IsMapped(address)
             /\ IsMapped(end) => end % Granularity = 0
  <2> DEFINE bytes == PageCount(b.size) * PAGE_SIZE
             r     == [base |-> b.base, bytes |-> bytes]
  <2>1. /\ b.size \in Nat \ {0} /\ b.base \in Nat
        /\ b.ptr = b.base + DataOffset(b.size)
    BY DEF StompInv, BlocksFit
  <2>2. /\ bytes \in Nat /\ bytes >= b.size
        /\ DataOffset(b.size) \in Nat
        /\ DataOffset(b.size) + b.size = bytes
    BY <1>0, <2>1, PagesOfSize
  <2>3. r \in reserved
    BY <1>3 DEF StompInv, OwnPages
  <2>4. Pages(r) = b.base .. b.base + bytes - 1
    BY DEF Pages
  <2> HIDE DEF bytes, r
  <2>5. end = b.base + bytes
    BY <1>3, <2>1, <2>2
  <2>6. ASSUME NEW address \in b.ptr .. end - 1 PROVE IsMapped(address)
    <3>1. address \in Pages(r)
      BY <2>1, <2>2, <2>4, <2>5
    <3> QED
      BY <2>3, <3>1 DEF IsMapped
  <2>7. ASSUME NEW s \in reserved, end \in Pages(s) PROVE end % Granularity = 0
    <3>1. s.base \in Nat /\ s.bytes \in Nat /\ s.base % Granularity = 0
      BY DEF StompInv, ReservationsFit
    <3>2. end \in s.base .. s.base + s.bytes - 1
      BY <2>7 DEF Pages
    <3>3. end \notin Pages(r)
      BY <2>1, <2>2, <2>4, <2>5
    <3>4. CASE s.base = end
      BY <3>1, <3>4
    <3>5. CASE s.base # end
      <4>1. end - 1 \in Pages(s)
        BY <2>1, <2>2, <2>5, <3>1, <3>2, <3>5 DEF Pages
      <4>2. end - 1 \in Pages(r)
        <5>1. b.base \in Nat /\ bytes \in Nat /\ bytes # 0
          BY <2>1, <2>2
        <5>2. end - 1 \in b.base .. b.base + bytes - 1
          BY <2>5, <5>1
        <5> QED
          BY <2>4, <5>2
      <4>3. s # r
        BY <2>7, <3>3
      <4>4. Pages(s) \cap Pages(r) = {}
        BY <2>3, <4>3 DEF StompInv, ReservationsFit
      <4> QED
        BY <4>1, <4>2, <4>4
    <3> QED
      BY <3>4, <3>5
  <2>8. IsMapped(end) => end % Granularity = 0
    BY <2>7 DEF IsMapped
  <2> QED
    BY <2>6, <2>8, Zenon
<1>4. ASSUME NEW b \in blocks
      PROVE  IF b.base = 0 THEN ~ IsMapped(b.ptr)
             ELSE LET end == b.ptr + b.size
                  IN  /\ \A address \in b.ptr .. end - 1 : IsMapped(address)
                      /\ IsMapped(end) => end % Granularity = 0
  <2>1. CASE b.base = 0
    BY <1>2, <2>1, Zenon
  <2>2. CASE b.base # 0
    <3> DEFINE end == b.ptr + b.size
    <3>1. end = b.ptr + b.size
      OBVIOUS
    <3> HIDE DEF end
    <3>2. /\ \A address \in b.ptr .. end - 1 : IsMapped(address)
          /\ IsMapped(end) => end % Granularity = 0
      BY <1>3, <2>2, <3>1, Zenon
    <3> QED
      BY <2>2, <3>2, Zenon DEF end
  <2> QED
    BY <2>1, <2>2
<1> QED
  BY <1>1, <1>4, Zenon DEF StompsAreCaught

(* For every page size, granule and sequence of allocations, failed ones   *)
(* included: Release gives back exactly the block's own pages, and the     *)
(* byte past a block is on a page only when that begins a granule.         *)
THEOREM StompsAreCaughtHolds == SequentialSpec => []StompsAreCaught
<1>1. SequentialInit => StompInv
  BY InitStompInv DEF SequentialInit
<1>2. StompInv /\ [SequentialNext]_sequentialVars => StompInv'
  <2>1. [SequentialNext]_sequentialVars => [StompNext]_stompVars
    BY DEF SequentialNext, sequentialVars, stompVars
  <2> QED
    BY <2>1, NextKeepsStompInv
<1> QED
  BY <1>1, <1>2, FitsCatchStomps, PTL DEF SequentialSpec

-----------------------------------------------------------------------------
(* TypeCast                                                                *)

(* What IndexOf of the list from element n + 1 on is, by what it is of the *)
(* list from the next one on.                                              *)
IndexRule(c, Index, n) ==
  IF n = Length THEN NotFound
  ELSE IF TypeAt(n) = c THEN 0 ELSE MovedUp(Index[n + 1])

LEMMA IndexExists ==
  ASSUME TL \in Seq(Types), NEW c
  PROVE  \E Index : Index = [n \in 0 .. Length |-> IndexRule(c, Index, n)]
<1> DEFINE IsIndex(Index, low0) == Index = [n \in low0 .. Length |-> IndexRule(c, Index, n)]
           Sizes == {m \in Nat : m <= Length => \E Index : IsIndex(Index, Length - m)}
<1>1. Length \in Nat
  BY DEF Length
<1>2. 0 \in Sizes
  <2> DEFINE last == [n \in Length .. Length |-> NotFound]
  <2>1. \A n \in Length .. Length : n = Length
    BY <1>1
  <2>2. last = [n \in Length .. Length |-> IndexRule(c, last, n)]
    BY <2>1 DEF IndexRule
  <2> HIDE DEF last
  <2>3. Length - 0 = Length
    BY <1>1
  <2>4. IsIndex(last, Length - 0)
    BY <2>2, <2>3, Zenon
  <2>5. \E Index : IsIndex(Index, Length - 0)
    BY <2>4
  <2> QED
    BY <2>5
<1>3. ASSUME NEW m \in Nat, m \in Sizes PROVE m + 1 \in Sizes
  <2> SUFFICES ASSUME m + 1 <= Length PROVE \E Index : IsIndex(Index, Length - (m + 1))
    OBVIOUS
  <2> DEFINE from == Length - (m + 1)
  <2>1. from \in Nat /\ from < Length /\ from + 1 = Length - m
    BY <1>1
  <2>2. PICK Index : IsIndex(Index, from + 1)
    BY <1>1, <1>3, <2>1
  <2> HIDE DEF from
  <2> DEFINE More == [n \in from .. Length |->
                        IF n = from THEN IndexRule(c, Index, n) ELSE Index[n]]
  <2>3. ASSUME NEW n \in from .. Length PROVE More[n] = IndexRule(c, More, n)
    <3>1. CASE n = Length
      <4>1. n # from /\ n \in from + 1 .. Length
        BY <1>1, <2>1, <3>1
      <4>2. More[n] = Index[n] /\ Index[n] = IndexRule(c, Index, n)
        BY <2>2, <4>1
      <4> QED
        BY <3>1, <4>2 DEF IndexRule
    <3>2. CASE n # Length
      <4>1. n + 1 \in from .. Length /\ n + 1 # from /\ n + 1 \in from + 1 .. Length
        BY <1>1, <2>1, <3>2
      <4>2. More[n + 1] = Index[n + 1]
        BY <4>1
      <4>3. More[n] = IndexRule(c, Index, n)
        <5>1. CASE n = from
          BY <5>1
        <5>2. CASE n # from
          <6>1. n \in from + 1 .. Length
            BY <1>1, <2>1, <5>2
          <6> QED
            BY <2>2, <5>2, <6>1
        <5> QED
          BY <5>1, <5>2
      <4> QED
        BY <4>2, <4>3 DEF IndexRule
    <3> QED
      BY <3>1, <3>2
  <2>4. DOMAIN More = from .. Length /\ More = [n \in DOMAIN More |-> More[n]]
    OBVIOUS
  <2> HIDE DEF More
  <2>5. More = [n \in from .. Length |-> IndexRule(c, More, n)]
    BY <2>3, <2>4
  <2> QED
    BY <2>5 DEF from
<1>4. Nat \subseteq Sizes
  <2> HIDE DEF Sizes
  <2> QED
    BY <1>2, <1>3, NatSetInduction
<1>5. Length - Length = 0
  BY <1>1
<1> QED
  BY <1>1, <1>4, <1>5

(* IndexOf is where a class is in the list, and -1 when it is not there.   *)
LEMMA IndexOfFinds ==
  ASSUME TL \in Seq(Types), NEW c
  PROVE  /\ c \in Listed => IndexOf(c) \in 0 .. Length - 1 /\ TypeAt(IndexOf(c)) = c
         /\ c \notin Listed => IndexOf(c) = NotFound
<1> DEFINE P(Index) == Index = [n \in 0 .. Length |-> IndexRule(c, Index, n)]
           I == CHOOSE Index : P(Index)
           IsRight(n) == \/ I[n] = NotFound /\ \A k \in n .. Length - 1 : TypeAt(k) # c
                         \/ I[n] \in 0 .. Length - n - 1 /\ TypeAt(n + I[n]) = c
           Right == {m \in Nat : m <= Length => IsRight(Length - m)}
<1>1. Length \in Nat
  BY DEF Length
<1>2. P(I)
  <2>1. \E Index : P(Index)
    BY IndexExists
  <2> HIDE DEF P
  <2> QED
    BY <2>1
<1>3. IndexOf(c) = I[0]
  BY DEF IndexOf, IndexRule
<1>4. \A n \in 0 .. Length : I[n] = IndexRule(c, I, n)
  <2> HIDE DEF I
  <2> QED
    BY <1>2
<1> HIDE DEF I
<1>5. 0 \in Right
  <2>1. I[Length] = NotFound
    BY <1>1, <1>4 DEF IndexRule
  <2>2. Length - 0 = Length /\ Length .. Length - 1 = {}
    BY <1>1
  <2> QED
    BY <2>1, <2>2
<1>6. ASSUME NEW m \in Nat, m \in Right PROVE m + 1 \in Right
  <2> SUFFICES ASSUME m + 1 <= Length PROVE IsRight(Length - (m + 1))
    OBVIOUS
  <2> DEFINE n == Length - (m + 1)
  <2>1. n \in Nat /\ n < Length /\ n + 1 = Length - m /\ n \in 0 .. Length
    BY <1>1
  <2>2. IsRight(n + 1)
    BY <1>1, <1>6, <2>1
  <2> HIDE DEF n
  <2>3. I[n] = IF TypeAt(n) = c THEN 0 ELSE MovedUp(I[n + 1])
    BY <1>4, <2>1 DEF IndexRule
  <2>4. CASE TypeAt(n) = c
    <3>1. I[n] = 0 /\ n + 0 = n /\ 0 \in 0 .. Length - n - 1
      BY <1>1, <2>1, <2>3, <2>4
    <3>2. IsRight(n)
      BY <2>4, <3>1
    <3> QED
      BY <3>2 DEF n
  <2>5. CASE TypeAt(n) # c
    <3>1. CASE I[n + 1] = NotFound /\ \A k \in n + 1 .. Length - 1 : TypeAt(k) # c
      <4>1. I[n] = NotFound
        BY <2>3, <2>5, <3>1 DEF MovedUp
      <4>2. \A k \in n .. Length - 1 : k = n \/ k \in n + 1 .. Length - 1
        BY <1>1, <2>1
      <4>3. IsRight(n)
        BY <2>5, <3>1, <4>1, <4>2
      <4> QED
        BY <4>3 DEF n
    <3>2. CASE I[n + 1] \in 0 .. Length - (n + 1) - 1 /\ TypeAt(n + 1 + I[n + 1]) = c
      <4>1. I[n + 1] # NotFound
        BY <3>2 DEF NotFound
      <4>2. I[n] = I[n + 1] + 1
        BY <2>3, <2>5, <4>1 DEF MovedUp
      <4>3. n + I[n] = n + 1 + I[n + 1] /\ I[n] \in 0 .. Length - n - 1
        BY <1>1, <2>1, <3>2, <4>2
      <4>4. IsRight(n)
        BY <3>2, <4>3
      <4> QED
        BY <4>4 DEF n
    <3> QED
      BY <2>2, <3>1, <3>2
  <2> QED
    BY <2>4, <2>5
<1>7. Nat \subseteq Right
  <2> HIDE DEF Right
  <2> QED
    BY <1>5, <1>6, NatSetInduction
<1>8. IsRight(0)
  <2>1. Length - Length = 0
    BY <1>1
  <2> QED
    BY <1>1, <1>7, <2>1
<1>9. c \in Listed <=> \E k \in 0 .. Length - 1 : TypeAt(k) = c
  <2>1. ASSUME NEW i \in 1 .. Length PROVE i - 1 \in 0 .. Length - 1 /\ TypeAt(i - 1) = TL[i]
    BY <1>1 DEF TypeAt
  <2>2. ASSUME NEW k \in 0 .. Length - 1 PROVE k + 1 \in 1 .. Length /\ TypeAt(k) = TL[k + 1]
    BY <1>1 DEF TypeAt
  <2> QED
    BY <2>1, <2>2 DEF Listed
<1>10. CASE I[0] = NotFound /\ \A k \in 0 .. Length - 1 : TypeAt(k) # c
  BY <1>3, <1>9, <1>10
<1>11. CASE I[0] \in 0 .. Length - 0 - 1 /\ TypeAt(0 + I[0]) = c
  <2>1. I[0] \in 0 .. Length - 1 /\ TypeAt(I[0]) = c
    BY <1>1, <1>11
  <2> QED
    BY <1>3, <1>9, <2>1
<1> QED
  BY <1>8, <1>10, <1>11

(* What MakeTable(i, j) sets, by what the calls it makes set.              *)
TableRule(Table, call) ==
  LET i == call[1]
      j == call[2]
  IN  IF i = Length THEN {}
      ELSE IF j = Length THEN Table[<<i + 1, 0>>]
      ELSE Table[<<i, j + 1>>] \cup
           IF Conversion(TypeAt(i), TypeAt(j)) THEN {i * Length + j} ELSE {}

TableCalls == (0 .. Length) \X (0 .. Length)

(* The cells from row i, column j on that are to be set.                   *)
SetFrom(i, j) ==
  {x \in Nat : \E k, m \in 0 .. Length - 1 :
                 /\ k > i \/ (k = i /\ m >= j)
                 /\ Conversion(TypeAt(k), TypeAt(m))
                 /\ x = k * Length + m}

(* One call of MakeTable after the other sets just those.                  *)
LEMMA SetFromRule ==
  ASSUME Length \in Nat, NEW i \in 0 .. Length, NEW j \in 0 .. Length
  PROVE  /\ i = Length => SetFrom(i, j) = {}
         /\ i # Length /\ j = Length => SetFrom(i, j) = SetFrom(i + 1, 0)
         /\ i # Length /\ j # Length =>
              SetFrom(i, j) = SetFrom(i, j + 1) \cup
                (IF Conversion(TypeAt(i), TypeAt(j)) THEN {i * Length + j} ELSE {})
<1>1. CASE i = Length
  <2>1. \A k, m \in 0 .. Length - 1 : ~ (k > i \/ (k = i /\ m >= j))
    BY <1>1
  <2> QED
    BY <1>1, <2>1 DEF SetFrom
<1>2. CASE i # Length /\ j = Length
  <2>1. \A k, m \in 0 .. Length - 1 :
          k > i \/ (k = i /\ m >= j) <=> k > i + 1 \/ (k = i + 1 /\ m >= 0)
    BY <1>2
  <2> QED
    BY <1>2, <2>1 DEF SetFrom
<1>3. CASE i # Length /\ j # Length
  <2>1. i \in 0 .. Length - 1 /\ j \in 0 .. Length - 1 /\ i * Length + j \in Nat
    BY <1>3
  <2>2. \A k, m \in 0 .. Length - 1 :
          k > i \/ (k = i /\ m >= j) <=> (k > i \/ (k = i /\ m >= j + 1)) \/ (k = i /\ m = j)
    BY <1>3
  <2> DEFINE here == IF Conversion(TypeAt(i), TypeAt(j)) THEN {i * Length + j} ELSE {}
  <2>3. ASSUME NEW x \in SetFrom(i, j) PROVE x \in SetFrom(i, j + 1) \cup here
    <3>1. PICK k \in 0 .. Length - 1, m \in 0 .. Length - 1 :
            /\ k > i \/ (k = i /\ m >= j)
            /\ Conversion(TypeAt(k), TypeAt(m))
            /\ x = k * Length + m
      BY DEF SetFrom
    <3>2. x \in Nat
      BY DEF SetFrom
    <3>3. CASE k > i \/ (k = i /\ m >= j + 1)
      BY <3>1, <3>2, <3>3, Zenon DEF SetFrom
    <3>4. CASE k = i /\ m = j
      BY <3>1, <3>4, Zenon
    <3> QED
      BY <2>2, <3>1, <3>3, <3>4
  <2>4. ASSUME NEW x \in SetFrom(i, j + 1) PROVE x \in SetFrom(i, j)
    <3>1. PICK k \in 0 .. Length - 1, m \in 0 .. Length - 1 :
            /\ k > i \/ (k = i /\ m >= j + 1)
            /\ Conversion(TypeAt(k), TypeAt(m))
            /\ x = k * Length + m
      BY DEF SetFrom
    <3>2. k > i \/ (k = i /\ m >= j)
      BY <2>2, <3>1
    <3> QED
      BY <3>1, <3>2, Zenon DEF SetFrom
  <2>5. ASSUME NEW x \in here PROVE x \in SetFrom(i, j)
    <3>1. Conversion(TypeAt(i), TypeAt(j)) /\ x = i * Length + j
      BY <2>5
    <3>2. i = i /\ j >= j
      BY <2>1
    <3> HIDE DEF here
    <3> QED
      BY <2>1, <3>1, <3>2, Zenon DEF SetFrom
  <2> QED
    BY <1>3, <2>3, <2>4, <2>5
<1> QED
  BY <1>1, <1>2, <1>3

LEMMA TableExists ==
  ASSUME Length \in Nat
  PROVE  \E Table : Table = [call \in TableCalls |-> TableRule(Table, call)]
<1> DEFINE Table == [call \in TableCalls |-> SetFrom(call[1], call[2])]
<1>1. ASSUME NEW i \in 0 .. Length, NEW j \in 0 .. Length
      PROVE  Table[<<i, j>>] = SetFrom(i, j)
  BY DEF TableCalls
<1>2. Table = [call \in DOMAIN Table |-> Table[call]] /\ DOMAIN Table = TableCalls
  OBVIOUS
<1> HIDE DEF Table
<1>3. ASSUME NEW i \in 0 .. Length, NEW j \in 0 .. Length
      PROVE  Table[<<i, j>>] = TableRule(Table, <<i, j>>)
  <2>1. CASE i = Length
    BY <1>1, <2>1, SetFromRule DEF TableRule
  <2>2. CASE i # Length /\ j = Length
    <3>1. i + 1 \in 0 .. Length /\ 0 \in 0 .. Length
      BY <2>2
    <3>2. Table[<<i + 1, 0>>] = SetFrom(i + 1, 0)
      BY <1>1, <3>1
    <3> QED
      BY <1>1, <2>2, <3>2, SetFromRule DEF TableRule
  <2>3. CASE i # Length /\ j # Length
    <3>1. j + 1 \in 0 .. Length
      BY <2>3
    <3>2. Table[<<i, j + 1>>] = SetFrom(i, j + 1)
      BY <1>1, <3>1
    <3> QED
      BY <1>1, <2>3, <3>2, SetFromRule DEF TableRule
  <2> QED
    BY <2>1, <2>2, <2>3
<1>4. \A call \in TableCalls : Table[call] = TableRule(Table, call)
  <2> SUFFICES ASSUME NEW call \in TableCalls PROVE Table[call] = TableRule(Table, call)
    OBVIOUS
  <2>1. PICK i \in 0 .. Length, j \in 0 .. Length : call = <<i, j>>
    BY DEF TableCalls
  <2> QED
    BY <1>3, <2>1
<1> QED
  BY <1>2, <1>4

(* The table is set where there is a conversion, and nowhere else.         *)
LEMMA TableIsConversions ==
  ASSUME Length \in Nat
  PROVE  MakeTable[<<0, 0>>] = SetFrom(0, 0)
<1> DEFINE P(Table) == Table = [call \in TableCalls |-> TableRule(Table, call)]
           T == CHOOSE Table : P(Table)
           RowsDone == {n \in Nat : n <= Length =>
                          \A j \in 0 .. Length : T[<<Length - n, j>>] = SetFrom(Length - n, j)}
<1>1. P(T)
  <2>1. \E Table : P(Table)
    BY TableExists
  <2> HIDE DEF P
  <2> QED
    BY <2>1
<1>2. MakeTable = T
  BY DEF MakeTable, TableRule, TableCalls
<1>3. \A i, j \in 0 .. Length : T[<<i, j>>] = TableRule(T, <<i, j>>)
  <2> HIDE DEF T
  <2>1. \A i, j \in 0 .. Length : <<i, j>> \in TableCalls
    BY DEF TableCalls
  <2> QED
    BY <1>1, <2>1
<1> HIDE DEF T
<1>4. 0 \in RowsDone
  <2>1. ASSUME NEW j \in 0 .. Length PROVE T[<<Length, j>>] = SetFrom(Length, j)
    <3>1. Length \in 0 .. Length
      OBVIOUS
    <3>2. T[<<Length, j>>] = {}
      BY <1>3, <3>1 DEF TableRule
    <3> QED
      BY <3>1, <3>2, SetFromRule
  <2>2. Length - 0 = Length
    OBVIOUS
  <2> QED
    BY <2>1, <2>2
<1>5. ASSUME NEW n \in Nat, n \in RowsDone PROVE n + 1 \in RowsDone
  <2> SUFFICES ASSUME n + 1 <= Length
               PROVE  \A j \in 0 .. Length :
                        T[<<Length - (n + 1), j>>] = SetFrom(Length - (n + 1), j)
    OBVIOUS
  <2> DEFINE i == Length - (n + 1)
             Done == {m \in Nat : m <= Length => T[<<i, Length - m>>] = SetFrom(i, Length - m)}
  <2>1. i \in 0 .. Length /\ i # Length /\ i + 1 = Length - n
    OBVIOUS
  <2>2. \A j \in 0 .. Length : T[<<i + 1, j>>] = SetFrom(i + 1, j)
    <3>1. n <= Length
      OBVIOUS
    <3> QED
      BY <1>5, <2>1, <3>1
  <2> HIDE DEF i
  <2>3. 0 \in Done
    <3>1. Length \in 0 .. Length /\ 0 \in 0 .. Length /\ Length - 0 = Length
      OBVIOUS
    <3>2. T[<<i, Length>>] = T[<<i + 1, 0>>]
      BY <1>3, <2>1, <3>1 DEF TableRule
    <3>3. SetFrom(i, Length) = SetFrom(i + 1, 0)
      BY <2>1, <3>1, SetFromRule
    <3>4. T[<<i, Length>>] = SetFrom(i, Length)
      BY <2>2, <3>1, <3>2, <3>3
    <3> QED
      BY <3>1, <3>4
  <2>4. ASSUME NEW m \in Nat, m \in Done PROVE m + 1 \in Done
    <3> SUFFICES ASSUME m + 1 <= Length
                 PROVE  T[<<i, Length - (m + 1)>>] = SetFrom(i, Length - (m + 1))
      OBVIOUS
    <3> DEFINE j == Length - (m + 1)
    <3>1. j \in 0 .. Length /\ j # Length /\ j + 1 = Length - m
      OBVIOUS
    <3>2. T[<<i, j + 1>>] = SetFrom(i, j + 1)
      <4>1. m <= Length
        OBVIOUS
      <4> QED
        BY <2>4, <3>1, <4>1
    <3> HIDE DEF j
    <3>3. T[<<i, j>>] = T[<<i, j + 1>>] \cup
            (IF Conversion(TypeAt(i), TypeAt(j)) THEN {i * Length + j} ELSE {})
      BY <1>3, <2>1, <3>1 DEF TableRule
    <3>4. T[<<i, j>>] = SetFrom(i, j)
      BY <2>1, <3>1, <3>2, <3>3, SetFromRule
    <3> QED
      BY <3>4 DEF j
  <2>5. Nat \subseteq Done
    <3> HIDE DEF Done
    <3> QED
      BY <2>3, <2>4, NatSetInduction
  <2>6. ASSUME NEW j \in 0 .. Length PROVE T[<<i, j>>] = SetFrom(i, j)
    <3>1. Length - j \in Nat /\ Length - j <= Length /\ Length - (Length - j) = j
      OBVIOUS
    <3>2. Length - j \in Done
      BY <2>5, <3>1
    <3> QED
      BY <3>1, <3>2
  <2> QED
    BY <2>6 DEF i
<1>6. Nat \subseteq RowsDone
  <2> HIDE DEF RowsDone
  <2> QED
    BY <1>4, <1>5, NatSetInduction
<1>7. Length \in RowsDone /\ Length - Length = 0 /\ 0 \in 0 .. Length
  BY <1>6
<1>8. T[<<0, 0>>] = SetFrom(0, 0)
  BY <1>7
<1> QED
  BY <1>2, <1>8

(* A cell is of one row and one column.                                    *)
LEMMA CellsDiffer ==
  ASSUME NEW n \in Nat, NEW a \in 0 .. n - 1, NEW b \in 0 .. n - 1,
         NEW k \in 0 .. n - 1, NEW m \in 0 .. n - 1, a * n + b = k * n + m
  PROVE  a = k /\ b = m
<1>1. n \in Nat \ {0} /\ a \in Nat /\ k \in Nat
  OBVIOUS
<1>2. a * n = n * a /\ k * n = n * k
  BY <1>1
<1>3. (n * a + b) % n = b /\ (n * k + m) % n = m
  BY <1>1, Remainders
<1>4. b = m
  BY <1>2, <1>3
<1>5. n * a = n * k
  <2> DEFINE p == n * a
             q == n * k
  <2>1. p \in Nat /\ q \in Nat /\ p + b = q + m
    BY <1>1, <1>2
  <2> HIDE DEF p, q
  <2>2. p = q
    BY <1>4, <2>1
  <2> QED
    BY <2>2 DEF p, q
<1>6. ASSUME NEW x \in Nat, NEW y \in Nat, x < y PROVE n * x # n * y
  <2>1. y = x + (y - x) /\ y - x \in Nat \ {0}
    BY <1>6
  <2>2. n * y = n * x + n * (y - x)
    BY <1>1, <2>1
  <2>3. n * (y - x) \in Nat \ {0} /\ n * x \in Nat
    BY <1>1, <2>1
  <2> QED
    BY <2>2, <2>3
<1>7. a = k
  <2>1. ~ (a < k) /\ ~ (k < a)
    BY <1>1, <1>5, <1>6
  <2> QED
    BY <1>1, <2>1
<1> QED
  BY <1>4, <1>7

LEMMA CanConvertTells ==
  ASSUME Length \in Nat, NEW a \in 0 .. Length - 1, NEW b \in 0 .. Length - 1
  PROVE  a * Length + b \in MakeTable[<<0, 0>>] <=> Conversion(TypeAt(a), TypeAt(b))
<1>1. a * Length + b \in Nat
  OBVIOUS
<1>2. MakeTable[<<0, 0>>] = SetFrom(0, 0)
  BY TableIsConversions
<1>3. ASSUME a * Length + b \in SetFrom(0, 0) PROVE Conversion(TypeAt(a), TypeAt(b))
  <2>1. PICK k \in 0 .. Length - 1, m \in 0 .. Length - 1 :
          Conversion(TypeAt(k), TypeAt(m)) /\ a * Length + b = k * Length + m
    BY <1>3, Zenon DEF SetFrom
  <2>2. a = k /\ b = m
    BY <2>1, CellsDiffer
  <2> QED
    BY <2>1, <2>2
<1>4. ASSUME Conversion(TypeAt(a), TypeAt(b)) PROVE a * Length + b \in SetFrom(0, 0)
  <2>1. a > 0 \/ (a = 0 /\ b >= 0)
    OBVIOUS
  <2> QED
    BY <1>1, <1>4, <2>1, Zenon DEF SetFrom
<1> QED
  BY <1>2, <1>3, <1>4

LEMMA ListsGiveBases == TL \in Seq(Types) => CastsToBases
<1> SUFFICES ASSUME TL \in Seq(Types), NEW ptr \in Listed \cup {NullPtr}, NEW to \in Listed
             PROVE  CanCast(ptr, to) <=> ptr # NullPtr /\ to \in Bases(ptr)
  BY DEF CastsToBases
<1>1. CASE ptr = NullPtr
  BY <1>1 DEF CanCast
<1>2. CASE ptr # NullPtr
  <2> DEFINE a == IndexOf(ptr)
             b == IndexOf(to)
  <2>1. Length \in Nat /\ Listed \subseteq Types
    BY DEF Length, Listed
  <2>2. a \in 0 .. Length - 1 /\ TypeAt(a) = ptr /\ b \in 0 .. Length - 1 /\ TypeAt(b) = to
    BY <1>2, <2>1, IndexOfFinds
  <2>3. CanCast(ptr, to) <=> a * Length + b \in MakeTable[<<0, 0>>]
    BY <1>2 DEF CanCast, CanConvert, TypeID
  <2> HIDE DEF a, b
  <2>4. CanCast(ptr, to) <=> Conversion(TypeAt(a), TypeAt(b))
    BY <2>1, <2>2, <2>3, CanConvertTells
  <2> QED
    BY <1>2, <2>2, <2>4 DEF Conversion
<1> QED
  BY <1>1, <1>2

(* TypeCast and CanCast are right for every list of any length over every  *)
(* set of classes, however they are derived from each other.               *)
THEOREM CastsToBasesHolds == SequentialSpec => []CastsToBases
<1>1. SequentialInit => TL \in Seq(Types)
  BY EmptySeq DEF SequentialInit, TypeInit
<1>2. TL \in Seq(Types) /\ [SequentialNext]_sequentialVars => (TL \in Seq(Types))'
  <2> SUFFICES ASSUME TL \in Seq(Types), [SequentialNext]_sequentialVars
               PROVE  TL' \in Seq(Types)
    OBVIOUS
  <2>1. ASSUME NEW list \in Lists, NEW derived \in Hierarchies, DeclareTL(list, derived)
        PROVE  TL' \in Seq(Types)
    <3>1. TL' = list
      BY <2>1 DEF DeclareTL
    <3>2. PICK n \in 1 .. Cardinality(Types) : list \in [1 .. n -> Types]
      BY DEF Lists
    <3>3. n \in Nat
      OBVIOUS
    <3>4. list \in UNION {[1 .. m -> Types] : m \in Nat}
      BY <3>2, <3>3
    <3> QED
      BY <3>1, <3>4, SeqDef
  <2>2. CASE TL' = TL
    BY <2>2
  <2> QED
    BY <2>1, <2>2 DEF SequentialNext, sequentialVars, castVars
<1> QED
  BY <1>1, <1>2, ListsGiveBases, PTL DEF SequentialSpec
=============================================================================
