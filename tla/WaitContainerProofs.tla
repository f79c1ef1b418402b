------------------------ MODULE WaitContainerProofs ------------------------
(***************************************************************************)
(* Proofs about LockStack and LockQueue, for any number of threads and of  *)
(* values.                                                                 *)
(***************************************************************************)
EXTENDS MCParts, FiniteSetTheorems, SequenceTheorems, TLAPS

(* Every value pushed is in the container or was popped.                   *)
Counted == Len(popped) + Len(items) = pushed

(* Where the values of a queue are, one by one.                            *)
Numbered ==
  kind = "queue" =>
    /\ \A i \in 1 .. Len(popped) : popped[i] = i
    /\ \A i \in 1 .. Len(items) : items[i] = Len(popped) + i

IInv == ContainerTypeOK /\ Counted /\ Numbered /\ NoLostWakeup

(* Where each value is: nothing else was popped or is to be popped.        *)
Accounted ==
  /\ \A i \in 1 .. Len(popped) : popped[i] \in 1 .. pushed
  /\ \A i \in 1 .. Len(items) : items[i] \in 1 .. pushed
  /\ \A v \in 1 .. pushed : \/ \E i \in 1 .. Len(popped) : popped[i] = v
                            \/ \E i \in 1 .. Len(items) : items[i] = v

-----------------------------------------------------------------------------
(* Take moves the first value to the end of popped.                        *)
LEMMA TakeMoves ==
  ASSUME ContainerTypeOK, Counted, Numbered, items # <<>>, Take
  PROVE  /\ items' \in Seq(1 .. MaxPushes)
         /\ popped' \in Seq(1 .. MaxPushes)
         /\ Len(items') = Len(items) - 1
         /\ Len(popped') = Len(popped) + 1
         /\ kind = "queue" =>
              /\ \A i \in 1 .. Len(popped') : popped'[i] = i
              /\ \A i \in 1 .. Len(items') : items'[i] = Len(popped') + i
<1>1. /\ items \in Seq(1 .. MaxPushes)
      /\ popped \in Seq(1 .. MaxPushes)
  BY DEF ContainerTypeOK
<1>2. /\ Head(items) \in 1 .. MaxPushes
      /\ Head(items) = items[1]
      /\ Tail(items) \in Seq(1 .. MaxPushes)
      /\ Len(Tail(items)) = Len(items) - 1
      /\ \A i \in 1 .. Len(Tail(items)) : Tail(items)[i] = items[i + 1]
  <2>1. /\ Head(items) \in 1 .. MaxPushes
        /\ Tail(items) \in Seq(1 .. MaxPushes)
        /\ Len(Tail(items)) = Len(items) - 1
        /\ \A i \in 1 .. Len(Tail(items)) : Tail(items)[i] = items[i + 1]
    BY <1>1, HeadTailProperties, Zenon
  <2>2. Head(items) = items[1]
    BY <1>1
  <2> QED
    BY <2>1, <2>2
<1>3. /\ Append(popped, Head(items)) \in Seq(1 .. MaxPushes)
      /\ Len(Append(popped, Head(items))) = Len(popped) + 1
      /\ \A i \in 1 .. Len(popped) : Append(popped, Head(items))[i] = popped[i]
      /\ Append(popped, Head(items))[Len(popped) + 1] = Head(items)
  BY <1>1, <1>2, AppendProperties
<1>4. /\ items' = Tail(items)
      /\ popped' = Append(popped, Head(items))
  BY DEF Take
<1>5. Len(items) \in Nat \ {0} /\ Len(popped) \in Nat
  BY <1>1, EmptySeq, LenProperties
<1>6. ASSUME kind = "queue"
      PROVE  /\ \A i \in 1 .. Len(popped') : popped'[i] = i
             /\ \A i \in 1 .. Len(items') : items'[i] = Len(popped') + i
  <2>1. items[1] = Len(popped) + 1
    BY <1>5, <1>6 DEF Numbered
  <2>2. \A i \in 1 .. Len(popped') : popped'[i] = i
    BY <1>2, <1>3, <1>4, <1>5, <1>6, <2>1 DEF Numbered
  <2>3. \A i \in 1 .. Len(items') : items'[i] = Len(popped') + i
    BY <1>2, <1>3, <1>4, <1>5, <1>6 DEF Numbered
  <2> QED
    BY <2>2, <2>3
<1> QED
  BY <1>2, <1>3, <1>4, <1>6

(* The number of threads on their way, as threads join and leave them.     *)
LEMMA AwakeCounts ==
  ASSUME WaitContainerAssumption, ContainerTypeOK
  PROVE  /\ Cardinality(awake) \in Nat
         /\ \A t \in awake : Cardinality(awake \ {t}) = Cardinality(awake) - 1
         /\ \A t \in waiting :
              t \notin awake => Cardinality(awake \cup {t}) = Cardinality(awake) + 1
<1>1. IsFiniteSet(awake)
  BY FS_Subset DEF WaitContainerAssumption, ContainerTypeOK
<1>2. Cardinality(awake) \in Nat
  BY <1>1, FS_CardinalityType
<1>3. \A t \in awake : Cardinality(awake \ {t}) = Cardinality(awake) - 1
  BY <1>1, FS_RemoveElement
<1>4. \A t \in waiting :
        t \notin awake => Cardinality(awake \cup {t}) = Cardinality(awake) + 1
  BY <1>1, FS_AddElement
<1> QED
  BY <1>2, <1>3, <1>4

(* The invariant holds at first.                                           *)
LEMMA InitIInv ==
  ASSUME WaitContainerAssumption, ContainerInit
  PROVE  IInv
BY EmptySeq, FS_EmptySet
   DEF ContainerInit, IInv, ContainerTypeOK, Counted, Numbered, NoLostWakeup,
       WaitContainerAssumption

-----------------------------------------------------------------------------
(* One lemma per action                                                    *)

(* Push: one more value, and one more thread on its way if any sleeps.     *)
LEMMA PushKeepsIInv ==
  ASSUME WaitContainerAssumption, IInv, Push
  PROVE  IInv'
<1> DEFINE value == pushed + 1
<1>1. /\ items \in Seq(1 .. MaxPushes)
      /\ popped \in Seq(1 .. MaxPushes)
      /\ pushed \in 0 .. MaxPushes
      /\ waiting \subseteq Poppers
      /\ awake \subseteq Poppers
      /\ MaxPushes \in Nat
  BY DEF IInv, ContainerTypeOK, WaitContainerAssumption
<1>2. /\ pushed' = value
      /\ value \in 1 .. MaxPushes
      /\ popped' = popped
      /\ kind' = kind
      /\ items' = Place(value)
  BY <1>1 DEF Push
<1>3. /\ Place(value) \in Seq(1 .. MaxPushes)
      /\ Len(Place(value)) = Len(items) + 1
  <2>1. CASE kind = "stack"
    <3>1. <<value>> \in Seq(1 .. MaxPushes) /\ Len(<<value>>) = 1
      BY <1>2
    <3> QED
      BY <1>1, <2>1, <3>1, ConcatProperties DEF Place
  <2>2. CASE kind # "stack"
    BY <1>1, <1>2, <2>2, AppendProperties DEF Place
  <2> QED
    BY <2>1, <2>2
<1>4. Len(items) \in Nat /\ Len(popped) \in Nat
  BY <1>1, LenProperties
<1>5. Len(popped) + Len(items) = pushed
  BY DEF IInv, Counted
<1>6. Counted'
  BY <1>1, <1>2, <1>3, <1>4, <1>5 DEF Counted
<1>7. Numbered'
  <2> SUFFICES ASSUME kind = "queue"
               PROVE  /\ \A i \in 1 .. Len(popped) : popped[i] = i
                      /\ \A i \in 1 .. Len(Place(value)) :
                           Place(value)[i] = Len(popped) + i
    BY <1>2 DEF Numbered
  <2>1. /\ Place(value) = Append(items, value)
        /\ \A i \in 1 .. Len(items) : Append(items, value)[i] = items[i]
        /\ Append(items, value)[Len(items) + 1] = value
    BY <1>1, <1>2, AppendProperties DEF Place
  <2>2. /\ \A i \in 1 .. Len(popped) : popped[i] = i
        /\ \A i \in 1 .. Len(items) : items[i] = Len(popped) + i
    BY DEF IInv, Numbered
  <2>3. \A i \in 1 .. Len(items) + 1 : Append(items, value)[i] = Len(popped) + i
    <3> SUFFICES ASSUME NEW i \in 1 .. Len(items) + 1
                 PROVE  Append(items, value)[i] = Len(popped) + i
      OBVIOUS
    <3>1. value = Len(popped) + (Len(items) + 1)
      BY <1>4, <1>5
    <3>2. CASE i = Len(items) + 1
      BY <2>1, <3>1, <3>2
    <3>3. CASE i \in 1 .. Len(items)
      BY <2>1, <2>2, <3>3
    <3> QED
      BY <1>4, <3>2, <3>3
  <2> QED
    BY <1>3, <2>1, <2>2, <2>3
<1>8. CASE waiting = {}
  <2>1. waiting' = waiting /\ awake' = awake
    BY <1>8 DEF Push, NotifyOne
  <2> QED
    BY <1>1, <1>2, <1>3, <1>4, <1>5, <1>6, <1>7, <1>8, <2>1
       DEF IInv, ContainerTypeOK, NoLostWakeup
<1>9. CASE waiting # {}
  <2>1. PICK t \in waiting :
          waiting' = waiting \ {t} /\ awake' = awake \cup {t}
    BY <1>9 DEF Push, NotifyOne
  <2>2. /\ t \notin awake
        /\ waiting \cap awake = {}
        /\ Len(items) <= Cardinality(awake)
    BY <1>9, <2>1 DEF IInv, NoLostWakeup
  <2>3. /\ Cardinality(awake) \in Nat
        /\ Cardinality(awake') = Cardinality(awake) + 1
    BY <2>1, <2>2, AwakeCounts DEF IInv
  <2>4. waiting' \cap awake' = {}
    BY <2>1, <2>2
  <2>5. Len(items') <= Cardinality(awake')
    BY <1>2, <1>3, <1>4, <2>2, <2>3
  <2>6. ContainerTypeOK'
    BY <1>1, <1>2, <1>3, <1>4, <1>5, <2>1 DEF IInv, ContainerTypeOK
  <2> QED
    BY <1>6, <1>7, <2>4, <2>5, <2>6 DEF IInv, NoLostWakeup
<1> QED
  BY <1>8, <1>9

(* A thread that takes a value without having slept.                       *)
LEMMA TakeKeepsIInv ==
  ASSUME WaitContainerAssumption, IInv, items # <<>>, Take,
         UNCHANGED <<kind, pushed, waiting, awake>>
  PROVE  IInv'
<1>1. /\ items' \in Seq(1 .. MaxPushes)
      /\ popped' \in Seq(1 .. MaxPushes)
      /\ Len(items') = Len(items) - 1
      /\ Len(popped') = Len(popped) + 1
      /\ Numbered'
  BY TakeMoves DEF IInv, Numbered
<1>2. Len(items) \in Nat /\ Len(popped) \in Nat /\ Len(items') \in Nat
  BY <1>1, LenProperties DEF IInv, ContainerTypeOK
<1>3. Cardinality(awake) \in Nat
  BY AwakeCounts DEF IInv
<1>4. Counted'
  BY <1>1, <1>2 DEF IInv, Counted
<1>5. ContainerTypeOK'
  BY <1>1, <1>2 DEF IInv, ContainerTypeOK, Counted
<1>6. NoLostWakeup'
  BY <1>1, <1>2, <1>3 DEF IInv, NoLostWakeup
<1> QED
  BY <1>1, <1>4, <1>5, <1>6 DEF IInv

(* A thread that finds nothing goes to sleep.                              *)
LEMMA WaitPopKeepsIInv ==
  ASSUME WaitContainerAssumption, IInv, NEW t \in Poppers, WaitPop(t)
  PROVE  IInv'
<1>1. CASE items # <<>>
  BY <1>1, TakeKeepsIInv DEF WaitPop
<1>2. CASE items = <<>>
  <2>1. /\ t \notin waiting \cup awake
        /\ waiting' = waiting \cup {t}
        /\ UNCHANGED <<kind, items, pushed, popped, awake>>
    BY <1>2 DEF WaitPop
  <2>2. Len(items) = 0
    BY <1>2
  <2>3. Cardinality(awake) \in Nat
    BY AwakeCounts DEF IInv
  <2>4. ContainerTypeOK' /\ Counted' /\ Numbered'
    BY <2>1 DEF IInv, ContainerTypeOK, Counted, Numbered
  <2>5. NoLostWakeup'
    BY <2>1, <2>2, <2>3 DEF IInv, NoLostWakeup
  <2> QED
    BY <2>4, <2>5 DEF IInv
<1> QED
  BY <1>1, <1>2

(* A thread that wakes for no reason only adds to those on their way.      *)
LEMMA WakeSpuriouslyKeepsIInv ==
  ASSUME WaitContainerAssumption, IInv, NEW t \in Poppers, WakeSpuriously(t)
  PROVE  IInv'
<1>1. /\ t \in waiting
      /\ waiting' = waiting \ {t}
      /\ awake' = awake \cup {t}
      /\ UNCHANGED <<kind, items, pushed, popped>>
  BY DEF WakeSpuriously
<1>2. /\ waiting \cap awake = {}
      /\ Len(items) <= Cardinality(awake)
  BY <1>1 DEF IInv, NoLostWakeup
<1>3. /\ Cardinality(awake) \in Nat
      /\ Cardinality(awake') = Cardinality(awake) + 1
  BY <1>1, <1>2, AwakeCounts DEF IInv
<1>4. Len(items) \in Nat
  BY LenProperties DEF IInv, ContainerTypeOK
<1>5. ContainerTypeOK' /\ Counted' /\ Numbered'
  BY <1>1 DEF IInv, ContainerTypeOK, Counted, Numbered
<1>6. NoLostWakeup'
  BY <1>1, <1>2, <1>3, <1>4 DEF NoLostWakeup
<1> QED
  BY <1>5, <1>6 DEF IInv

(* A thread that was woken takes a value with it, or there is none.        *)
LEMMA RecheckKeepsIInv ==
  ASSUME WaitContainerAssumption, IInv, NEW t \in Poppers, Recheck(t)
  PROVE  IInv'
<1>1. /\ t \in awake
      /\ awake' = awake \ {t}
      /\ pushed' = pushed /\ kind' = kind
      /\ Cardinality(awake) \in Nat
      /\ Cardinality(awake') = Cardinality(awake) - 1
  BY AwakeCounts DEF Recheck, IInv
<1>2. waiting \cap awake = {}
  BY DEF IInv, NoLostWakeup
<1>3. CASE items = <<>>
  <2>1. /\ waiting' = waiting \cup {t}
        /\ UNCHANGED <<items, popped>>
    BY <1>3 DEF Recheck
  <2>2. Len(items) = 0
    BY <1>3
  <2>3. Cardinality(awake') \in Nat
    <3>1. IsFiniteSet(awake')
      BY <1>1, FS_Subset DEF IInv, ContainerTypeOK, WaitContainerAssumption
    <3> QED
      BY <3>1, FS_CardinalityType
  <2>4. ContainerTypeOK' /\ Counted' /\ Numbered'
    BY <1>1, <2>1 DEF IInv, ContainerTypeOK, Counted, Numbered
  <2>5. NoLostWakeup'
    BY <1>1, <1>2, <2>1, <2>2, <2>3 DEF NoLostWakeup
  <2> QED
    BY <2>4, <2>5 DEF IInv
<1>4. CASE items # <<>>
  <2>1. Take /\ waiting' = waiting
    BY <1>4 DEF Recheck
  <2>2. /\ items' \in Seq(1 .. MaxPushes)
        /\ popped' \in Seq(1 .. MaxPushes)
        /\ Len(items') = Len(items) - 1
        /\ Len(popped') = Len(popped) + 1
        /\ Numbered'
    BY <1>1, <1>4, <2>1, TakeMoves DEF IInv, Numbered
  <2>3. Len(items) \in Nat /\ Len(popped) \in Nat /\ Len(items') \in Nat
    BY <2>2, LenProperties DEF IInv, ContainerTypeOK
  <2>4. Counted'
    BY <1>1, <2>2, <2>3 DEF IInv, Counted
  <2>5. ContainerTypeOK'
    BY <1>1, <2>1, <2>2, <2>3 DEF IInv, ContainerTypeOK, Counted
  <2>6. NoLostWakeup'
    <3>1. waiting' \cap awake' = {}
      BY <1>1, <1>2, <2>1
    <3>2. waiting # {} => Len(items) <= Cardinality(awake)
      BY DEF IInv, NoLostWakeup
    <3>3. waiting' # {} => Len(items') <= Cardinality(awake')
      BY <1>1, <2>1, <2>2, <2>3, <3>2
    <3> QED
      BY <3>1, <3>3 DEF NoLostWakeup
  <2> QED
    BY <2>2, <2>4, <2>5, <2>6 DEF IInv
<1> QED
  BY <1>3, <1>4

(* No step of the container leaves the invariant.                          *)
LEMMA NextKeepsIInv ==
  ASSUME WaitContainerAssumption, IInv, [ContainerNext]_containerVars
  PROVE  IInv'
<1>1. CASE Push
  BY <1>1, PushKeepsIInv
<1>2. ASSUME NEW t \in Poppers, TryPop(t)
      PROVE  IInv'
  BY <1>2, TakeKeepsIInv DEF TryPop
<1>3. ASSUME NEW t \in Poppers, WaitPop(t)
      PROVE  IInv'
  BY <1>3, WaitPopKeepsIInv
<1>4. ASSUME NEW t \in Poppers, WakeSpuriously(t)
      PROVE  IInv'
  BY <1>4, WakeSpuriouslyKeepsIInv
<1>5. ASSUME NEW t \in Poppers, Recheck(t)
      PROVE  IInv'
  BY <1>5, RecheckKeepsIInv
<1>6. CASE UNCHANGED containerVars
  BY <1>6 DEF containerVars, IInv, ContainerTypeOK, Counted, Numbered, NoLostWakeup
<1> QED
  BY <1>1, <1>2, <1>3, <1>4, <1>5, <1>6 DEF ContainerNext

-----------------------------------------------------------------------------
(* The value taken is found among those popped.                            *)
LEMMA TakeAccounts ==
  ASSUME ContainerTypeOK, Accounted, items # <<>>, Take, pushed' = pushed
  PROVE  Accounted'
<1>1. /\ items \in Seq(1 .. MaxPushes)
      /\ popped \in Seq(1 .. MaxPushes)
  BY DEF ContainerTypeOK
<1>2. /\ Head(items) \in 1 .. MaxPushes
      /\ Len(Tail(items)) = Len(items) - 1
      /\ \A i \in 1 .. Len(Tail(items)) : Tail(items)[i] = items[i + 1]
  BY <1>1, HeadTailProperties, Zenon
<1>3. Head(items) = items[1]
  BY <1>1
<1>4. /\ Len(Append(popped, Head(items))) = Len(popped) + 1
      /\ \A i \in 1 .. Len(popped) : Append(popped, Head(items))[i] = popped[i]
      /\ Append(popped, Head(items))[Len(popped) + 1] = Head(items)
  BY <1>1, <1>2, AppendProperties
<1>5. /\ items' = Tail(items)
      /\ popped' = Append(popped, Head(items))
  BY DEF Take
<1>6. Len(items) \in Nat \ {0} /\ Len(popped) \in Nat
  BY <1>1, EmptySeq, LenProperties
<1>7. /\ Len(popped') = Len(popped) + 1
      /\ \A i \in 1 .. Len(popped) : popped'[i] = popped[i]
      /\ popped'[Len(popped) + 1] = items[1]
      /\ Len(items') = Len(items) - 1
      /\ \A i \in 1 .. Len(items) - 1 : items'[i] = items[i + 1]
  BY <1>2, <1>3, <1>4, <1>5
<1>8. ASSUME NEW i \in 1 .. Len(popped) + 1
      PROVE  popped'[i] \in 1 .. pushed
  <2>1. CASE i \in 1 .. Len(popped)
    BY <1>7, <2>1 DEF Accounted
  <2>2. CASE i = Len(popped) + 1
    BY <1>6, <1>7, <2>2 DEF Accounted
  <2> QED
    BY <1>6, <2>1, <2>2
<1>9. ASSUME NEW i \in 1 .. Len(items) - 1
      PROVE  items'[i] \in 1 .. pushed
  <2>1. i + 1 \in 1 .. Len(items)
    BY <1>6
  <2> QED
    BY <1>7, <2>1 DEF Accounted
<1>10. ASSUME NEW v \in 1 .. pushed
       PROVE  \/ \E i \in 1 .. Len(popped') : popped'[i] = v
              \/ \E i \in 1 .. Len(items') : items'[i] = v
  <2>1. CASE \E i \in 1 .. Len(popped) : popped[i] = v
    BY <1>6, <1>7, <2>1
  <2>2. CASE \E i \in 1 .. Len(items) : items[i] = v
    <3>1. PICK i \in 1 .. Len(items) : items[i] = v
      BY <2>2
    <3>2. CASE i = 1
      BY <1>6, <1>7, <3>1, <3>2
    <3>3. CASE i # 1
      <4>1. i - 1 \in 1 .. Len(items') /\ items'[i - 1] = items[(i - 1) + 1]
        BY <1>6, <1>7, <3>1, <3>3
      <4> QED
        BY <3>1, <4>1
    <3> QED
      BY <3>2, <3>3
  <2> QED
    BY <2>1, <2>2 DEF Accounted
<1> QED
  BY <1>7, <1>8, <1>9, <1>10 DEF Accounted

(* The value pushed is found in the container.                             *)
LEMMA PushAccounts ==
  ASSUME WaitContainerAssumption, ContainerTypeOK, Accounted, Push
  PROVE  Accounted'
<1> DEFINE value == pushed + 1
<1>1. /\ items \in Seq(1 .. MaxPushes)
      /\ pushed \in Nat
      /\ value \in 1 .. MaxPushes
      /\ pushed' = value
      /\ popped' = popped
      /\ items' = Place(value)
  BY DEF Push, ContainerTypeOK, WaitContainerAssumption
<1>2. Len(items) \in Nat
  BY <1>1, LenProperties
<1>3. Len(Place(value)) = Len(items) + 1
  <2>1. CASE kind = "stack"
    <3>1. <<value>> \in Seq(1 .. MaxPushes) /\ Len(<<value>>) = 1
      BY <1>1
    <3> QED
      BY <1>1, <2>1, <3>1, ConcatProperties DEF Place
  <2>2. CASE kind # "stack"
    BY <1>1, <2>2, AppendProperties DEF Place
  <2> QED
    BY <2>1, <2>2
<1>4. PICK new \in 1 .. Len(items) + 1 :
        /\ Place(value)[new] = value
        /\ \A i \in 1 .. Len(items) + 1 :
             i # new => \E j \in 1 .. Len(items) : Place(value)[i] = items[j]
        /\ \A j \in 1 .. Len(items) :
             \E i \in 1 .. Len(items) + 1 : Place(value)[i] = items[j]
  <2>1. CASE kind = "stack"
    <3>1. /\ <<value>> \in Seq(1 .. MaxPushes) /\ Len(<<value>>) = 1
          /\ <<value>>[1] = value
      BY <1>1
    <3>2. \A i \in 1 .. 1 + Len(items) :
            Place(value)[i] = IF i <= 1 THEN <<value>>[i] ELSE items[i - 1]
      BY <1>1, <2>1, <3>1, ConcatProperties DEF Place
    <3>3. Place(value)[1] = value
      BY <1>2, <3>1, <3>2
    <3>4. \A i \in 1 .. Len(items) + 1 :
            i # 1 => \E j \in 1 .. Len(items) : Place(value)[i] = items[j]
      BY <1>2, <3>2
    <3>5. ASSUME NEW j \in 1 .. Len(items)
          PROVE  \E i \in 1 .. Len(items) + 1 : Place(value)[i] = items[j]
      <4>1. /\ j + 1 \in 1 .. 1 + Len(items) /\ ~ (j + 1 <= 1)
            /\ (j + 1) - 1 = j
        BY <1>2
      <4>2. Place(value)[j + 1] = items[j]
        BY <3>2, <4>1
      <4> QED
        BY <4>1, <4>2
    <3> QED
      BY <1>2, <3>3, <3>4, <3>5
  <2>2. CASE kind # "stack"
    <3>1. /\ \A i \in 1 .. Len(items) : Place(value)[i] = items[i]
          /\ Place(value)[Len(items) + 1] = value
      BY <1>1, <2>2, AppendProperties DEF Place
    <3> QED
      BY <1>2, <3>1
  <2> QED
    BY <2>1, <2>2
<1>5. \A i \in 1 .. Len(popped) : popped[i] \in 1 .. value
  BY <1>1 DEF Accounted
<1>6. ASSUME NEW i \in 1 .. Len(items) + 1 PROVE Place(value)[i] \in 1 .. value
  <2>1. value \in 1 .. value /\ \A v \in 1 .. pushed : v \in 1 .. value
    BY <1>1
  <2>2. CASE i = new
    BY <1>4, <2>1, <2>2
  <2>3. CASE i # new
    <3>1. PICK j \in 1 .. Len(items) : Place(value)[i] = items[j]
      BY <1>4, <2>3
    <3>2. items[j] \in 1 .. pushed
      BY DEF Accounted
    <3> QED
      BY <2>1, <3>1, <3>2
  <2> QED
    BY <2>2, <2>3
<1>7. ASSUME NEW v \in 1 .. value
      PROVE  \/ \E i \in 1 .. Len(popped) : popped[i] = v
             \/ \E i \in 1 .. Len(items) + 1 : Place(value)[i] = v
  <2>1. CASE v = value
    BY <1>4, <2>1
  <2>2. CASE v \in 1 .. pushed
    <3>1. CASE \E i \in 1 .. Len(popped) : popped[i] = v
      BY <3>1
    <3>2. CASE \E j \in 1 .. Len(items) : items[j] = v
      <4>1. PICK j \in 1 .. Len(items) : items[j] = v
        BY <3>2
      <4>2. \E i \in 1 .. Len(items) + 1 : Place(value)[i] = items[j]
        BY <1>4
      <4> QED
        BY <4>1, <4>2
    <3> QED
      BY <2>2, <3>1, <3>2 DEF Accounted
  <2> QED
    BY <1>1, <2>1, <2>2
<1> QED
  BY <1>1, <1>3, <1>5, <1>6, <1>7 DEF Accounted

(* No step loses a value or makes one up.                                  *)
LEMMA NextAccounts ==
  ASSUME WaitContainerAssumption, IInv, Accounted, [ContainerNext]_containerVars
  PROVE  Accounted'
<1>1. CASE Push
  BY <1>1, PushAccounts DEF IInv
<1>2. CASE UNCHANGED <<items, popped, pushed>>
  BY <1>2 DEF Accounted
<1>3. CASE items # <<>> /\ Take /\ UNCHANGED pushed
  BY <1>3, TakeAccounts DEF IInv
<1>4. \A t \in Poppers :
        TryPop(t) \/ WaitPop(t) \/ WakeSpuriously(t) \/ Recheck(t) =>
          \/ UNCHANGED <<items, popped, pushed>>
          \/ items # <<>> /\ Take /\ UNCHANGED pushed
  BY DEF TryPop, WaitPop, WakeSpuriously, Recheck
<1> QED
  BY <1>1, <1>2, <1>3, <1>4 DEF ContainerNext, containerVars

-----------------------------------------------------------------------------
(* Theorems                                                                *)

(* The invariant that carries the rest: every value is accounted for, a    *)
(* queue's values lie in order, and no more values wait than threads are   *)
(* on their way while anyone sleeps.                                       *)
THEOREM Invariance == ContainerSpec => []IInv
<1>1. ContainerInit => IInv
  BY InitIInv, WaitContainerAssumption
<1>2. IInv /\ [ContainerNext]_containerVars => IInv'
  BY NextKeepsIInv, WaitContainerAssumption
<1> QED
  BY <1>1, <1>2, PTL DEF ContainerSpec

(* WaitPop never misses the notify_one of a Push, whatever TryPop steals   *)
(* and however often threads wake for no reason.                           *)
THEOREM NoLostWakeupHolds == ContainerSpec => []NoLostWakeup
<1>1. IInv => NoLostWakeup
  BY DEF IInv
<1> QED
  BY <1>1, Invariance, PTL

(* Every value is given out once, by a stack and by a queue, and LockQueue *)
(* is first in, first out, for any number of threads that pop.             *)
THEOREM GivenOutOnceHolds == ContainerSpec => []GivenOutOnce
<1>1. ContainerInit => Accounted
  BY EmptySeq DEF ContainerInit, Accounted
<1>2. IInv /\ Accounted /\ [ContainerNext]_containerVars => Accounted'
  BY NextAccounts, WaitContainerAssumption
<1>3. ASSUME IInv, Accounted PROVE GivenOutOnce
  <2> DEFINE all == popped \o items
  <2>1. /\ items \in Seq(1 .. MaxPushes)
        /\ popped \in Seq(1 .. MaxPushes)
        /\ pushed \in Nat
        /\ Len(popped) + Len(items) = pushed
    BY <1>3, WaitContainerAssumption
       DEF IInv, ContainerTypeOK, Counted, WaitContainerAssumption
  <2>2. Len(items) \in Nat /\ Len(popped) \in Nat
    BY <2>1, LenProperties
  <2>3. /\ Len(all) = pushed
        /\ \A i \in 1 .. pushed :
             all[i] = IF i <= Len(popped) THEN popped[i]
                      ELSE items[i - Len(popped)]
    BY <2>1, ConcatProperties
  <2>4. ASSUME NEW i \in 1 .. pushed
        PROVE  all[i] \in 1 .. pushed
    BY <1>3, <2>1, <2>2, <2>3 DEF Accounted
  <2>5. ASSUME NEW v \in 1 .. pushed
        PROVE  \E i \in 1 .. pushed : all[i] = v
    <3>1. CASE \E i \in 1 .. Len(popped) : popped[i] = v
      BY <2>1, <2>2, <2>3, <3>1
    <3>2. CASE \E i \in 1 .. Len(items) : items[i] = v
      <4>1. PICK i \in 1 .. Len(items) : items[i] = v
        BY <3>2
      <4>2. /\ Len(popped) + i \in 1 .. pushed
            /\ ~ (Len(popped) + i <= Len(popped))
            /\ (Len(popped) + i) - Len(popped) = i
        BY <2>1, <2>2
      <4>3. all[Len(popped) + i] = v
        BY <2>3, <4>1, <4>2
      <4> QED
        BY <4>2, <4>3
    <3> QED
      BY <1>3, <3>1, <3>2 DEF Accounted
  <2>6. ASSUME kind = "queue", NEW i \in 1 .. pushed
        PROVE  all[i] = i
    BY <1>3, <2>1, <2>2, <2>3, <2>6 DEF IInv, Numbered
  <2>7. {all[i] : i \in 1 .. pushed} = 1 .. pushed
    BY <2>4, <2>5
  <2> QED
    BY <2>3, <2>6, <2>7 DEF GivenOutOnce
<1> QED
  BY <1>1, <1>2, <1>3, Invariance, PTL DEF ContainerSpec

(* Every variable keeps its type.                                          *)
THEOREM TypeCorrect == ContainerSpec => []ContainerTypeOK
<1>1. IInv => ContainerTypeOK
  BY DEF IInv
<1> QED
  BY <1>1, Invariance, PTL
-----------------------------------------------------------------------------
(* A behaviour of MCParts is one of the pools, of the container and of     *)
(* MCSequential, so that what is proved of each of them holds in the run.  *)
THEOREM PartsAreApart == PartsSpec => Spec /\ ContainerSpec /\ SequentialSpec
<1>1. PartsInit => Init /\ ContainerInit /\ SequentialInit
  BY DEF PartsInit
<1>2. [PartsNext]_partsVars =>
        [Next]_vars /\ [ContainerNext]_containerVars /\ [SequentialNext]_sequentialVars
  BY DEF PartsNext, partsVars
<1> QED
  BY <1>1, <1>2, PTL DEF PartsSpec, Spec, ContainerSpec, SequentialSpec
=============================================================================
