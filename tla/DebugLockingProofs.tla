------------------------- MODULE DebugLockingProofs -------------------------
(***************************************************************************)
(* What the lock profiler promises holds for any number of threads, locks  *)
(* and classes: each thread's LLockStack is its guards, a running process  *)
(* has one order of its locks, and a circle of waiting threads is one      *)
(* within a class.                                                         *)
(***************************************************************************)
EXTENDS DebugLocking, CycleSearchProofs, SequenceTheorems

-----------------------------------------------------------------------------
(* Ids                                                                     *)

Named(ids) == {n \in Names : ids[n] # NoId}

(* Names have the ids 0, 1, ... in the order they are met, one each.       *)
IdsAreDense(ids) ==
  /\ ids \in [Names -> {NoId} \cup Ids]
  /\ {ids[n] : n \in Names} \ {NoId} = 0 .. LockCount(ids) - 1
  /\ \A m, n \in Names : ids[m] = ids[n] => m = n \/ ids[m] = NoId

LEMMA LockCountIsNat ==
  ASSUME NEW ids
  PROVE  /\ LockCount(ids) \in 0 .. LockMax
         /\ IsFiniteSet(Named(ids)) /\ LockCount(ids) = Cardinality(Named(ids))
<1>1. Named(ids) \subseteq Names
  BY DEF Named
<1>2. IsFiniteSet(Named(ids)) /\ Cardinality(Named(ids)) <= LockMax
  BY <1>1, NamesAssumption, FS_Subset DEF LockMax
<1>3. LockCount(ids) = Cardinality(Named(ids))
  BY DEF LockCount, Named
<1> QED
  BY <1>2, <1>3, FS_CardinalityType, LockMaxIsNat

(* PushLock gives a name that has no id the next one.                      *)
LEMMA IssueIsDense ==
  ASSUME NEW ids, IdsAreDense(ids), NEW name \in Names, ids[name] = NoId,
         NEW more, more = [ids EXCEPT ![name] = LockCount(ids)]
  PROVE  /\ LockCount(ids) \in Ids
         /\ LockCount(more) = LockCount(ids) + 1
         /\ IdsAreDense(more)
<1> DEFINE k == LockCount(ids)
<1>1. k \in Nat /\ k <= LockMax /\ IsFiniteSet(Named(ids)) /\ k = Cardinality(Named(ids))
  BY LockCountIsNat, LockMaxIsNat
<1>2. name \notin Named(ids)
  BY DEF Named
<1>3. k # NoId
  BY <1>1 DEF NoId
<1>4. /\ more[name] = k
      /\ \A n \in Names : n # name => more[n] = ids[n]
  BY DEF IdsAreDense
<1> HIDE DEF k
<1>5. Named(more) = Named(ids) \cup {name}
  BY <1>3, <1>4 DEF Named
<1>6. LockCount(more) = k + 1
  <2>1. Cardinality(Named(ids) \cup {name}) = k + 1
    BY <1>1, <1>2, FS_AddElement
  <2> QED
    BY <1>5, <2>1, LockCountIsNat
<1>7. k < LockMax
  <2>1. k + 1 \in 0 .. LockMax
    BY <1>6, LockCountIsNat
  <2> QED
    BY <1>1, <2>1, LockMaxIsNat
<1>8. k \in Ids
  BY <1>1, <1>7, IdsAre
<1>9. more \in [Names -> {NoId} \cup Ids]
  BY <1>8 DEF IdsAreDense, k
<1>10. {ids[n] : n \in Names} \ {NoId} = 0 .. k - 1
  BY DEF IdsAreDense, k
<1>11. {more[n] : n \in Names} \ {NoId} = 0 .. k
  <2>1. ASSUME NEW x \in {more[n] : n \in Names} \ {NoId} PROVE x \in 0 .. k
    <3>1. PICK n \in Names : x = more[n]
      OBVIOUS
    <3>2. CASE n = name
      BY <1>1, <1>4, <3>1, <3>2
    <3>3. CASE n # name
      <4>1. x \in {ids[m] : m \in Names} \ {NoId}
        BY <1>4, <3>1, <3>3
      <4> QED
        BY <1>1, <1>10, <4>1
    <3> QED
      BY <3>2, <3>3
  <2>2. ASSUME NEW x \in 0 .. k PROVE x \in {more[n] : n \in Names} \ {NoId}
    <3>1. CASE x = k
      BY <1>3, <1>4, <3>1
    <3>2. CASE x # k
      <4>1. x \in {ids[n] : n \in Names} \ {NoId}
        BY <1>1, <1>10, <3>2
      <4>2. PICK n \in Names : x = ids[n] /\ x # NoId
        BY <4>1
      <4>3. n # name
        BY <4>2
      <4> QED
        BY <1>4, <4>2, <4>3
    <3> QED
      BY <3>1, <3>2
  <2> QED
    BY <2>1, <2>2
<1>12. \A n \in Names : n # name => more[n] # k
  <2> SUFFICES ASSUME NEW n \in Names, n # name, ids[n] = k PROVE FALSE
    BY <1>4
  <2>1. k \in {ids[m] : m \in Names} \ {NoId}
    BY <1>3
  <2> QED
    BY <1>1, <1>10, <2>1
<1>13. \A m, n \in Names : more[m] = more[n] => m = n \/ more[m] = NoId
  <2> SUFFICES ASSUME NEW m \in Names, NEW n \in Names, more[m] = more[n], m # n
               PROVE  more[m] = NoId
    OBVIOUS
  <2>1. m # name /\ n # name
    BY <1>4, <1>12
  <2> QED
    BY <1>4, <2>1 DEF IdsAreDense
<1>14. LockCount(more) - 1 = k
  BY <1>1, <1>6
<1> QED
  BY <1>6, <1>8, <1>9, <1>11, <1>13, <1>14 DEF IdsAreDense, k

(* What FindOrIssue makes of the ids.                                      *)
LEMMA FindOrIssueIsDense ==
  ASSUME IdsAreDense(nameToId), NEW name \in Names
  PROVE  /\ FindOrIssue(name) \in Ids
         /\ IdsAreDense([nameToId EXCEPT ![name] = FindOrIssue(name)])
         /\ LockCount(nameToId) <= LockCount([nameToId EXCEPT ![name] = FindOrIssue(name)])
         /\ FindOrIssue(name) < LockCount([nameToId EXCEPT ![name] = FindOrIssue(name)])
<1> DEFINE more == [nameToId EXCEPT ![name] = FindOrIssue(name)]
<1>1. LockCount(nameToId) \in Nat /\ LockCount(more) \in Nat
  BY LockCountIsNat, LockMaxIsNat
<1>2. CASE nameToId[name] = NoId
  <2>1. FindOrIssue(name) = LockCount(nameToId)
    BY <1>2 DEF FindOrIssue
  <2> QED
    BY <1>1, <1>2, <2>1, IssueIsDense
<1>3. CASE nameToId[name] # NoId
  <2>1. FindOrIssue(name) = nameToId[name]
    BY <1>3 DEF FindOrIssue
  <2>2. more = nameToId
    BY <2>1 DEF IdsAreDense
  <2>3. nameToId[name] \in {nameToId[n] : n \in Names} \ {NoId}
    BY <1>3
  <2>4. nameToId[name] \in 0 .. LockCount(nameToId) - 1
    BY <2>3 DEF IdsAreDense
  <2>5. nameToId[name] \in Ids
    BY <1>3 DEF IdsAreDense
  <2> QED
    BY <1>1, <2>1, <2>2, <2>4, <2>5
<1> QED
  BY <1>2, <1>3

-----------------------------------------------------------------------------
(* The invariant                                                           *)

(* The history has no edge from an id that is not issued: CheckCycle, which*)
(* looks at the issued ones only, misses none.                             *)
HistoryIsIssued ==
  crash = "none" => \A i \in Ids : i >= LockCount(nameToId) => lockHistory[i] = {}

PhasesFit ==
  \A t \in Threads :
    /\ phase[t] = "waiting" => request[t] \in Guards
    /\ phase[t] = "releasing" => taken[t] # <<>>

IInv ==
  /\ TypeOK
  /\ StackIsGuards
  /\ PhasesFit
  /\ NoMultipleUnlock
  /\ HistoryIsIssued
  /\ LocksHaveOneOrder

LEMMA DenseType ==
  ProfilerTypeOK <=> /\ IdsAreDense(nameToId)
                     /\ lockHistory \in Histories
                     /\ lockStack \in [Threads -> Seq(Ids)]
                     /\ crash \in Crashes
  BY DEF ProfilerTypeOK, IdsAreDense

LEMMA PushLockKeeps ==
  ASSUME ProfilerTypeOK, HistoryIsIssued, LocksHaveOneOrder, crash = "none",
         NEW t \in Threads, NEW name \in Names,
         lockStack[t] # <<>> => Top(t) < LockCount(nameToId),
         PushLock(t, name)
  PROVE  /\ ProfilerTypeOK'
         /\ HistoryIsIssued'
         /\ LocksHaveOneOrder'
         /\ crash' # "MULTIPLE_UNLOCK"
         /\ \A n \in Names : nameToId[n] # NoId => nameToId'[n] = nameToId[n]
         /\ crash' = "none" =>
              /\ lockStack' = [lockStack EXCEPT ![t] = Append(lockStack[t], nameToId'[name])]
              /\ nameToId'[name] # NoId
<1> DEFINE lockID == FindOrIssue(name)
           last   == Len(lockStack[t])
<1>1. /\ IdsAreDense(nameToId)
      /\ lockHistory \in Histories
      /\ lockStack \in [Threads -> Seq(Ids)]
  BY DenseType
<1>2. /\ lockID \in Ids
      /\ IdsAreDense(nameToId')
      /\ nameToId' = [nameToId EXCEPT ![name] = lockID]
      /\ LockCount(nameToId) <= LockCount(nameToId')
      /\ lockID < LockCount(nameToId')
  BY <1>1, FindOrIssueIsDense DEF PushLock
<1>3. /\ nameToId'[name] = lockID
      /\ nameToId'[name] # NoId
      /\ \A n \in Names : nameToId[n] # NoId => nameToId'[n] = nameToId[n]
  <2>1. nameToId \in [Names -> {NoId} \cup Ids]
    BY <1>1 DEF IdsAreDense
  <2>2. nameToId'[name] = lockID /\ \A n \in Names : n # name => nameToId'[n] = nameToId[n]
    BY <1>2, <2>1
  <2>3. nameToId[name] # NoId => lockID = nameToId[name]
    BY DEF FindOrIssue
  <2> QED
    BY <1>2, <2>2, <2>3, IdsAre
<1>4. /\ lockStack' = IF crash' # "none" THEN lockStack
                      ELSE [lockStack EXCEPT ![t] = Append(lockStack[t], lockID)]
      /\ IsNewPair(t, lockID) =>
           /\ lockHistory' = [lockHistory EXCEPT ![Top(t)] = @ \cup {lockID}]
           /\ crash' = CheckCycle(lockHistory', LockCount(nameToId'))
      /\ ~ IsNewPair(t, lockID) => lockHistory' = lockHistory /\ crash' = crash
  BY DEF PushLock
<1> HIDE DEF lockID
<1>5. lockStack[t] \in Seq(Ids) /\ last \in Nat
  BY <1>1
<1>6. lockStack[t] # <<>> => last \in 1 .. last /\ Top(t) \in Ids
  <2> SUFFICES ASSUME lockStack[t] # <<>> PROVE last \in 1 .. last /\ Top(t) \in Ids
    OBVIOUS
  <2>1. last # 0
    BY <1>5, EmptySeq
  <2> QED
    BY <1>5, <2>1, ElementOfSeq DEF Top
<1>7. lockHistory' \in Histories
  <2>1. CASE IsNewPair(t, lockID)
    <3> DEFINE h == lockHistory'
               k == Top(t)
    <3>1. /\ h = [lockHistory EXCEPT ![k] = lockHistory[k] \cup {lockID}]
          /\ k \in Ids /\ lockID # k
      BY <1>4, <1>6, <2>1 DEF IsNewPair
    <3>2. lockHistory \in [Ids -> SUBSET Ids] /\ \A i \in Ids : i \notin lockHistory[i]
      BY <1>1 DEF Histories
    <3> HIDE DEF h, k
    <3>3. h \in [Ids -> SUBSET Ids]
      BY <1>2, <3>1, <3>2
    <3>4. \A i \in Ids : i \notin h[i]
      BY <3>1, <3>2
    <3>5. h \in Histories
      BY <3>3, <3>4 DEF Histories
    <3> QED
      BY <3>5 DEF h
  <2>2. CASE ~ IsNewPair(t, lockID)
    BY <1>1, <1>4, <2>2
  <2> QED
    BY <2>1, <2>2
<1>8. \A i \in Ids : i >= LockCount(nameToId') => lockHistory'[i] = {}
  <2> SUFFICES ASSUME NEW i \in Ids, i >= LockCount(nameToId') PROVE lockHistory'[i] = {}
    OBVIOUS
  <2>1. /\ LockCount(nameToId) \in Nat /\ LockCount(nameToId') \in Nat /\ i \in Nat
    BY LockCountIsNat, LockMaxIsNat, IdsAre
  <2>2. i >= LockCount(nameToId)
    BY <1>2, <2>1
  <2>3. lockHistory[i] = {}
    BY <2>2 DEF HistoryIsIssued
  <2>4. CASE IsNewPair(t, lockID)
    <3>1. Top(t) # i
      BY <1>6, <2>1, <2>2, <2>4, IdsAre DEF IsNewPair
    <3> QED
      BY <1>1, <1>4, <1>6, <2>3, <2>4, <3>1 DEF IsNewPair, Histories
  <2>5. CASE ~ IsNewPair(t, lockID)
    BY <1>4, <2>3, <2>5
  <2> QED
    BY <2>4, <2>5
<1>9. /\ crash' \in Alarms
      /\ crash' = "none" => ~ Cyclic(lockHistory')
  <2>1. CASE IsNewPair(t, lockID)
    <3>1. LockCount(nameToId') \in 0 .. LockMax
      BY LockCountIsNat
    <3> QED
      BY <1>4, <1>7, <1>8, <2>1, <3>1, CheckCycleFindsCycles
  <2>2. CASE ~ IsNewPair(t, lockID)
    BY <1>4, <2>2 DEF LocksHaveOneOrder, Alarms
  <2> QED
    BY <2>1, <2>2
<1>10. lockStack' \in [Threads -> Seq(Ids)]
  <2>1. Append(lockStack[t], lockID) \in Seq(Ids)
    BY <1>2, <1>5, AppendProperties
  <2> QED
    BY <1>1, <1>4, <2>1
<1>11. ProfilerTypeOK'
  BY <1>2, <1>7, <1>9, <1>10 DEF ProfilerTypeOK, IdsAreDense, Crashes
<1>12. HistoryIsIssued'
  BY <1>8 DEF HistoryIsIssued
<1>13. \A x, y \in Ids : y \in lockHistory[x] => y \in lockHistory'[x]
  <2>1. CASE IsNewPair(t, lockID)
    BY <1>1, <1>4, <1>6, <2>1 DEF IsNewPair, Histories
  <2>2. CASE ~ IsNewPair(t, lockID)
    BY <1>4, <2>2
  <2> QED
    BY <2>1, <2>2
<1>14. ASSUME crash' = "none", NEW u \in Threads, NEW i \in 1 .. Len(lockStack'[u]) - 1
       PROVE  \/ lockStack'[u][i] = lockStack'[u][i + 1]
              \/ lockStack'[u][i + 1] \in lockHistory'[lockStack'[u][i]]
  <2>1. lockStack' = [lockStack EXCEPT ![t] = Append(lockStack[t], lockID)]
    BY <1>4, <1>14
  <2>2. ASSUME NEW v \in Threads, NEW j \in 1 .. Len(lockStack[v]) - 1
        PROVE  /\ lockStack[v][j] \in Ids /\ lockStack[v][j + 1] \in Ids
               /\ \/ lockStack[v][j] = lockStack[v][j + 1]
                  \/ lockStack[v][j + 1] \in lockHistory'[lockStack[v][j]]
    <3>1. lockStack[v] \in Seq(Ids)
      BY <1>1
    <3>2. j \in 1 .. Len(lockStack[v]) /\ j + 1 \in 1 .. Len(lockStack[v])
      BY <3>1
    <3>3. lockStack[v][j] \in Ids /\ lockStack[v][j + 1] \in Ids
      BY <3>1, <3>2, ElementOfSeq
    <3>4. \/ lockStack[v][j] = lockStack[v][j + 1]
          \/ lockStack[v][j + 1] \in lockHistory[lockStack[v][j]]
      BY DEF LocksHaveOneOrder
    <3> QED
      BY <1>13, <3>3, <3>4
  <2>3. CASE u # t
    <3>1. lockStack'[u] = lockStack[u]
      BY <1>1, <2>1, <2>3
    <3> QED
      BY <1>14, <2>2, <3>1
  <2>4. CASE u = t
    <3>1. lockStack'[t] = Append(lockStack[t], lockID)
      BY <1>1, <2>1
    <3>2. /\ Len(lockStack'[t]) = last + 1
          /\ lockStack'[t][last + 1] = lockID
          /\ \A j \in 1 .. last : lockStack'[t][j] = lockStack[t][j]
      BY <1>2, <1>5, <3>1, AppendProperties
    <3>3. CASE i < last
      <4>1. i \in 1 .. last - 1 /\ i \in 1 .. last /\ i + 1 \in 1 .. last
        BY <1>5, <2>4, <3>2, <3>3
      <4> QED
        BY <2>2, <2>4, <3>2, <4>1
    <3>4. CASE i >= last
      <4>1. i = last /\ lockStack[t] # <<>> /\ i \in 1 .. last
        BY <1>5, <2>4, <3>2, <3>4, EmptySeq
      <4>2. lockStack'[t][i] = Top(t) /\ lockStack'[t][i + 1] = lockID
        BY <3>2, <4>1 DEF Top
      <4>3. CASE IsNewPair(t, lockID)
        <5>1. lockID \in lockHistory'[Top(t)]
          BY <1>1, <1>4, <1>6, <4>1, <4>3 DEF Histories
        <5> QED
          BY <2>4, <4>2, <5>1
      <4>4. CASE ~ IsNewPair(t, lockID)
        BY <1>4, <2>4, <4>1, <4>2, <4>4 DEF IsNewPair
      <4> QED
        BY <4>3, <4>4
    <3> QED
      BY <1>5, <2>4, <3>2, <3>3, <3>4
  <2> QED
    BY <2>3, <2>4
<1>15. LocksHaveOneOrder'
  BY <1>9, <1>14 DEF LocksHaveOneOrder
<1>16. crash' # "MULTIPLE_UNLOCK"
  BY <1>9 DEF Alarms
<1> QED
  BY <1>3, <1>4, <1>11, <1>12, <1>15, <1>16

-----------------------------------------------------------------------------
(* The steps                                                               *)

LEMMA GuardsOnStackType ==
  ASSUME TypeOK, PhasesFit, NEW t \in Threads
  PROVE  GuardsOnStack(t) \in Seq(Guards)
<1>1. /\ phase[t] \in {"idle", "waiting", "releasing"}
      /\ taken[t] \in Seq(Guards)
  BY DEF TypeOK
<1>2. CASE phase[t] = "idle"
  BY <1>1, <1>2 DEF GuardsOnStack
<1>3. CASE phase[t] = "waiting"
  <2>1. request[t] \in Guards
    BY <1>3 DEF PhasesFit
  <2>2. Append(taken[t], request[t]) \in Seq(Guards)
    BY <1>1, <2>1, AppendProperties
  <2> QED
    BY <1>3, <2>2 DEF GuardsOnStack
<1>4. CASE phase[t] = "releasing"
  <2>1. Len(taken[t]) \in Nat
    BY <1>1
  <2>2. SubSeq(taken[t], 1, Len(taken[t]) - 1) \in Seq(Guards)
    BY <1>1, <2>1
  <2> QED
    BY <1>4, <2>2 DEF GuardsOnStack
<1> QED
  BY <1>1, <1>2, <1>3, <1>4

(* Every id on a stack is that of the class of a guard, and so an issued   *)
(* one.                                                                    *)
LEMMA StacksAreIssued ==
  ASSUME TypeOK, PhasesFit, StackIsGuards, crash = "none",
         NEW t \in Threads, NEW i \in 1 .. Len(lockStack[t])
  PROVE  /\ GuardsOnStack(t)[i] \in Guards
         /\ nameOf[GuardsOnStack(t)[i].lock] \in Names
         /\ lockStack[t][i] = nameToId[nameOf[GuardsOnStack(t)[i].lock]]
         /\ lockStack[t][i] \in Ids
         /\ lockStack[t][i] < LockCount(nameToId)
<1> DEFINE g == GuardsOnStack(t)[i]
<1>1. /\ Len(lockStack[t]) = Len(GuardsOnStack(t))
      /\ lockStack[t][i] = nameToId[nameOf[g.lock]]
  BY DEF StackIsGuards
<1>2. g \in Guards
  BY <1>1, GuardsOnStackType, ElementOfSeq
<1>3. nameOf[g.lock] \in Names
  BY <1>2, DebugLockingAssumption DEF TypeOK, Guards
<1>4. lockStack[t][i] \in Ids
  BY ElementOfSeq DEF TypeOK, ProfilerTypeOK
<1>5. lockStack[t][i] \in {nameToId[n] : n \in Names} \ {NoId}
  BY <1>1, <1>3, <1>4, IdsAre DEF NoId
<1>6. lockStack[t][i] \in 0 .. LockCount(nameToId) - 1
  BY <1>5 DEF TypeOK, ProfilerTypeOK
<1>7. LockCount(nameToId) \in Nat
  BY LockCountIsNat, LockMaxIsNat
<1> QED
  BY <1>1, <1>2, <1>3, <1>4, <1>6, <1>7

LEMMA RequestKeeps ==
  ASSUME IInv, crash = "none", NEW t \in Threads, NEW l \in Locks, NEW m \in {"W", "R"},
         Request(t, l, m)
  PROVE  IInv'
<1> DEFINE g == [lock |-> l, mode |-> m]
           name == nameOf[l]
<1>1. TypeOK /\ PhasesFit /\ StackIsGuards /\ NoMultipleUnlock
  BY DEF IInv
<1>2. name \in Names /\ g \in Guards
  BY <1>1, DebugLockingAssumption DEF TypeOK, Guards
<1>3. /\ phase[t] = "idle"
      /\ phase' = [phase EXCEPT ![t] = "waiting"]
      /\ request' = [request EXCEPT ![t] = g]
      /\ nameOf' = nameOf /\ taken' = taken
      /\ PushLock(t, name)
  BY DEF Request
<1>4. lockStack[t] # <<>> => Top(t) < LockCount(nameToId)
  <2> SUFFICES ASSUME lockStack[t] # <<>> PROVE Top(t) < LockCount(nameToId)
    OBVIOUS
  <2>1. lockStack[t] \in Seq(Ids)
    BY <1>1 DEF TypeOK, ProfilerTypeOK
  <2>2. Len(lockStack[t]) \in 1 .. Len(lockStack[t])
    BY <2>1, EmptySeq
  <2> QED
    BY <1>1, <2>2, StacksAreIssued DEF Top
<1>5. /\ ProfilerTypeOK'
      /\ HistoryIsIssued'
      /\ LocksHaveOneOrder'
      /\ crash' # "MULTIPLE_UNLOCK"
      /\ \A n \in Names : nameToId[n] # NoId => nameToId'[n] = nameToId[n]
      /\ crash' = "none" =>
           /\ lockStack' = [lockStack EXCEPT ![t] = Append(lockStack[t], nameToId'[name])]
           /\ nameToId'[name] # NoId
  BY <1>1, <1>2, <1>3, <1>4, PushLockKeeps DEF IInv, TypeOK
<1> HIDE DEF g, name
<1>6. TypeOK'
  BY <1>1, <1>2, <1>3, <1>5 DEF TypeOK
<1>7. PhasesFit'
  BY <1>1, <1>2, <1>3 DEF PhasesFit, TypeOK
<1>8. StackIsGuards'
  <2> SUFFICES ASSUME crash' = "none", NEW u \in Threads
               PROVE  /\ Len(lockStack'[u]) = Len(GuardsOnStack(u)')
                      /\ \A i \in 1 .. Len(lockStack'[u]) :
                           lockStack'[u][i] = nameToId'[nameOf'[GuardsOnStack(u)'[i].lock]]
    BY DEF StackIsGuards
  <2>1. lockStack' = [lockStack EXCEPT ![t] = Append(lockStack[t], nameToId'[name])]
    BY <1>5
  <2>2. ASSUME NEW v \in Threads, NEW i \in 1 .. Len(lockStack[v])
        PROVE  lockStack[v][i] = nameToId'[nameOf[GuardsOnStack(v)[i].lock]]
    <3>1. /\ nameOf[GuardsOnStack(v)[i].lock] \in Names
          /\ lockStack[v][i] = nameToId[nameOf[GuardsOnStack(v)[i].lock]]
          /\ lockStack[v][i] # NoId
      BY <1>1, StacksAreIssued, IdsAre
    <3> QED
      BY <1>5, <3>1
  <2>3. CASE u # t
    <3>1. GuardsOnStack(u)' = GuardsOnStack(u)
      BY <1>1, <1>3, <2>3 DEF GuardsOnStack, TypeOK
    <3>2. lockStack'[u] = lockStack[u]
      BY <1>1, <2>1, <2>3 DEF TypeOK, ProfilerTypeOK
    <3>3. Len(lockStack[u]) = Len(GuardsOnStack(u))
      BY <1>1 DEF StackIsGuards
    <3> QED
      BY <1>3, <2>2, <3>1, <3>2, <3>3
  <2>4. CASE u = t
    <3>1. GuardsOnStack(t) = taken[t] /\ GuardsOnStack(t)' = Append(taken[t], g)
      BY <1>1, <1>3 DEF GuardsOnStack, TypeOK
    <3>2. /\ taken[t] \in Seq(Guards)
          /\ lockStack[t] \in Seq(Ids)
          /\ Len(lockStack[t]) = Len(taken[t])
      BY <1>1, <3>1 DEF StackIsGuards, TypeOK, ProfilerTypeOK
    <3>3. /\ Len(GuardsOnStack(t)') = Len(taken[t]) + 1
          /\ GuardsOnStack(t)'[Len(taken[t]) + 1] = g
          /\ \A i \in 1 .. Len(taken[t]) : GuardsOnStack(t)'[i] = taken[t][i]
      BY <1>2, <3>1, <3>2, AppendProperties
    <3>4. nameToId'[name] \in Ids
      BY <1>2, <1>5 DEF ProfilerTypeOK
    <3>5. lockStack'[t] = Append(lockStack[t], nameToId'[name])
      BY <1>1, <2>1 DEF TypeOK, ProfilerTypeOK
    <3>6. /\ Len(lockStack'[t]) = Len(taken[t]) + 1
          /\ lockStack'[t][Len(taken[t]) + 1] = nameToId'[name]
          /\ \A i \in 1 .. Len(taken[t]) : lockStack'[t][i] = lockStack[t][i]
      BY <3>2, <3>4, <3>5, AppendProperties
    <3>7. nameOf'[g.lock] = name
      BY <1>3 DEF g, name
    <3>8. ASSUME NEW i \in 1 .. Len(lockStack'[t])
          PROVE  lockStack'[t][i] = nameToId'[nameOf'[GuardsOnStack(t)'[i].lock]]
      <4>1. Len(taken[t]) \in Nat
        BY <3>2
      <4>2. CASE i = Len(taken[t]) + 1
        BY <3>3, <3>6, <3>7, <4>2
      <4>3. CASE i \in 1 .. Len(taken[t])
        BY <1>3, <2>2, <3>1, <3>2, <3>3, <3>6, <4>3
      <4> QED
        BY <3>6, <4>1, <4>2, <4>3
    <3> QED
      BY <2>4, <3>3, <3>6, <3>8
  <2> QED
    BY <2>3, <2>4
<1> QED
  BY <1>5, <1>6, <1>7, <1>8 DEF IInv, NoMultipleUnlock

(* The lock's own half of a call: the profiler's state and the guards it   *)
(* knows of stay as they are.                                              *)
LEMMA LockStepKeeps ==
  ASSUME IInv, UNCHANGED <<profilerVars, nameOf>>, TypeOK', PhasesFit',
         \A u \in Threads : GuardsOnStack(u)' = GuardsOnStack(u)
  PROVE  IInv'
<1>1. /\ nameToId' = nameToId /\ lockHistory' = lockHistory
      /\ lockStack' = lockStack /\ crash' = crash /\ nameOf' = nameOf
  BY DEF profilerVars
<1>2. StackIsGuards'
  BY <1>1 DEF IInv, StackIsGuards
<1>3. HistoryIsIssued' /\ LocksHaveOneOrder' /\ NoMultipleUnlock'
  BY <1>1 DEF IInv, HistoryIsIssued, LocksHaveOneOrder, NoMultipleUnlock, LockCount
<1> QED
  BY <1>2, <1>3 DEF IInv

LEMMA GrantKeeps ==
  ASSUME IInv, NEW t \in Threads, Grant(t)
  PROVE  IInv'
<1>1. TypeOK /\ PhasesFit
  BY DEF IInv
<1>2. /\ phase[t] = "waiting"
      /\ taken' = [taken EXCEPT ![t] = Append(taken[t], request[t])]
      /\ phase' = [phase EXCEPT ![t] = "idle"]
      /\ request' = [request EXCEPT ![t] = NoRequest]
      /\ UNCHANGED <<profilerVars, nameOf>>
  BY DEF Grant
<1>3. Append(taken[t], request[t]) \in Seq(Guards)
  <2>1. taken[t] \in Seq(Guards) /\ request[t] \in Guards
    BY <1>1, <1>2 DEF TypeOK, PhasesFit
  <2> QED
    BY <2>1, AppendProperties
<1>4. TypeOK'
  BY <1>1, <1>2, <1>3 DEF TypeOK, ProfilerTypeOK, profilerVars, LockCount
<1>5. PhasesFit'
  BY <1>1, <1>2 DEF PhasesFit, TypeOK
<1>6. ASSUME NEW u \in Threads PROVE GuardsOnStack(u)' = GuardsOnStack(u)
  <2>1. CASE u = t
    BY <1>1, <1>2, <2>1 DEF GuardsOnStack, TypeOK
  <2>2. CASE u # t
    BY <1>1, <1>2, <2>2 DEF GuardsOnStack, TypeOK
  <2> QED
    BY <2>1, <2>2
<1> QED
  BY <1>2, <1>4, <1>5, <1>6, LockStepKeeps

LEMMA ReleaseKeeps ==
  ASSUME IInv, NEW t \in Threads, Release(t)
  PROVE  IInv'
<1>1. TypeOK /\ PhasesFit
  BY DEF IInv
<1>2. /\ phase[t] = "releasing"
      /\ taken' = [taken EXCEPT ![t] = SubSeq(taken[t], 1, Len(taken[t]) - 1)]
      /\ phase' = [phase EXCEPT ![t] = "idle"]
      /\ request' = request
      /\ UNCHANGED <<profilerVars, nameOf>>
  BY DEF Release
<1>3. SubSeq(taken[t], 1, Len(taken[t]) - 1) \in Seq(Guards)
  <2>1. taken[t] \in Seq(Guards) /\ Len(taken[t]) \in Nat
    BY <1>1 DEF TypeOK
  <2> QED
    BY <2>1
<1>4. TypeOK'
  BY <1>1, <1>2, <1>3 DEF TypeOK, ProfilerTypeOK, profilerVars, LockCount
<1>5. PhasesFit'
  BY <1>1, <1>2 DEF PhasesFit, TypeOK
<1>6. ASSUME NEW u \in Threads PROVE GuardsOnStack(u)' = GuardsOnStack(u)
  <2>1. CASE u = t
    BY <1>1, <1>2, <2>1 DEF GuardsOnStack, TypeOK
  <2>2. CASE u # t
    BY <1>1, <1>2, <2>2 DEF GuardsOnStack, TypeOK
  <2> QED
    BY <2>1, <2>2
<1> QED
  BY <1>2, <1>4, <1>5, <1>6, LockStepKeeps

(* The guard that is destroyed is the innermost: PopLock finds the id of   *)
(* its class on top.                                                       *)
LEMMA UnlockKeeps ==
  ASSUME IInv, crash = "none", NEW t \in Threads, Unlock(t)
  PROVE  IInv'
<1> DEFINE last == Len(taken[t])
           name == nameOf[taken[t][last].lock]
<1>1. TypeOK /\ PhasesFit /\ StackIsGuards /\ HistoryIsIssued /\ LocksHaveOneOrder
  BY DEF IInv
<1>2. /\ phase[t] = "idle" /\ taken[t] # <<>>
      /\ PopLock(t, name)
      /\ phase' = [phase EXCEPT ![t] = "releasing"]
      /\ nameOf' = nameOf /\ request' = request /\ taken' = taken
  BY DEF Unlock
<1>3. GuardsOnStack(t) = taken[t]
  BY <1>2 DEF GuardsOnStack
<1>4. taken[t] \in Seq(Guards) /\ lockStack[t] \in Seq(Ids) /\ lockStack \in [Threads -> Seq(Ids)]
  BY <1>1 DEF TypeOK, ProfilerTypeOK
<1>5. last \in Nat /\ last \in 1 .. last /\ Len(lockStack[t]) = last
  BY <1>1, <1>2, <1>3, <1>4, EmptySeq DEF StackIsGuards
<1>6. name \in Names /\ Top(t) = nameToId[name] /\ nameToId[name] # NoId
  BY <1>1, <1>3, <1>5, StacksAreIssued, IdsAre DEF Top
<1>7. /\ lockStack' = [lockStack EXCEPT ![t] = SubSeq(lockStack[t], 1, last - 1)]
      /\ nameToId' = nameToId
      /\ crash' = crash /\ lockHistory' = lockHistory
  <2>1. lockStack[t] # <<>>
    BY <1>4, <1>5, EmptySeq
  <2>2. nameToId \in [Names -> {NoId} \cup Ids]
    BY <1>1 DEF TypeOK, ProfilerTypeOK
  <2>3. nameToId' = [nameToId EXCEPT ![name] = nameToId[name]]
    BY <1>2, <1>6, <2>1 DEF PopLock
  <2>4. nameToId' = nameToId
    BY <2>2, <2>3
  <2> QED
    BY <1>2, <1>5, <1>6, <2>1, <2>4 DEF PopLock
<1> HIDE DEF name
<1>8. SubSeq(lockStack[t], 1, last - 1) \in Seq(Ids)
  BY <1>4, <1>5
<1>9. TypeOK'
  <2>1. lockStack' \in [Threads -> Seq(Ids)]
    BY <1>4, <1>7, <1>8
  <2>2. ProfilerTypeOK /\ LockCount(nameToId') = LockCount(nameToId)
    BY <1>1, <1>7 DEF TypeOK
  <2>3. ProfilerTypeOK'
    BY <1>7, <2>1, <2>2, Zenon DEF ProfilerTypeOK
  <2>4. phase' \in [Threads -> {"idle", "waiting", "releasing"}]
    BY <1>1, <1>2 DEF TypeOK
  <2> QED
    BY <1>1, <1>2, <2>3, <2>4 DEF TypeOK
<1>10. PhasesFit'
  BY <1>1, <1>2 DEF PhasesFit, TypeOK
<1>11. ASSUME NEW u \in Threads, u # t
       PROVE  lockStack'[u] = lockStack[u] /\ GuardsOnStack(u)' = GuardsOnStack(u)
  BY <1>1, <1>2, <1>4, <1>7, <1>11 DEF GuardsOnStack, TypeOK
<1>12. /\ lockStack'[t] = SubSeq(lockStack[t], 1, last - 1)
       /\ GuardsOnStack(t)' = SubSeq(taken[t], 1, last - 1)
  BY <1>1, <1>2, <1>4, <1>7 DEF GuardsOnStack, TypeOK
<1>13. /\ Len(lockStack'[t]) = last - 1 /\ Len(GuardsOnStack(t)') = last - 1
       /\ \A i \in 1 .. last - 1 : /\ lockStack'[t][i] = lockStack[t][i]
                                   /\ GuardsOnStack(t)'[i] = taken[t][i]
  BY <1>4, <1>5, <1>12
<1>14. StackIsGuards'
  <2> SUFFICES ASSUME NEW u \in Threads
               PROVE  /\ Len(lockStack'[u]) = Len(GuardsOnStack(u)')
                      /\ \A i \in 1 .. Len(lockStack'[u]) :
                           lockStack'[u][i] = nameToId'[nameOf'[GuardsOnStack(u)'[i].lock]]
    BY DEF StackIsGuards
  <2>1. /\ Len(lockStack[u]) = Len(GuardsOnStack(u))
        /\ \A i \in 1 .. Len(lockStack[u]) :
             lockStack[u][i] = nameToId[nameOf[GuardsOnStack(u)[i].lock]]
    BY <1>1 DEF StackIsGuards
  <2>2. CASE u # t
    BY <1>2, <1>7, <1>11, <2>1, <2>2
  <2>3. CASE u = t
    <3>1. \A i \in 1 .. last - 1 : i \in 1 .. last
      BY <1>5
    <3>2. \A i \in 1 .. last - 1 : lockStack[t][i] = nameToId[nameOf[taken[t][i].lock]]
      BY <1>3, <1>5, <2>1, <2>3, <3>1
    <3> QED
      BY <1>2, <1>7, <1>13, <2>3, <3>2, SMTT(30)
  <2> QED
    BY <2>2, <2>3
<1>15. LocksHaveOneOrder'
  <2> SUFFICES ASSUME NEW u \in Threads, NEW i \in 1 .. Len(lockStack'[u]) - 1
               PROVE  \/ lockStack'[u][i] = lockStack'[u][i + 1]
                      \/ lockStack'[u][i + 1] \in lockHistory[lockStack'[u][i]]
    BY <1>1, <1>7 DEF LocksHaveOneOrder
  <2>1. \A j \in 1 .. Len(lockStack[u]) - 1 :
          \/ lockStack[u][j] = lockStack[u][j + 1]
          \/ lockStack[u][j + 1] \in lockHistory[lockStack[u][j]]
    BY <1>1 DEF LocksHaveOneOrder
  <2>2. CASE u # t
    BY <1>11, <2>1, <2>2
  <2>3. CASE u = t
    <3>1. i \in 1 .. last - 1 /\ i + 1 \in 1 .. last - 1 /\ i \in 1 .. Len(lockStack[t]) - 1
      BY <1>5, <1>13, <2>3
    <3> QED
      BY <1>13, <2>1, <2>3, <3>1
  <2> QED
    BY <2>2, <2>3
<1>16. HistoryIsIssued' /\ NoMultipleUnlock'
  BY <1>1, <1>7 DEF HistoryIsIssued, NoMultipleUnlock, LockCount
<1> QED
  BY <1>9, <1>10, <1>14, <1>15, <1>16 DEF IInv

LEMMA InitIInv == Init => IInv
<1> SUFFICES ASSUME Init PROVE IInv
  OBVIOUS
<1>1. /\ nameToId = [n \in Names |-> NoId]
      /\ lockHistory = [i \in Ids |-> {}]
      /\ lockStack = [t \in Threads |-> <<>>]
      /\ crash = "none"
      /\ nameOf \in Programs
      /\ phase = [t \in Threads |-> "idle"]
      /\ request = [t \in Threads |-> NoRequest]
      /\ taken = [t \in Threads |-> <<>>]
  BY DEF Init, ProfilerInit
<1>2. LockCount(nameToId) = 0
  <2>1. {n \in Names : nameToId[n] # NoId} = {}
    BY <1>1
  <2> QED
    BY <2>1, FS_EmptySet DEF LockCount
<1>3. lockHistory \in Histories
  BY <1>1 DEF Histories
<1>4. \A t \in Threads : lockStack[t] = <<>> /\ Len(lockStack[t]) = 0
  BY <1>1, EmptySeq
<1>5. ProfilerTypeOK
  <2>1. nameToId \in [Names -> {NoId} \cup Ids] /\ lockStack \in [Threads -> Seq(Ids)]
    BY <1>1
  <2>2. {nameToId[n] : n \in Names} \ {NoId} = 0 .. LockCount(nameToId) - 1
    BY <1>1, <1>2
  <2>3. \A m, n \in Names : nameToId[m] = nameToId[n] => m = n \/ nameToId[m] = NoId
    BY <1>1
  <2> QED
    BY <1>1, <1>3, <2>1, <2>2, <2>3 DEF ProfilerTypeOK, Crashes, Alarms
<1>6. TypeOK
  BY <1>1, <1>5 DEF TypeOK
<1>7. PhasesFit /\ NoMultipleUnlock
  BY <1>1 DEF PhasesFit, NoMultipleUnlock
<1>8. StackIsGuards
  BY <1>1, <1>4 DEF StackIsGuards, GuardsOnStack
<1>9. HistoryIsIssued
  BY <1>1 DEF HistoryIsIssued
<1>10. LocksHaveOneOrder
  <2>1. ~ Cyclic(lockHistory)
    BY <1>1 DEF Cyclic
  <2> QED
    BY <1>4, <2>1 DEF LocksHaveOneOrder
<1> QED
  BY <1>6, <1>7, <1>8, <1>9, <1>10 DEF IInv

LEMMA NextKeepsIInv == IInv /\ [Next]_vars => IInv'
<1> SUFFICES ASSUME IInv, [Next]_vars PROVE IInv'
  OBVIOUS
<1>1. ASSUME crash = "none", NEW t \in Threads, NEW l \in Locks, NEW m \in {"W", "R"},
             Request(t, l, m)
      PROVE  IInv'
  BY <1>1, RequestKeeps
<1>2. ASSUME NEW t \in Threads, Grant(t) PROVE IInv'
  BY <1>2, GrantKeeps
<1>3. ASSUME crash = "none", NEW t \in Threads, Unlock(t) PROVE IInv'
  BY <1>3, UnlockKeeps
<1>4. ASSUME NEW t \in Threads, Release(t) PROVE IInv'
  BY <1>4, ReleaseKeeps
<1>5. CASE UNCHANGED vars
  <2>1. /\ UNCHANGED <<profilerVars, nameOf>>
        /\ phase' = phase /\ request' = request /\ taken' = taken
    BY <1>5 DEF vars, profilerVars
  <2>2. TypeOK' /\ PhasesFit'
    BY <2>1 DEF IInv, TypeOK, PhasesFit, ProfilerTypeOK, profilerVars, LockCount
  <2>3. \A u \in Threads : GuardsOnStack(u)' = GuardsOnStack(u)
    BY <2>1 DEF GuardsOnStack
  <2> QED
    BY <2>1, <2>2, <2>3, LockStepKeeps
<1> QED
  BY <1>1, <1>2, <1>3, <1>4, <1>5 DEF Next

LEMMA Invariance == Spec => []IInv
BY InitIInv, NextKeepsIInv, PTL DEF Spec

(* The ids are issued densely and one to a class, and the process is either*)
(* running or has ended with one of the profiler's alarms.                 *)
THEOREM DebugLockingTypeCorrect == Spec => []TypeOK
<1>1. IInv => TypeOK
  BY DEF IInv
<1> QED
  BY <1>1, Invariance, PTL

(* LLockStack of a thread is its guards in the order they were made, at    *)
(* every point of WriteLock, RaedLock and the unlocks.                     *)
THEOREM StacksAreTheGuards == Spec => []StackIsGuards
<1>1. IInv => StackIsGuards
  BY DEF IInv
<1> QED
  BY <1>1, Invariance, PTL

(* Guards destroyed innermost first never end the process with PopLock's   *)
(* MULTIPLE_UNLOCK.                                                        *)
THEOREM NeverUnlocksTwice == Spec => []NoMultipleUnlock
<1>1. IInv => NoMultipleUnlock
  BY DEF IInv
<1> QED
  BY <1>1, Invariance, PTL

(* As long as PushLock lets the process run, the pairs it has recorded have*)
(* no cycle and include every pair that is nested at this moment.          *)
THEOREM OneOrderOfLocks == Spec => []LocksHaveOneOrder
<1>1. IInv => LocksHaveOneOrder
  BY DEF IInv
<1> QED
  BY <1>1, Invariance, PTL

-----------------------------------------------------------------------------
(* Circular waits                                                          *)

(* A sequence that ends with another value leaves one somewhere.           *)
LEMMA LeavesValue ==
  ASSUME NEW X, NEW s \in Seq(X), NEW i \in 1 .. Len(s), s[i] # s[Len(s)]
  PROVE  \E k \in 1 .. Len(s) - 1 : i <= k /\ s[k] = s[i] /\ s[k + 1] # s[i]
<1> SUFFICES ASSUME \A k \in 1 .. Len(s) - 1 : i <= k /\ s[k] = s[i] => s[k + 1] = s[i]
             PROVE  FALSE
  OBVIOUS
<1> DEFINE Same == {n \in Nat : i + n <= Len(s) => s[i + n] = s[i]}
<1>1. Len(s) \in Nat /\ i \in Nat /\ i >= 1 /\ i <= Len(s)
  OBVIOUS
<1>2. 0 \in Same
  BY <1>1
<1>3. ASSUME NEW n \in Nat, n \in Same PROVE n + 1 \in Same
  <2> SUFFICES ASSUME i + (n + 1) <= Len(s) PROVE s[i + (n + 1)] = s[i]
    OBVIOUS
  <2>1. s[i + n] = s[i]
    BY <1>1, <1>3
  <2>2. i + n \in 1 .. Len(s) - 1 /\ i <= i + n /\ (i + n) + 1 = i + (n + 1)
    BY <1>1
  <2> QED
    BY <2>1, <2>2
<1>4. Nat \subseteq Same
  <2> HIDE DEF Same
  <2> QED
    BY <1>2, <1>3, NatSetInduction
<1>5. Len(s) - i \in Nat /\ i + (Len(s) - i) = Len(s)
  BY <1>1
<1>6. \A n \in Nat : i + n <= Len(s) => s[i + n] = s[i]
  BY <1>4
<1>7. ASSUME NEW n \in Nat, i + n = Len(s) PROVE s[Len(s)] = s[i]
  <2>1. i + n <= Len(s)
    BY <1>1, <1>7
  <2>2. s[i + n] = s[i]
    BY <1>6, <2>1
  <2> QED
    BY <1>7, <2>2
<1> QED
  BY <1>5, <1>7

(* The class a waiting thread asks for is on top of its stack.             *)
LEMMA WaiterTop ==
  ASSUME IInv, crash = "none", NEW t \in Threads, phase[t] = "waiting"
  PROVE  /\ lockStack[t] \in Seq(Ids)
         /\ Len(lockStack[t]) = Len(taken[t]) + 1
         /\ Len(taken[t]) \in Nat
         /\ request[t] \in Guards
         /\ nameOf[request[t].lock] \in Names
         /\ Top(t) = nameToId[nameOf[request[t].lock]]
         /\ Top(t) \in Ids
         /\ \A i \in 1 .. Len(taken[t]) :
              lockStack[t][i] = nameToId[nameOf[taken[t][i].lock]]
<1>1. TypeOK /\ PhasesFit /\ StackIsGuards
  BY DEF IInv
<1>2. GuardsOnStack(t) = Append(taken[t], request[t])
  BY DEF GuardsOnStack
<1>3. taken[t] \in Seq(Guards) /\ request[t] \in Guards /\ lockStack[t] \in Seq(Ids)
  BY <1>1 DEF TypeOK, PhasesFit, ProfilerTypeOK
<1> DEFINE last == Len(taken[t])
           both == GuardsOnStack(t)
<1>4. /\ Len(both) = last + 1 /\ both[last + 1] = request[t]
      /\ \A i \in 1 .. last : both[i] = taken[t][i]
  BY <1>2, <1>3, AppendProperties
<1>5. last \in Nat /\ Len(lockStack[t]) = last + 1
  BY <1>1, <1>3, <1>4 DEF StackIsGuards
<1> HIDE DEF last, both
<1>6. \A i \in 1 .. last + 1 : /\ lockStack[t][i] = nameToId[nameOf[both[i].lock]]
                               /\ nameOf[both[i].lock] \in Names
                               /\ lockStack[t][i] \in Ids
  BY <1>1, <1>5, StacksAreIssued DEF both
<1>7. last + 1 \in 1 .. last + 1 /\ \A i \in 1 .. last : i \in 1 .. last + 1
  BY <1>5
<1> QED
  BY <1>3, <1>4, <1>5, <1>6, <1>7 DEF Top, last

(* A thread that waits for another one in the way of its class, which waits*)
(* for a lock of a different class: the second nests the one in the other. *)
LEMMA WaitForAnotherClass ==
  ASSUME IInv, crash = "none", NEW t \in Threads, NEW u \in Threads,
         WaitsFor(t, u), phase[u] = "waiting", Top(u) # Top(t)
  PROVE  \E k \in 1 .. Len(lockStack[u]) - 1 :
           /\ lockStack[u][k] = Top(t)
           /\ lockStack[u][k + 1] \in lockHistory[Top(t)]
           /\ \E i \in 1 .. k : lockStack[u][i] = Top(t)
<1>1. phase[t] = "waiting" /\ InTheWay(u, t, request[t])
  BY DEF WaitsFor
<1>2. Top(t) = nameToId[nameOf[request[t].lock]]
  BY <1>1, WaiterTop
<1>3. PICK j \in 1 .. Len(taken[u]) : taken[u][j].lock = request[t].lock
  BY <1>1 DEF InTheWay, Shares, HasGuard
<1>4. /\ lockStack[u] \in Seq(Ids) /\ Len(taken[u]) \in Nat
      /\ Len(lockStack[u]) = Len(taken[u]) + 1
      /\ lockStack[u][j] = Top(t)
  BY <1>2, <1>3, WaiterTop
<1>5. j \in 1 .. Len(lockStack[u]) /\ lockStack[u][j] # lockStack[u][Len(lockStack[u])]
  BY <1>4 DEF Top
<1>6. PICK k \in 1 .. Len(lockStack[u]) - 1 :
        j <= k /\ lockStack[u][k] = lockStack[u][j] /\ lockStack[u][k + 1] # lockStack[u][j]
  BY <1>4, <1>5, LeavesValue
<1>7. \/ lockStack[u][k] = lockStack[u][k + 1]
      \/ lockStack[u][k + 1] \in lockHistory[lockStack[u][k]]
  BY DEF IInv, LocksHaveOneOrder
<1>8. j \in 1 .. k
  BY <1>4, <1>5, <1>6
<1> QED
  BY <1>4, <1>6, <1>7, <1>8

(* Circular waits stay within a class: otherwise the locks that the threads*)
(* of the circle hold from the first one that another of them waits for up *)
(* to the one they wait for each have a successor among themselves, and the*)
(* history would have a cycle.                                             *)
LEMMA CirclesHaveAClass == IInv => CircularWaitOnlyWithinAClass
<1> DEFINE OfClass(D, n) == {t \in D : nameOf[request[t].lock] = n}
<1> SUFFICES ASSUME IInv, crash = "none", NEW D \in SUBSET Threads, IsCircle(D),
                    \A n \in Names : ~ IsCircle(OfClass(D, n))
             PROVE  FALSE
  <2>1. CircularWaitOnlyWithinAClass <=>
          (crash = "none" =>
             \A D \in SUBSET Threads :
               IsCircle(D) => \E n \in Names : IsCircle(OfClass(D, n)))
    BY DEF CircularWaitOnlyWithinAClass
  <2> HIDE DEF OfClass
  <2> QED
    BY <2>1
<1> DEFINE S == {x \in Ids : \E u \in D : \E j \in 1 .. Len(lockStack[u]) :
                               /\ x = lockStack[u][j]
                               /\ \E i \in 1 .. j : \E t \in D : lockStack[u][i] = Top(t)}
<1>1. \A t \in D : t \in Threads /\ phase[t] = "waiting"
  BY DEF IsCircle, WaitsFor
<1>2. \A t \in D : /\ lockStack[t] \in Seq(Ids)
                   /\ Len(lockStack[t]) \in 1 .. Len(lockStack[t])
                   /\ Len(lockStack[t]) \in Nat
                   /\ Top(t) \in Ids
                   /\ nameOf[request[t].lock] \in Names
                   /\ Top(t) = nameToId[nameOf[request[t].lock]]
  BY <1>1, WaiterTop
<1>3. ASSUME NEW u \in D, NEW k \in 1 .. Len(lockStack[u]) - 1,
             NEW i \in 1 .. k, NEW t \in D, lockStack[u][i] = Top(t)
      PROVE  lockStack[u][k + 1] \in S
  <2>1. k + 1 \in 1 .. Len(lockStack[u]) /\ i \in 1 .. k + 1
    BY <1>2
  <2>2. lockStack[u][k + 1] \in Ids
    BY <1>2, <2>1, ElementOfSeq
  <2> QED
    BY <1>3, <2>1, <2>2
<1>4. S # {}
  <2>1. PICK t \in D : TRUE
    BY DEF IsCircle
  <2>2. Top(t) = lockStack[t][Len(lockStack[t])]
    BY DEF Top
  <2>3. Top(t) \in S
    BY <1>2, <2>2
  <2> QED
    BY <2>3
<1>5. ASSUME NEW u \in D PROVE lockHistory[Top(u)] \cap S # {}
  <2> DEFINE n == nameOf[request[u].lock]
             E == {t \in D : nameOf[request[t].lock] = n}
  <2>1. u \in E /\ ~ IsCircle(E)
    BY <1>2
  <2>2. PICK t \in E : \A v \in E : ~ WaitsFor(t, v)
    BY <2>1 DEF IsCircle
  <2>3. PICK v \in D : WaitsFor(t, v)
    BY <2>2 DEF IsCircle
  <2>4. Top(t) = Top(u)
    BY <1>2, <2>2
  <2>5. nameOf[request[v].lock] # n
    BY <2>2, <2>3
  <2>6. Top(v) # Top(t)
    <3> SUFFICES ASSUME Top(v) = Top(t) PROVE FALSE
      OBVIOUS
    <3>1. /\ n \in Names /\ nameOf[request[v].lock] \in Names
          /\ nameToId[n] = nameToId[nameOf[request[v].lock]]
          /\ nameToId[n] # NoId
      BY <1>2, <2>4, IdsAre
    <3> QED
      BY <2>5, <3>1 DEF IInv, TypeOK, ProfilerTypeOK
  <2>7. PICK k \in 1 .. Len(lockStack[v]) - 1 :
          /\ lockStack[v][k + 1] \in lockHistory[Top(t)]
          /\ \E i \in 1 .. k : lockStack[v][i] = Top(t)
    BY <1>1, <2>2, <2>3, <2>6, WaitForAnotherClass
  <2>8. lockStack[v][k + 1] \in S
    BY <1>3, <2>2, <2>7
  <2> QED
    BY <2>4, <2>7, <2>8
<1>6. ASSUME NEW x \in S PROVE lockHistory[x] \cap S # {}
  <2>0. PICK u \in D : \E j \in 1 .. Len(lockStack[u]) :
          /\ x = lockStack[u][j]
          /\ \E i \in 1 .. j : \E t \in D : lockStack[u][i] = Top(t)
    OBVIOUS
  <2>1. PICK j \in 1 .. Len(lockStack[u]) :
          /\ x = lockStack[u][j]
          /\ \E i \in 1 .. j : \E t \in D : lockStack[u][i] = Top(t)
    BY <2>0
  <2>2. CASE x = Top(u)
    BY <1>5, <2>2
  <2>3. CASE x # Top(u)
    <3>1. PICK k \in 1 .. Len(lockStack[u]) - 1 :
            j <= k /\ lockStack[u][k] = x /\ lockStack[u][k + 1] # x
      BY <1>2, <2>1, <2>3, LeavesValue DEF Top
    <3>2. lockStack[u][k + 1] \in lockHistory[x]
      BY <1>1, <3>1 DEF IInv, LocksHaveOneOrder
    <3>3. \A i \in 1 .. j : i \in 1 .. k
      BY <1>2, <3>1
    <3>4. lockStack[u][k + 1] \in S
      <4> HIDE DEF S
      <4> QED
        BY <1>3, <2>1, <3>3
    <3> QED
      BY <3>2, <3>4
  <2> QED
    BY <2>2, <2>3
<1>7. Cyclic(lockHistory)
  <2>1. S \in SUBSET Ids
    OBVIOUS
  <2> HIDE DEF S
  <2> QED
    BY <1>4, <1>6, <2>1 DEF Cyclic
<1> QED
  BY <1>7 DEF IInv, LocksHaveOneOrder

(* What the profiler is for, for any number of threads, locks and classes: *)
(* in a running process, threads wait in a circle only over the locks of   *)
(* one class.                                                              *)
THEOREM CircularWaitsHaveOneClass == Spec => []CircularWaitOnlyWithinAClass
BY CirclesHaveAClass, Invariance, PTL

-----------------------------------------------------------------------------
(* Every lock is an RWLock                                                 *)

(* The modes among the first i guards, by those among the first i - 1.     *)
OnRule(l, s, Upto, i) ==
  IF i = 0 THEN <<>>
  ELSE IF s[i].lock = l THEN Append(Upto[i - 1], s[i].mode)
  ELSE Upto[i - 1]

LEMMA UptoExists ==
  ASSUME NEW l, NEW s, NEW n \in Nat
  PROVE  \E Upto : Upto = [i \in 0 .. n |-> OnRule(l, s, Upto, i)]
<1> DEFINE IsUpto(Upto, m) == Upto = [i \in 0 .. m |-> OnRule(l, s, Upto, i)]
           Lengths == {m \in Nat : \E Upto : IsUpto(Upto, m)}
<1>1. 0 \in Lengths
  <2> DEFINE first == [i \in 0 .. 0 |-> <<>>]
  <2>1. \A i \in 0 .. 0 : i = 0
    OBVIOUS
  <2>2. \A i \in 0 .. 0 : OnRule(l, s, first, i) = <<>>
    BY <2>1 DEF OnRule
  <2>3. IsUpto(first, 0)
    BY <2>2
  <2> HIDE DEF first, IsUpto
  <2> QED
    BY <2>3
<1>2. ASSUME NEW m \in Nat, m \in Lengths PROVE m + 1 \in Lengths
  <2>1. PICK Upto : IsUpto(Upto, m)
    BY <1>2
  <2> DEFINE more == [i \in 0 .. m + 1 |-> OnRule(l, s, Upto, i)]
  <2>2. ASSUME NEW i \in 0 .. m PROVE more[i] = Upto[i]
    BY <2>1
  <2>3. ASSUME NEW i \in 0 .. m + 1
        PROVE  more[i] = OnRule(l, s, more, i)
    <3>1. more[i] = OnRule(l, s, Upto, i)
      OBVIOUS
    <3>2. CASE i = 0
      <4> HIDE DEF more
      <4> QED
        BY <3>1, <3>2 DEF OnRule
    <3>3. CASE i # 0
      <4>1. i - 1 \in 0 .. m
        BY <3>3
      <4>2. more[i - 1] = Upto[i - 1]
        BY <2>2, <4>1
      <4> HIDE DEF more
      <4> QED
        BY <3>1, <3>3, <4>2 DEF OnRule
    <3> QED
      BY <3>2, <3>3
  <2>4. IsUpto(more, m + 1)
    <3>1. DOMAIN more = 0 .. m + 1 /\ more = [i \in DOMAIN more |-> more[i]]
      OBVIOUS
    <3> HIDE DEF more
    <3> QED
      BY <2>3, <3>1
  <2> HIDE DEF more, IsUpto
  <2> QED
    BY <2>4
<1>3. Nat \subseteq Lengths
  <2> HIDE DEF Lengths
  <2> QED
    BY <1>1, <1>2, NatSetInduction
<1> QED
  BY <1>3

LEMMA UptoIs ==
  ASSUME NEW l, NEW s, Len(s) \in Nat
  PROVE  \E Upto : /\ GuardsOn(l, s) = Upto[Len(s)]
                   /\ \A i \in 0 .. Len(s) : Upto[i] = OnRule(l, s, Upto, i)
<1> DEFINE n == Len(s)
           P(f) == f = [i \in 0 .. n |-> OnRule(l, s, f, i)]
           Upto == CHOOSE f : P(f)
<1>1. GuardsOn(l, s) = Upto[n]
  BY DEF GuardsOn, OnRule
<1>2. P(Upto)
  <2>1. \E f : P(f)
    BY UptoExists
  <2> HIDE DEF P
  <2> QED
    BY <2>1
<1>3. \A i \in 0 .. n : Upto[i] = OnRule(l, s, Upto, i)
  <2> HIDE DEF Upto
  <2> QED
    BY <1>2
<1> HIDE DEF Upto
<1> QED
  BY <1>1, <1>3

LEMMA GuardsOnNothing ==
  ASSUME NEW l
  PROVE  GuardsOn(l, <<>>) = <<>>
<1>1. Len(<<>>) = 0
  OBVIOUS
<1>2. PICK Upto : /\ GuardsOn(l, <<>>) = Upto[0]
                  /\ \A i \in 0 .. 0 : Upto[i] = OnRule(l, <<>>, Upto, i)
  BY <1>1, UptoIs
<1> QED
  BY <1>2 DEF OnRule

(* One more guard is one more on its lock.                                 *)
LEMMA GuardsOnOneMore ==
  ASSUME NEW l, NEW s \in Seq(Guards), NEW g \in Guards
  PROVE  GuardsOn(l, Append(s, g)) =
           IF g.lock = l THEN Append(GuardsOn(l, s), g.mode) ELSE GuardsOn(l, s)
<1> DEFINE n == Len(s)
           more == Append(s, g)
<1>1. /\ n \in Nat /\ Len(more) = n + 1 /\ more[n + 1] = g
      /\ \A i \in 1 .. n : more[i] = s[i]
  BY AppendProperties, LenProperties
<1>2. PICK A : /\ GuardsOn(l, s) = A[n]
               /\ \A i \in 0 .. n : A[i] = OnRule(l, s, A, i)
  BY <1>1, UptoIs
<1> HIDE DEF more
<1>3. PICK B : /\ GuardsOn(l, more) = B[n + 1]
               /\ \A i \in 0 .. n + 1 : B[i] = OnRule(l, more, B, i)
  BY <1>1, UptoIs
<1> HIDE DEF n
<1> DEFINE Same == {i \in Nat : i <= n => A[i] = B[i]}
<1>4. 0 \in Same
  BY <1>1, <1>2, <1>3 DEF OnRule
<1>5. ASSUME NEW i \in Nat, i \in Same PROVE i + 1 \in Same
  <2> SUFFICES ASSUME i + 1 <= n PROVE A[i + 1] = B[i + 1]
    OBVIOUS
  <2>1. /\ i + 1 \in 0 .. n /\ i + 1 \in 0 .. n + 1 /\ i + 1 \in 1 .. n
        /\ i + 1 # 0 /\ (i + 1) - 1 = i /\ i <= n
    BY <1>1
  <2>2. A[i] = B[i] /\ more[i + 1] = s[i + 1]
    BY <1>1, <1>5, <2>1
  <2>3. A[i + 1] = OnRule(l, s, A, i + 1) /\ B[i + 1] = OnRule(l, more, B, i + 1)
    BY <1>2, <1>3, <2>1
  <2> QED
    BY <2>1, <2>2, <2>3 DEF OnRule
<1>6. Nat \subseteq Same
  <2> HIDE DEF Same
  <2> QED
    BY <1>4, <1>5, NatSetInduction
<1>7. A[n] = B[n]
  BY <1>1, <1>6
<1>8. B[n + 1] = OnRule(l, more, B, n + 1) /\ n + 1 # 0 /\ (n + 1) - 1 = n
  BY <1>1, <1>3
<1> QED
  BY <1>1, <1>2, <1>3, <1>7, <1>8 DEF OnRule, more

(* What is in a sequence one longer.                                       *)
LEMMA AppendHas ==
  ASSUME NEW S, NEW s \in Seq(S), NEW e \in S, NEW x
  PROVE  (\E i \in 1 .. Len(Append(s, e)) : Append(s, e)[i] = x)
           <=> (x = e \/ \E i \in 1 .. Len(s) : s[i] = x)
<1> DEFINE n == Len(s)
           more == Append(s, e)
<1>1. /\ n \in Nat /\ Len(more) = n + 1 /\ more[n + 1] = e
      /\ \A i \in 1 .. n : more[i] = s[i]
  BY AppendProperties, LenProperties
<1> HIDE DEF n, more
<1>2. \A i : i \in 1 .. n + 1 <=> i \in 1 .. n \/ i = n + 1
  BY <1>1
<1>3. (\E i \in 1 .. n + 1 : more[i] = x) <=> (x = e \/ \E i \in 1 .. n : s[i] = x)
  BY <1>1, <1>2
<1> QED
  BY <1>1, <1>3 DEF n, more

LEMMA SplitLast ==
  ASSUME NEW S, NEW s \in Seq(S), s # <<>>
  PROVE  /\ SubSeq(s, 1, Len(s) - 1) \in Seq(S)
         /\ Len(SubSeq(s, 1, Len(s) - 1)) = Len(s) - 1
         /\ s[Len(s)] \in S
         /\ s = Append(SubSeq(s, 1, Len(s) - 1), s[Len(s)])
<1> DEFINE n == Len(s)
           front == SubSeq(s, 1, n - 1)
<1>1. n \in Nat /\ n # 0
  BY EmptySeq, LenProperties
<1>2. n - 1 \in Nat /\ n \in 1 .. n /\ n - 1 \in 0 .. n
  BY <1>1
<1>3. \A i \in 1 .. n : s[i] \in S
  BY ElementOfSeq
<1>4. front \in Seq(S) /\ Len(front) = n - 1 /\ \A i \in 1 .. n - 1 : front[i] = s[i]
  <2>1. \A i \in 1 .. n - 1 : s[i] \in S
    BY <1>1, <1>3
  <2>2. /\ front \in Seq(S)
        /\ Len(front) = IF 1 <= n - 1 THEN (n - 1) - 1 + 1 ELSE 0
        /\ \A i \in 1 .. (n - 1) - 1 + 1 : front[i] = s[1 + i - 1]
    BY <1>1, <2>1, SubSeqProperties
  <2> HIDE DEF front
  <2>3. Len(front) = n - 1
    <3> DEFINE size == Len(front)
    <3>1. size = IF 1 <= n - 1 THEN (n - 1) - 1 + 1 ELSE 0
      BY <2>2
    <3> HIDE DEF size, n
    <3> QED
      BY <1>1, <3>1 DEF size
  <2>4. ASSUME NEW i \in 1 .. n - 1 PROVE front[i] = s[i]
    <3>1. i \in 1 .. (n - 1) - 1 + 1 /\ 1 + i - 1 = i
      BY <1>1
    <3> QED
      BY <2>2, <3>1
  <2> QED
    BY <2>2, <2>3, <2>4
<1> DEFINE last == s[n]
           both == Append(front, last)
<1>5. last \in S
  BY <1>2, <1>3
<1> HIDE DEF front, last
<1>6. /\ both \in Seq(S) /\ Len(both) = (n - 1) + 1 /\ both[(n - 1) + 1] = last
      /\ \A i \in 1 .. n - 1 : both[i] = front[i]
  BY <1>4, <1>5, AppendProperties
<1> HIDE DEF both
<1>7. Len(both) = Len(s) /\ \A i \in 1 .. Len(s) : both[i] = s[i]
  BY <1>1, <1>4, <1>6 DEF last
<1>8. both = s
  BY <1>6, <1>7, SeqEqual
<1> QED
  BY <1>4, <1>5, <1>8 DEF front, last, both

(* The guards on a lock are those a thread has there.                      *)
OnLock(s, l, m) == \E i \in 1 .. Len(s) : s[i] = [lock |-> l, mode |-> m]

OfMode(s, m) == \E i \in 1 .. Len(s) : s[i] = m

LEMMA GuardsOnLock ==
  ASSUME NEW l \in Locks, NEW s \in Seq(Guards)
  PROVE  /\ GuardsOn(l, s) \in Seq({"W", "R"})
         /\ \A m \in {"W", "R"} : OfMode(GuardsOn(l, s), m) <=> OnLock(s, l, m)
<1> DEFINE Fits(u) == /\ GuardsOn(l, u) \in Seq({"W", "R"})
                      /\ \A m \in {"W", "R"} : OfMode(GuardsOn(l, u), m) <=> OnLock(u, l, m)
           Right == {n \in Nat : \A u \in Seq(Guards) : Len(u) = n => Fits(u)}
<1>1. 0 \in Right
  <2> SUFFICES ASSUME NEW u \in Seq(Guards), Len(u) = 0 PROVE Fits(u)
    OBVIOUS
  <2>1. u = <<>> /\ GuardsOn(l, u) = <<>>
    BY EmptySeq, GuardsOnNothing
  <2>2. <<>> \in Seq({"W", "R"}) /\ Len(<<>>) = 0
    BY EmptySeq
  <2>3. ~ \E i : i \in 1 .. 0
    OBVIOUS
  <2> QED
    BY <2>1, <2>2, <2>3 DEF OfMode, OnLock
<1>2. ASSUME NEW n \in Nat, n \in Right PROVE n + 1 \in Right
  <2> SUFFICES ASSUME NEW u \in Seq(Guards), Len(u) = n + 1 PROVE Fits(u)
    OBVIOUS
  <2>1. u # <<>>
    BY EmptySeq
  <2> DEFINE front == SubSeq(u, 1, Len(u) - 1)
             g     == u[Len(u)]
             on    == GuardsOn(l, front)
  <2>2. front \in Seq(Guards) /\ Len(front) = n /\ g \in Guards /\ u = Append(front, g)
    <3>1. /\ front \in Seq(Guards) /\ Len(front) = Len(u) - 1
          /\ g \in Guards /\ u = Append(front, g)
      BY <2>1, SplitLast
    <3> HIDE DEF front, g
    <3> QED
      BY <3>1
  <2> HIDE DEF front, g
  <2>3. /\ on \in Seq({"W", "R"})
        /\ \A m \in {"W", "R"} : OfMode(on, m) <=> OnLock(front, l, m)
    BY <1>2, <2>2
  <2>4. \A m \in {"W", "R"} : OnLock(u, l, m) <=> ([lock |-> l, mode |-> m] = g \/ OnLock(front, l, m))
    BY <2>2, AppendHas DEF OnLock
  <2>5. g.lock \in Locks /\ g.mode \in {"W", "R"} /\ g = [lock |-> g.lock, mode |-> g.mode]
    BY <2>2 DEF Guards
  <2>6. GuardsOn(l, u) = IF g.lock = l THEN Append(on, g.mode) ELSE on
    BY <2>2, GuardsOnOneMore
  <2> HIDE DEF on
  <2>7. CASE g.lock = l
    <3>1. \A m : OfMode(Append(on, g.mode), m) <=> (m = g.mode \/ OfMode(on, m))
      <4> DEFINE mode == g.mode
      <4>1. mode \in {"W", "R"} /\ on \in Seq({"W", "R"})
        BY <2>3, <2>5
      <4> HIDE DEF mode
      <4>2. \A m : (\E i \in 1 .. Len(Append(on, mode)) : Append(on, mode)[i] = m)
                     <=> (m = mode \/ \E i \in 1 .. Len(on) : on[i] = m)
        BY <4>1, AppendHas
      <4> QED
        BY <4>2 DEF OfMode, mode
    <3>2. Append(on, g.mode) \in Seq({"W", "R"})
      BY <2>3, <2>5, AppendProperties
    <3>3. \A m : [lock |-> l, mode |-> m] = g <=> m = g.mode
      BY <2>5, <2>7
    <3> QED
      BY <2>3, <2>4, <2>6, <2>7, <3>1, <3>2, <3>3
  <2>8. CASE g.lock # l
    <3>1. \A m : [lock |-> l, mode |-> m] # g
      BY <2>5, <2>8
    <3> QED
      BY <2>3, <2>4, <2>6, <2>8, <3>1
  <2> QED
    BY <2>7, <2>8
<1>3. Nat \subseteq Right
  <2> HIDE DEF Right
  <2> QED
    BY <1>1, <1>2, NatSetInduction
<1>4. Len(s) \in Nat
  BY LenProperties
<1> QED
  BY <1>3, <1>4

(* What keeps the guards of different threads apart: a waiting thread asked*)
(* as Lock.h:14-16 allows, and a write guard leaves room for no one else.  *)
AsksAsAllowed ==
  \A t \in Threads :
    phase[t] = "waiting" /\ request[t].mode = "W" => ~ HasGuard(t, request[t].lock, "R")

WritersAreAlone ==
  \A t, u \in Threads : \A l \in Locks :
    t # u /\ HasGuard(t, l, "W") => ~ Shares(u, l)

(* How the guards of a thread change when it is let in, ...                *)
LEMMA GrantAdds ==
  ASSUME IInv, NEW t \in Threads, Grant(t)
  PROVE  /\ request[t] \in Guards
         /\ taken[t] \in Seq(Guards)
         /\ taken' = [taken EXCEPT ![t] = Append(taken[t], request[t])]
         /\ \A u \in Threads \ {t} : taken'[u] = taken[u]
         /\ taken'[t] = Append(taken[t], request[t])
         /\ \A l, m : OnLock(taken'[t], l, m) <=>
              ([lock |-> l, mode |-> m] = request[t] \/ OnLock(taken[t], l, m))
<1>1. request[t] \in Guards /\ taken[t] \in Seq(Guards) /\ taken \in [Threads -> Seq(Guards)]
  BY DEF IInv, TypeOK, PhasesFit, Grant
<1>2. /\ taken' = [taken EXCEPT ![t] = Append(taken[t], request[t])]
      /\ \A u \in Threads \ {t} : taken'[u] = taken[u]
      /\ taken'[t] = Append(taken[t], request[t])
  BY <1>1 DEF Grant
<1>3. \A l, m : OnLock(taken'[t], l, m) <=>
        ([lock |-> l, mode |-> m] = request[t] \/ OnLock(taken[t], l, m))
  BY <1>1, <1>2, AppendHas DEF OnLock
<1> QED
  BY <1>1, <1>2, <1>3

(* ... and when it gives the innermost one up.                             *)
LEMMA ReleaseRemoves ==
  ASSUME IInv, NEW t \in Threads, Release(t)
  PROVE  \E front \in Seq(Guards), g \in Guards :
           /\ taken[t] = Append(front, g)
           /\ taken' = [taken EXCEPT ![t] = front]
           /\ \A u \in Threads \ {t} : taken'[u] = taken[u]
           /\ taken'[t] = front
           /\ \A l, m : OnLock(front, l, m) => OnLock(taken[t], l, m)
<1>1. taken[t] \in Seq(Guards) /\ taken[t] # <<>> /\ taken \in [Threads -> Seq(Guards)]
  BY DEF IInv, TypeOK, PhasesFit, Release
<1> DEFINE s     == taken[t]
           front == SubSeq(s, 1, Len(s) - 1)
           g     == s[Len(s)]
<1>2. taken' = [taken EXCEPT ![t] = front]
  BY <1>1 DEF Release
<1>3. \A u \in Threads \ {t} : taken'[u] = taken[u]
  BY <1>1 DEF Release
<1>4. taken'[t] = front
  BY <1>1, <1>2
<1>5. front \in Seq(Guards) /\ g \in Guards /\ s = Append(front, g)
  <2>1. s \in Seq(Guards) /\ s # <<>>
    BY <1>1
  <2> HIDE DEF s
  <2> QED
    BY <2>1, SplitLast
<1>6. \A l, m : OnLock(front, l, m) => OnLock(s, l, m)
  <2> HIDE DEF s, front, g
  <2> QED
    BY <1>5, AppendHas DEF OnLock
<1> HIDE DEF front, g
<1> QED
  BY <1>2, <1>3, <1>4, <1>5, <1>6

LEMMA GuardsApart ==
  /\ Init => AsksAsAllowed /\ WritersAreAlone
  /\ IInv /\ AsksAsAllowed /\ WritersAreAlone /\ [Next]_vars =>
       AsksAsAllowed' /\ WritersAreAlone'
<1>0. \A t, l, m : HasGuard(t, l, m) <=> OnLock(taken[t], l, m)
  BY DEF HasGuard, OnLock
<1>a. \A t, l, m : HasGuard(t, l, m)' <=> OnLock(taken'[t], l, m)
  BY DEF HasGuard, OnLock
<1>1. Init => AsksAsAllowed /\ WritersAreAlone
  <2> SUFFICES ASSUME Init PROVE AsksAsAllowed /\ WritersAreAlone
    OBVIOUS
  <2>1. \A t \in Threads : phase[t] = "idle" /\ taken[t] = <<>>
    BY DEF Init
  <2>2. \A t \in Threads : \A l, m : ~ OnLock(taken[t], l, m)
    BY <2>1 DEF OnLock
  <2> QED
    BY <1>0, <2>1, <2>2 DEF AsksAsAllowed, WritersAreAlone
<1>2. ASSUME IInv, AsksAsAllowed, WritersAreAlone, [Next]_vars
      PROVE  AsksAsAllowed' /\ WritersAreAlone'
  <2> USE <1>2
  <2>0. /\ phase \in [Threads -> {"idle", "waiting", "releasing"}]
        /\ request \in [Threads -> Guards \cup {NoRequest}]
    BY DEF IInv, TypeOK
  <2>1. ASSUME UNCHANGED taken,
               \A t \in Threads : phase'[t] = "waiting" /\ request'[t].mode = "W" =>
                 ~ OnLock(taken[t], request'[t].lock, "R")
        PROVE  AsksAsAllowed' /\ WritersAreAlone'
    <3>1. \A t, l, m : HasGuard(t, l, m)' <=> HasGuard(t, l, m)
      BY <1>0, <1>a, <2>1
    <3>2. AsksAsAllowed'
      BY <1>a, <2>1 DEF AsksAsAllowed
    <3>3. WritersAreAlone'
      BY <3>1 DEF WritersAreAlone, Shares
    <3> QED
      BY <3>2, <3>3
  <2>2. CASE UNCHANGED vars
    BY <1>0, <2>1, <2>2 DEF vars, AsksAsAllowed
  <2>3. ASSUME NEW t \in Threads, NEW l \in Locks, NEW m \in {"W", "R"}, Request(t, l, m)
        PROVE  AsksAsAllowed' /\ WritersAreAlone'
    <3>1. /\ UNCHANGED taken
          /\ phase' = [phase EXCEPT ![t] = "waiting"]
          /\ request' = [request EXCEPT ![t] = [lock |-> l, mode |-> m]]
          /\ m = "W" => ~ OnLock(taken[t], l, "R")
      BY <1>0, <2>3 DEF Request
    <3> QED
      BY <1>0, <2>0, <2>1, <3>1 DEF AsksAsAllowed
  <2>4. ASSUME NEW t \in Threads, Grant(t) PROVE AsksAsAllowed' /\ WritersAreAlone'
    <3> DEFINE g == request[t]
    <3>1. /\ \A u \in Threads \ {t} : taken'[u] = taken[u]
          /\ \A l, m : OnLock(taken'[t], l, m) <=>
               ([lock |-> l, mode |-> m] = g \/ OnLock(taken[t], l, m))
      BY <2>4, GrantAdds
    <3>2. /\ phase'[t] = "idle"
          /\ \A u \in Threads \ {t} : phase'[u] = phase[u] /\ request'[u] = request[u]
      BY <2>0, <2>4 DEF Grant
    <3>3. \A u \in Threads \ {t} :
            \/ OnLock(taken[t], g.lock, "W")
            \/ ~ OnLock(taken[u], g.lock, "W")
               /\ (g.mode = "W" => ~ OnLock(taken[u], g.lock, "R"))
      BY <1>0, <2>4 DEF Grant, InTheWay, Shares
    <3>4. AsksAsAllowed'
      BY <1>0, <1>a, <3>1, <3>2 DEF AsksAsAllowed
    <3>5. ASSUME NEW u \in Threads, NEW v \in Threads, NEW l \in Locks, u # v,
                 OnLock(taken'[u], l, "W"), NEW m \in {"W", "R"}, OnLock(taken'[v], l, m)
          PROVE  FALSE
      <4>1. OnLock(taken[u], l, "W") => ~ OnLock(taken[v], l, m)
        BY <1>0, <3>5 DEF WritersAreAlone, Shares
      <4>2. OnLock(taken[v], l, "W") => ~ OnLock(taken[u], l, "W")
        BY <1>0, <3>5 DEF WritersAreAlone, Shares
      <4>3. CASE u = t
        <5>1. OnLock(taken[v], l, m)
          BY <3>1, <3>5, <4>3
        <5>2. g = [lock |-> l, mode |-> "W"] /\ ~ OnLock(taken[t], l, "W")
          BY <3>1, <3>5, <4>1, <4>3, <5>1
        <5>3. g.lock = l /\ g.mode = "W"
          BY <5>2
        <5> QED
          BY <3>3, <3>5, <4>3, <5>1, <5>2, <5>3
      <4>4. CASE v = t
        <5>1. OnLock(taken[u], l, "W") /\ u \in Threads \ {t}
          BY <3>1, <3>5, <4>4
        <5>2. g = [lock |-> l, mode |-> m] /\ ~ OnLock(taken[t], l, "W")
          BY <3>1, <3>5, <4>1, <4>2, <4>4, <5>1
        <5>3. g.lock = l
          BY <5>2
        <5> QED
          BY <3>3, <5>1, <5>2, <5>3
      <4>5. CASE u # t /\ v # t
        BY <3>1, <3>5, <4>1, <4>5
      <4> QED
        BY <4>3, <4>4, <4>5
    <3>6. WritersAreAlone'
      BY <1>a, <3>5 DEF WritersAreAlone, Shares
    <3> QED
      BY <3>4, <3>6
  <2>5. ASSUME NEW t \in Threads, Unlock(t) PROVE AsksAsAllowed' /\ WritersAreAlone'
    <3>1. UNCHANGED <<taken, request>> /\ phase' = [phase EXCEPT ![t] = "releasing"]
      BY <2>5 DEF Unlock
    <3> QED
      BY <1>0, <2>0, <2>1, <3>1 DEF AsksAsAllowed
  <2>6. ASSUME NEW t \in Threads, Release(t) PROVE AsksAsAllowed' /\ WritersAreAlone'
    <3>1. /\ \A u \in Threads : \A l, m : OnLock(taken'[u], l, m) => OnLock(taken[u], l, m)
      BY <2>6, ReleaseRemoves
    <3>2. UNCHANGED request /\ phase' = [phase EXCEPT ![t] = "idle"]
      BY <2>6 DEF Release
    <3>3. AsksAsAllowed'
      BY <1>0, <1>a, <2>0, <3>1, <3>2 DEF AsksAsAllowed
    <3>4. WritersAreAlone'
      BY <1>0, <1>a, <3>1 DEF WritersAreAlone, Shares
    <3> QED
      BY <3>3, <3>4
  <2> QED
    BY <2>2, <2>3, <2>4, <2>5, <2>6 DEF Next
<1> QED
  BY <1>1, <1>2

(* The guards on one lock are granted and given up as RWLock says.         *)
On(l) == [t \in Threads |-> GuardsOn(l, taken[t])]

LEMMA OnIs ==
  ASSUME TypeOK, NEW l \in Locks
  PROVE  /\ \A t \in Threads : On(l)[t] \in Seq({"W", "R"})
         /\ \A t \in Threads : \A m \in {"W", "R"} : OfMode(On(l)[t], m) <=> HasGuard(t, l, m)
         /\ \A t \in Threads : On(l)[t] = <<>> <=> ~ Shares(t, l)
<1>1. ASSUME NEW t \in Threads
      PROVE  /\ On(l)[t] \in Seq({"W", "R"})
             /\ \A m \in {"W", "R"} : OfMode(On(l)[t], m) <=> HasGuard(t, l, m)
  <2>1. taken[t] \in Seq(Guards) /\ On(l)[t] = GuardsOn(l, taken[t])
    BY DEF TypeOK, On
  <2> QED
    BY <2>1, GuardsOnLock DEF OnLock, HasGuard
<1>2. ASSUME NEW t \in Threads PROVE On(l)[t] = <<>> <=> ~ Shares(t, l)
  <2> DEFINE s == On(l)[t]
  <2>1. s \in Seq({"W", "R"}) /\ (Shares(t, l) <=> \E m \in {"W", "R"} : OfMode(s, m))
    BY <1>1 DEF Shares
  <2> HIDE DEF s
  <2>2. s = <<>> => ~ \E m \in {"W", "R"} : OfMode(s, m)
    BY EmptySeq DEF OfMode
  <2>3. ASSUME s # <<>> PROVE \E m \in {"W", "R"} : OfMode(s, m)
    <3>1. Len(s) \in 1 .. Len(s)
      BY <2>1, <2>3, EmptySeq, LenProperties
    <3>2. s[Len(s)] \in {"W", "R"}
      BY <2>1, <3>1, ElementOfSeq
    <3> QED
      BY <3>1, <3>2 DEF OfMode
  <2> QED
    BY <2>1, <2>2, <2>3 DEF s
<1> QED
  BY <1>1, <1>2

LEMMA GrantIsAcquire ==
  ASSUME IInv, AsksAsAllowed, WritersAreAlone, NEW l \in Locks,
         NEW t \in Threads, Grant(t)
  PROVE  LockAt(l)!AcquireWrite(t) \/ LockAt(l)!AcquireRead(t) \/ UNCHANGED On(l)
<1> DEFINE g == request[t]
           h == On(l)
<1>1. /\ g \in Guards /\ taken[t] \in Seq(Guards)
      /\ \A u \in Threads \ {t} : taken'[u] = taken[u]
      /\ taken'[t] = Append(taken[t], g)
  BY GrantAdds
<1>2. g.lock \in Locks /\ g.mode \in {"W", "R"}
  BY <1>1 DEF Guards
<1>3. /\ \A u \in Threads \ {t} : h'[u] = h[u]
      /\ h'[t] = IF g.lock = l THEN Append(h[t], g.mode) ELSE h[t]
      /\ h = [u \in Threads |-> h[u]] /\ h' = [u \in Threads |-> h'[u]]
  <2>1. GuardsOn(l, Append(taken[t], g)) =
          IF g.lock = l THEN Append(GuardsOn(l, taken[t]), g.mode) ELSE GuardsOn(l, taken[t])
    BY <1>1, GuardsOnOneMore
  <2>2. \A u \in Threads : h[u] = GuardsOn(l, taken[u]) /\ h'[u] = GuardsOn(l, taken'[u])
    BY DEF On
  <2>3. h = [u \in Threads |-> h[u]] /\ h' = [u \in Threads |-> h'[u]]
    BY DEF On
  <2>4. h'[t] = IF g.lock = l THEN Append(h[t], g.mode) ELSE h[t]
    <3>1. h[t] = GuardsOn(l, taken[t]) /\ h'[t] = GuardsOn(l, Append(taken[t], g))
      BY <1>1, <2>2
    <3> HIDE DEF g, h
    <3> QED
      BY <2>1, <3>1, Zenon
  <2> HIDE DEF g, h
  <2>5. \A u \in Threads \ {t} : h'[u] = h[u]
    BY <1>1, <2>2, Zenon
  <2> QED
    BY <2>3, <2>4, <2>5
<1>4. /\ \A u \in Threads : OfMode(h[u], "W") <=> HasGuard(u, l, "W")
      /\ \A u \in Threads : h[u] = <<>> <=> ~ Shares(u, l)
      /\ \A u \in Threads : Shares(u, l) <=> HasGuard(u, l, "W") \/ HasGuard(u, l, "R")
  BY OnIs DEF IInv, Shares
<1>5. /\ g.mode = "W" => ~ HasGuard(t, g.lock, "R")
      /\ \A u \in Threads \ {t} :
           \/ HasGuard(t, g.lock, "W")
           \/ IF g.mode = "W" THEN ~ Shares(u, g.lock) ELSE ~ HasGuard(u, g.lock, "W")
  BY DEF AsksAsAllowed, Grant, InTheWay
<1>6. \A u \in Threads \ {t} : HasGuard(t, l, "W") => ~ Shares(u, l)
  BY DEF WritersAreAlone
<1>7. CASE g.lock # l
  <2>1. \A u \in Threads : h'[u] = h[u]
    BY <1>3, <1>7
  <2>2. h' = h
    <3> HIDE DEF h
    <3> QED
      BY <1>3, <2>1
  <2> QED
    BY <2>2
<1>8. CASE g.lock = l /\ g.mode = "W"
  <2>1. h' = [h EXCEPT ![t] = Append(h[t], "W")]
    <3> HIDE DEF h
    <3> QED
      BY <1>3, <1>8
  <2>2. OfMode(h[t], "W") \/ \A u \in Threads : h[u] = <<>>
    BY <1>4, <1>5, <1>8
  <2>3. LockAt(l)!CanWrite(h, t)
    BY <2>2 DEF LockAt!CanWrite, LockAt!Owns, LockAt!HasMode, OfMode, On
  <2> QED
    BY <2>1, <2>3 DEF LockAt!AcquireWrite, On
<1>9. CASE g.lock = l /\ g.mode = "R"
  <2>1. h' = [h EXCEPT ![t] = Append(h[t], "R")]
    <3> HIDE DEF h
    <3> QED
      BY <1>3, <1>9
  <2>2. \A u \in Threads \ {t} : ~ OfMode(h[u], "W")
    BY <1>4, <1>5, <1>6, <1>9
  <2>3. LockAt(l)!CanRead(h, t)
    BY <2>2 DEF LockAt!CanRead, LockAt!Owns, LockAt!HasMode, OfMode, On
  <2> QED
    BY <2>1, <2>3 DEF LockAt!AcquireRead, On
<1> QED
  BY <1>2, <1>7, <1>8, <1>9

LEMMA ReleaseIsRelease ==
  ASSUME IInv, NEW l \in Locks, NEW t \in Threads, Release(t)
  PROVE  LockAt(l)!Release(t) \/ UNCHANGED On(l)
<1> DEFINE h == On(l)
<1>1. PICK front \in Seq(Guards), g \in Guards :
        /\ taken[t] = Append(front, g)
        /\ \A u \in Threads \ {t} : taken'[u] = taken[u]
        /\ taken'[t] = front
  BY ReleaseRemoves
<1>2. /\ \A u \in Threads \ {t} : h'[u] = h[u]
      /\ h[t] = IF g.lock = l THEN Append(h'[t], g.mode) ELSE h'[t]
      /\ h = [u \in Threads |-> h[u]] /\ h' = [u \in Threads |-> h'[u]]
  <2>1. GuardsOn(l, Append(front, g)) =
          IF g.lock = l THEN Append(GuardsOn(l, front), g.mode) ELSE GuardsOn(l, front)
    BY GuardsOnOneMore
  <2>2. \A u \in Threads : h[u] = GuardsOn(l, taken[u]) /\ h'[u] = GuardsOn(l, taken'[u])
    BY DEF On
  <2>3. h = [u \in Threads |-> h[u]] /\ h' = [u \in Threads |-> h'[u]]
    BY DEF On
  <2> HIDE DEF h
  <2>4. h[t] = IF g.lock = l THEN Append(h'[t], g.mode) ELSE h'[t]
    <3>1. h[t] = GuardsOn(l, Append(front, g)) /\ h'[t] = GuardsOn(l, front)
      BY <1>1, <2>2, Zenon
    <3> QED
      BY <2>1, <3>1, Zenon
  <2>5. \A u \in Threads \ {t} : h'[u] = h[u]
    BY <1>1, <2>2, Zenon
  <2> QED
    BY <2>3, <2>4, <2>5
<1>3. h'[t] \in Seq({"W", "R"}) /\ g.mode \in {"W", "R"}
  <2>1. h'[t] = GuardsOn(l, front)
    BY <1>1 DEF On
  <2> QED
    BY <2>1, GuardsOnLock DEF Guards
<1>4. CASE g.lock # l
  <2>1. \A u \in Threads : h'[u] = h[u]
    BY <1>2, <1>4
  <2>2. h' = h
    <3> HIDE DEF h
    <3> QED
      BY <1>2, <2>1
  <2> QED
    BY <2>2
<1>5. CASE g.lock = l
  <2> DEFINE s == h[t]
             r == h'[t]
  <2>1. s = Append(r, g.mode) /\ r \in Seq({"W", "R"})
    BY <1>2, <1>3, <1>5
  <2>2. s # <<>> /\ r = SubSeq(s, 1, Len(s) - 1)
    <3> DEFINE mode == g.mode
    <3>1. mode \in {"W", "R"} /\ s = Append(r, mode) /\ r \in Seq({"W", "R"})
      BY <1>3, <2>1
    <3> HIDE DEF mode, s, r
    <3>2. s \in Seq({"W", "R"}) /\ Len(s) = Len(r) + 1
          /\ \A i \in 1 .. Len(r) : s[i] = r[i]
      BY <3>1, AppendProperties
    <3>3. Len(r) \in Nat
      BY <3>1, LenProperties
    <3>4. s # <<>>
      BY <3>2, <3>3, EmptySeq
    <3>5. /\ SubSeq(s, 1, Len(s) - 1) \in Seq({"W", "R"})
          /\ s[Len(s)] \in {"W", "R"}
          /\ s = Append(SubSeq(s, 1, Len(s) - 1), s[Len(s)])
      BY <3>2, <3>4, SplitLast
    <3> DEFINE front2 == SubSeq(s, 1, Len(s) - 1)
               last2  == s[Len(s)]
    <3>6. front2 \in Seq({"W", "R"}) /\ last2 \in {"W", "R"} /\ Append(front2, last2) = Append(r, mode)
      BY <3>1, <3>5
    <3> HIDE DEF front2, last2
    <3>7. front2 = r
      BY <3>1, <3>6, AppendInjective
    <3> QED
      BY <3>4, <3>7 DEF front2
  <2>3. h' = [h EXCEPT ![t] = SubSeq(h[t], 1, Len(h[t]) - 1)]
    <3>1. h'[t] = SubSeq(h[t], 1, Len(h[t]) - 1)
      BY <2>2
    <3> HIDE DEF h
    <3> QED
      BY <1>2, <3>1
  <2> QED
    BY <2>2, <2>3 DEF LockAt!Release, LockAt!Outer, On
<1> QED
  BY <1>4, <1>5

(* Each lock, taken by threads that nest guards on many locks and run the  *)
(* profiler, is the lock RWLock promises.                                  *)
THEOREM EveryLockIsAnRWLock ==
  ASSUME NEW l \in Locks
  PROVE  Spec => LockAt(l)!Spec
<1>1. Init => LockAt(l)!Init
  <2> SUFFICES ASSUME Init PROVE LockAt(l)!Init
    OBVIOUS
  <2>1. \A t \in Threads : taken[t] = <<>>
    BY DEF Init
  <2>2. \A t \in Threads : GuardsOn(l, taken[t]) = <<>>
    BY <2>1, GuardsOnNothing
  <2> QED
    BY <2>2 DEF LockAt!Init
<1>2. IInv /\ AsksAsAllowed /\ WritersAreAlone /\ [Next]_vars => [LockAt(l)!Next]_(On(l))
  <2> SUFFICES ASSUME IInv, AsksAsAllowed, WritersAreAlone, [Next]_vars
               PROVE  LockAt(l)!Next \/ UNCHANGED On(l)
    OBVIOUS
  <2>1. CASE UNCHANGED taken
    BY <2>1 DEF On
  <2>2. ASSUME NEW t \in Threads, Grant(t) PROVE LockAt(l)!Next \/ UNCHANGED On(l)
    BY <2>2, GrantIsAcquire DEF LockAt!Next
  <2>3. ASSUME NEW t \in Threads, Release(t) PROVE LockAt(l)!Next \/ UNCHANGED On(l)
    BY <2>3, ReleaseIsRelease DEF LockAt!Next
  <2> QED
    BY <2>1, <2>2, <2>3 DEF Next, vars, Request, Unlock
<1> QED
  BY <1>1, <1>2, Invariance, GuardsApart, PTL DEF Spec, LockAt!Spec, On
=============================================================================
