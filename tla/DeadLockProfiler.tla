-------------------------- MODULE DeadLockProfiler --------------------------
(***************************************************************************)
(* The lock-order profiler of ServerCore/DeadLockProfiler.h and .cpp, which*)
(* a _DEBUG build calls at the start of every function of Lock.  Its own   *)
(* mutex makes each call one step.  The threads that call it are in        *)
(* DebugLocking.                                                           *)
(***************************************************************************)
EXTENDS CycleSearch, Sequences

CONSTANT Threads

VARIABLES
  nameToId,      (* _nameToId: NoId for a name without an id               *)
  lockHistory,   (* _lockHistory: id -> the ids requested right inside it  *)
  lockStack,     (* LLockStack of each thread, the top last                *)
  crash          (* "none", or how the process ended                       *)

profilerVars == <<nameToId, lockHistory, lockStack, crash>>

Crashes == Alarms \cup {"MULTIPLE_UNLOCK"}

ProfilerInit ==
  /\ nameToId = [n \in Names |-> NoId]
  /\ lockHistory = [i \in Ids |-> {}]
  /\ lockStack = [t \in Threads |-> <<>>]
  /\ crash = "none"

(* _nameToId.size()                                                        *)
LockCount(ids) == Cardinality({n \in Names : ids[n] # NoId})

(* The outermost lock instead of the innermost.                            *)
MutTop(t) == lockStack[t][1]

(* LLockStack.top()                                                        *)
Top(t) == lockStack[t][Len(lockStack[t])]

(* _nameToId[name] enters the name before size() is read.                  *)
MutFindOrIssue(name) ==
  IF nameToId[name] # NoId THEN nameToId[name] ELSE LockCount(nameToId) + 1

FindOrIssue(name) ==
  IF nameToId[name] # NoId THEN nameToId[name] ELSE LockCount(nameToId)

(* A lock requested right inside another one for the first time.           *)
IsNewPair(t, lockID) ==
  /\ lockStack[t] # <<>>
  /\ lockID # Top(t)
  /\ lockID \notin lockHistory[Top(t)]

(* A PushLock that records the pair and does not look for a cycle.         *)
MutPushLockUnchecked(t, name) ==
  LET lockID == FindOrIssue(name)
  IN  /\ nameToId' = [nameToId EXCEPT ![name] = lockID]
      /\ IF IsNewPair(t, lockID)
         THEN lockHistory' = [lockHistory EXCEPT ![Top(t)] = @ \cup {lockID}]
         ELSE UNCHANGED lockHistory
      /\ lockStack' = [lockStack EXCEPT ![t] = Append(@, lockID)]
      /\ UNCHANGED crash

(* A PushLock that does not stack a lock it has seen on top before.        *)
MutPushLockOnce(t, name) ==
  LET lockID == FindOrIssue(name)
  IN  /\ nameToId' = [nameToId EXCEPT ![name] = lockID]
      /\ IF IsNewPair(t, lockID)
         THEN /\ lockHistory' = [lockHistory EXCEPT ![Top(t)] = @ \cup {lockID}]
              /\ crash' = CheckCycle(lockHistory', LockCount(nameToId'))
         ELSE UNCHANGED <<lockHistory, crash>>
      /\ lockStack' = IF crash' # "none" \/ (lockStack[t] # <<>> /\ lockID = Top(t))
                      THEN lockStack
                      ELSE [lockStack EXCEPT ![t] = Append(@, lockID)]

PushLock(t, name) ==
  LET lockID == FindOrIssue(name)
  IN  /\ nameToId' = [nameToId EXCEPT ![name] = lockID]
      /\ IF IsNewPair(t, lockID)
         THEN /\ lockHistory' = [lockHistory EXCEPT ![Top(t)] = @ \cup {lockID}]
              /\ crash' = CheckCycle(lockHistory', LockCount(nameToId'))
         ELSE UNCHANGED <<lockHistory, crash>>
      /\ lockStack' = IF crash' # "none" THEN lockStack
                      ELSE [lockStack EXCEPT ![t] = Append(@, lockID)]

(* _nameToId[name] would give an unknown name the id 0.                    *)
PopLock(t, name) ==
  LET lockID == IF nameToId[name] # NoId THEN nameToId[name] ELSE 0
  IN  /\ IF lockStack[t] = <<>>
         THEN crash' = "MULTIPLE_UNLOCK" /\ UNCHANGED <<nameToId, lockStack>>
         ELSE /\ nameToId' = [nameToId EXCEPT ![name] = lockID]
              /\ IF Top(t) # lockID
                 THEN crash' = "MULTIPLE_UNLOCK" /\ UNCHANGED lockStack
                 ELSE /\ lockStack' =
                           [lockStack EXCEPT ![t] = SubSeq(@, 1, Len(@) - 1)]
                      /\ UNCHANGED crash
      /\ UNCHANGED lockHistory

-----------------------------------------------------------------------------
(* Properties of the profiler's state; DebugLocking checks them.           *)

(* Names get the ids 0, 1, ... with no gap, so that the vectors CheckCycle *)
(* sizes by their number have an element for each, and no two share one.   *)
ProfilerTypeOK ==
  /\ nameToId \in [Names -> {NoId} \cup Ids]
  /\ lockHistory \in Histories
  /\ lockStack \in [Threads -> Seq(Ids)]
  /\ crash \in Crashes
  /\ {nameToId[n] : n \in Names} \ {NoId} = 0 .. LockCount(nameToId) - 1
  /\ \A m, n \in Names : nameToId[m] = nameToId[n] => m = n \/ nameToId[m] = NoId

(* In a running process the locks have one order: the history has every    *)
(* pair of locks that some thread nests right now, whichever of the        *)
(* threads nested them first, and no two of its orders contradict each     *)
(* other.                                                                  *)
LocksHaveOneOrder ==
  crash = "none" =>
    /\ ~ Cyclic(lockHistory)
    /\ \A t \in Threads : \A i \in 1 .. Len(lockStack[t]) - 1 :
         LET outer == lockStack[t][i]
             inner == lockStack[t][i + 1]
         IN  outer = inner \/ inner \in lockHistory[outer]

=============================================================================
