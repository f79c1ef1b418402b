---------------------------- MODULE DebugLocking ----------------------------
(***************************************************************************)
(* Threads of a _DEBUG build that take and destroy guards on several locks:*)
(* each function of Lock first calls the profiler and then works on the    *)
(* lock.  Here the locks are those RWLock promises, so that a guard is     *)
(* granted and given up in one step, after the profiler's.                 *)
(***************************************************************************)
EXTENDS DeadLockProfiler, Functions

CONSTANTS
  Locks,       (* the Lock objects                                         *)
  Programs,    (* functions Locks -> Names: typeid(this).name() where the  *)
               (* guards of a lock are made                                *)
  MaxDepth,    (* bound: guards one thread has or waits for                *)
  MaxGuards    (* bound: guards all threads together have or wait for      *)

ASSUME DebugLockingAssumption ==
  /\ Programs \subseteq [Locks -> Names]
  /\ MaxDepth \in Nat
  /\ MaxGuards \in Nat

VARIABLES
  nameOf,      (* the program that runs: its objects may share a class     *)
  phase,       (* "idle", "waiting" for a guard, "releasing" one           *)
  request,     (* the guard a waiting thread asked for                     *)
  taken        (* the guards of each thread, the innermost last            *)

vars == <<nameToId, lockHistory, lockStack, crash, nameOf, phase, request, taken>>

Guards == [lock : Locks, mode : {"W", "R"}]
NoRequest == [lock |-> "none", mode |-> "none"]

Init ==
  /\ ProfilerInit
  /\ nameOf \in Programs
  /\ phase = [t \in Threads |-> "idle"]
  /\ request = [t \in Threads |-> NoRequest]
  /\ taken = [t \in Threads |-> <<>>]

HasGuard(t, l, m) ==
  \E i \in 1 .. Len(taken[t]) : taken[t][i] = [lock |-> l, mode |-> m]

Shares(t, l) == \E m \in {"W", "R"} : HasGuard(t, l, m)

(* u keeps the lock from t, which asked for guard g.                       *)
InTheWay(u, t, g) ==
  /\ u # t
  /\ ~ HasGuard(t, g.lock, "W")
  /\ IF g.mode = "W" THEN Shares(u, g.lock) ELSE HasGuard(u, g.lock, "W")

GuardsOfAll == FoldFunction(+, 0, [t \in Threads |-> Len(lockStack[t])])

(* WriteLock or RaedLock is called.  (Lock.h:14-16: no write guard is      *)
(* asked for inside a read guard of the same lock.)                        *)
Request(t, l, m) ==
  /\ phase[t] = "idle"
  /\ Len(taken[t]) < MaxDepth
  /\ GuardsOfAll < MaxGuards
  /\ m = "W" => ~ HasGuard(t, l, "R")
  /\ PushLock(t, nameOf[l])
  /\ phase' = [phase EXCEPT ![t] = "waiting"]
  /\ request' = [request EXCEPT ![t] = [lock |-> l, mode |-> m]]
  /\ UNCHANGED <<nameOf, taken>>

(* The lock lets the thread in.                                            *)
Grant(t) ==
  /\ phase[t] = "waiting"
  /\ ~ \E u \in Threads : InTheWay(u, t, request[t])
  /\ taken' = [taken EXCEPT ![t] = Append(@, request[t])]
  /\ phase' = [phase EXCEPT ![t] = "idle"]
  /\ request' = [request EXCEPT ![t] = NoRequest]
  /\ UNCHANGED <<profilerVars, nameOf>>

(* The innermost guard's destructor calls WriteUnlock or ReadUnlock.       *)
Unlock(t) ==
  /\ phase[t] = "idle"
  /\ taken[t] # <<>>
  /\ PopLock(t, nameOf[taken[t][Len(taken[t])].lock])
  /\ phase' = [phase EXCEPT ![t] = "releasing"]
  /\ UNCHANGED <<nameOf, request, taken>>

Release(t) ==
  /\ phase[t] = "releasing"
  /\ taken' = [taken EXCEPT ![t] = SubSeq(@, 1, Len(@) - 1)]
  /\ phase' = [phase EXCEPT ![t] = "idle"]
  /\ UNCHANGED <<profilerVars, nameOf, request>>

Next ==
  /\ crash = "none"
  /\ \E t \in Threads :
       \/ \E l \in Locks, m \in {"W", "R"} : Request(t, l, m)
       \/ Grant(t)
       \/ Unlock(t)
       \/ Release(t)

Spec == Init /\ [][Next]_vars

-----------------------------------------------------------------------------
(* Properties                                                              *)

TypeOK ==
  /\ ProfilerTypeOK
  /\ nameOf \in Programs
  /\ phase \in [Threads -> {"idle", "waiting", "releasing"}]
  /\ request \in [Threads -> Guards \cup {NoRequest}]
  /\ taken \in [Threads -> Seq(Guards)]

(* LLockStack is the thread's guards: the one it waits for is already on   *)
(* it, the one it is about to give up no longer.                           *)
GuardsOnStack(t) ==
  CASE phase[t] = "idle"      -> taken[t]
    [] phase[t] = "waiting"   -> Append(taken[t], request[t])
    [] phase[t] = "releasing" -> SubSeq(taken[t], 1, Len(taken[t]) - 1)

StackIsGuards ==
  crash = "none" =>
    \A t \in Threads :
      /\ Len(lockStack[t]) = Len(GuardsOnStack(t))
      /\ \A i \in 1 .. Len(lockStack[t]) :
           lockStack[t][i] = nameToId[nameOf[GuardsOnStack(t)[i].lock]]

(* Guards are destroyed in stack order, so PopLock always finds its lock   *)
(* on top: the process never ends with its MULTIPLE_UNLOCK.                *)
NoMultipleUnlock == crash # "MULTIPLE_UNLOCK"

(* What the profiler is for: when threads of a running process wait for    *)
(* each other in a circle, it is over locks of a single class, which it    *)
(* does not tell apart.  A circle over locks of several classes, and so    *)
(* every circle when each class has one object, is stopped by the history  *)
(* before the last of its threads waits.                                   *)
WaitsFor(t, u) == phase[t] = "waiting" /\ InTheWay(u, t, request[t])

IsCircle(D) == D # {} /\ \A t \in D : \E u \in D : WaitsFor(t, u)

CircularWaitOnlyWithinAClass ==
  crash = "none" =>
    \A D \in SUBSET Threads :
      IsCircle(D) =>
        \E n \in Names : IsCircle({t \in D : nameOf[request[t].lock] = n})

(* The modes of the guards among these that are on lock l.                 *)
GuardsOn(l, guards) ==
  LET Upto[i \in 0 .. Len(guards)] ==
        IF i = 0 THEN <<>>
        ELSE IF guards[i].lock = l THEN Append(Upto[i - 1], guards[i].mode)
        ELSE Upto[i - 1]
  IN  Upto[Len(guards)]

(* Each lock is what RWLock promises, also when a thread nests guards on   *)
(* several locks and the guards of one lie between those of another.       *)
LockAt(l) == INSTANCE RWLock WITH held <- [t \in Threads |-> GuardsOn(l, taken[t])]
ImplementsRWLocks == \A l \in Locks : LockAt(l)!Spec

(* The comment of DeadLockProfiler.cpp:115: an edge that is not a forward  *)
(* one, to a lock whose DFS has not finished, leads to an ancestor.  So    *)
(* the search only ends a process that has nested locks in a circle.       *)
StopsOnlyForACycle == crash \in Alarms \ {"none"} => Cyclic(lockHistory)

=============================================================================
