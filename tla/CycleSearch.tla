---------------------------- MODULE CycleSearch ----------------------------
(***************************************************************************)
(* DeadLockProfiler::CheckCycle and DFS (ServerCore/DeadLockProfiler.cpp)  *)
(* as a function of the lock history: a depth-first search of the graph    *)
(* with an edge from a lock to every lock ever requested right inside it.  *)
(***************************************************************************)
EXTENDS Integers, FiniteSets, FiniteSetsExt

CONSTANT Names       (* the names locks are registered under               *)

ASSUME NamesAssumption == IsFiniteSet(Names)

Ids  == 0 .. Cardinality(Names) - 1
NoId == -1

(* No lock is recorded as its own successor (DeadLockProfiler.cpp:29).     *)
Histories == {h \in [Ids -> SUBSET Ids] : \A i \in Ids : i \notin h[i]}

Alarms == {"none", "DEADLOCK_DETECTED", "OUT_OF_RANGE"}

(* _discoveredOrder, _discoveredCount, _finished and _parent, and how the  *)
(* search ended the process, if it did.                                    *)
Searches ==
  [order    : [Ids -> {NoId} \cup Nat],
   count    : Nat,
   finished : [Ids -> BOOLEAN],
   parent   : [Ids -> {NoId} \cup Ids],
   alarm    : Alarms]

NewSearch ==
  [order    |-> [i \in Ids |-> NoId],
   count    |-> 0,
   finished |-> [i \in Ids |-> FALSE],
   parent   |-> [i \in Ids |-> NoId],
   alarm    |-> "none"]

Discover(s, here, from) ==
  [s EXCEPT !.order[here] = s.count, !.count = @ + 1, !.parent[here] = from]

Finish(s, here) == [s EXCEPT !.finished[here] = TRUE]

(* Line 93 compares _finished[here] with true instead of setting it.       *)
FinishLeaf(s, here) == s

(* A search that takes descendants for ancestors.                          *)
MutIsBackEdge(s, here, there) ==
  s.order[here] < s.order[there] /\ ~ s.finished[there]

(* Neither a forward edge nor an edge to a finished lock.                  *)
IsBackEdge(s, here, there) ==
  s.order[there] <= s.order[here] /\ ~ s.finished[there]

(* The loop that prints the cycle follows _parent from here up to there;   *)
(* when there is no ancestor of here it walks past the root and reads      *)
(* _parent[-1].                                                            *)
PrintsCycle(s, here, there) ==
  LET Up[now \in Ids] ==
        s.parent[now] = there \/ (s.parent[now] # NoId /\ Up[s.parent[now]])
  IN  Up[here]

RaiseAlarm(s, here, there) ==
  [s EXCEPT !.alarm = IF PrintsCycle(s, here, there)
                      THEN "DEADLOCK_DETECTED" ELSE "OUT_OF_RANGE"]

(* A call DFS(here) for a lock discovered just now: the successors that are*)
(* not yet looked at, and the search so far.                               *)
Calls == [here : Ids, todo : SUBSET Ids, search : Searches]

Call(here, todo, s) == [here |-> here, todo |-> todo, search |-> s]

(* The search a call returns; std::set visits the successors in ascending  *)
(* order.                                                                  *)
DFS(history) ==
  LET Visit[c \in Calls] ==
        LET here  == c.here
            s     == c.search
            there == Min(c.todo)
            found == Discover(s, there, here)
            below == IF history[there] = {}
                     THEN FinishLeaf(found, there)
                     ELSE Visit[Call(there, history[there], found)]
            rest  == c.todo \ {there}
        IN  IF s.alarm # "none" THEN s
            ELSE IF c.todo = {} THEN Finish(s, here)
            ELSE IF s.order[there] = NoId THEN Visit[Call(here, rest, below)]
            ELSE IF IsBackEdge(s, here, there) THEN RaiseAlarm(s, here, there)
            ELSE Visit[Call(here, rest, s)]
  IN  Visit

(* CheckCycle over the first lockCount locks: how it ends the process.     *)
CheckCycle(history, lockCount) ==
  LET After[n \in 0 .. lockCount] ==
        LET s      == After[n - 1]
            lockID == n - 1
            found  == Discover(s, lockID, NoId)
        IN  IF n = 0 THEN NewSearch
            ELSE IF s.alarm # "none" \/ s.order[lockID] # NoId THEN s
            ELSE IF history[lockID] = {} THEN FinishLeaf(found, lockID)
            ELSE DFS(history)[Call(lockID, history[lockID], found)]
  IN  After[lockCount].alarm

-----------------------------------------------------------------------------
(* What the search is for: the history has a cycle when some locks each    *)
(* have a successor among them.                                            *)
Cyclic(history) ==
  \E S \in SUBSET Ids : S # {} /\ \A i \in S : history[i] \cap S # {}

=============================================================================
