---------------------------- MODULE MCSequential ----------------------------
(* The parts one thread uses at a time, each against what it is to compute:*)
(* part says which one a behaviour is about, if any.                       *)
EXTENDS RecvBuffer, CycleSearch, TypeCast, StompAllocator

VARIABLES
  part,
  history            (* for CheckCycle: every history, pair after pair     *)

sequentialVars == <<part, bufferVars, history, castVars, stompVars>>

(* The types are numbers, so that a base comes before what is derived.     *)
Hierarchies == {d \in [Types -> Types \cup {NoType}] :
                  \A c \in Types : d[c] = NoType \/ d[c] < c}

(* Lists of some or all of the types, in every order, without repetition.  *)
Lists ==
  UNION {{s \in [1 .. n -> Types] : \A i, j \in 1 .. n : s[i] = s[j] => i = j} :
         n \in 1 .. Cardinality(Types)}

SequentialInit ==
  /\ part \in {"RecvBuffer", "CycleSearch", "TypeCast", "StompAllocator", "none"}
  /\ BufferInit
  /\ history = [i \in Ids |-> {}]
  /\ TypeInit
  /\ StompInit

AddPair(i, j) ==
  /\ i # j
  /\ j \notin history[i]
  /\ history' = [history EXCEPT ![i] = @ \cup {j}]

SequentialNext ==
  /\ UNCHANGED part
  /\ \/ part = "RecvBuffer" /\ BufferNext /\ UNCHANGED <<history, castVars, stompVars>>
     \/ /\ part = "CycleSearch"
        /\ \E i, j \in Ids : AddPair(i, j)
        /\ UNCHANGED <<bufferVars, castVars, stompVars>>
     \/ /\ part = "TypeCast"
        /\ \E list \in Lists, derived \in Hierarchies :
             DeclareTL(list, derived)
        /\ UNCHANGED <<bufferVars, history, stompVars>>
     \/ part = "StompAllocator" /\ StompNext /\ UNCHANGED <<bufferVars, history, castVars>>

SequentialSpec == SequentialInit /\ [][SequentialNext]_sequentialVars

-----------------------------------------------------------------------------
Alarm == CheckCycle(history, Cardinality(Names))

(* CheckCycle misses no cycle, whatever the order of discovery and though  *)
(* locks without successors are never marked as finished; and when the     *)
(* loop of DeadLockProfiler.cpp:121-129 comes to its end there is a cycle. *)
FindsEveryCycle ==
  /\ Cyclic(history) => Alarm # "none"
  /\ Alarm = "DEADLOCK_DETECTED" => Cyclic(history)
=============================================================================
