--------------------------- MODULE ThreadManager ---------------------------
(***************************************************************************)
(* ServerCore/ThreadManager: who gets which thread id.  InitTLS numbers    *)
(* the threads with a counter that all ThreadManagers share.  The program  *)
(* has two of them, and the constructor of each numbers the main thread:   *)
(* the one CoreGlobal makes and the tm of GameServer/main.cpp.  Both are   *)
(* made before main() runs, in an order the language leaves open.          *)
(***************************************************************************)
EXTENDS Integers

CONSTANTS
  Managers,    (* the ThreadManager objects                                *)
  Workers,     (* the threads they launch                                  *)
  Main         (* the thread that runs main()                              *)

ASSUME ThreadManagerAssumption ==
  /\ Main \notin Workers
  /\ \E m, n \in Managers : m # n

Threads == Workers \cup {Main}

VARIABLES
  SThreadID,   (* the static counter of InitTLS                            *)
  LThreadId,   (* thread -> its thread_local LThreadId                     *)
  made,        (* the ThreadManagers constructed so far                    *)
  worker       (* worker -> "none", "launched" (std::thread made), or      *)
               (* "running" its callback                                   *)

managerVars == <<SThreadID, LThreadId, made, worker>>

ManagerInit ==
  /\ SThreadID = 0
  /\ LThreadId = [t \in Threads |-> 0]
  /\ made = {}
  /\ worker = [t \in Workers |-> "none"]

(* fetch_add.                                                              *)
InitTLS(t) ==
  /\ LThreadId' = [LThreadId EXCEPT ![t] = SThreadID]
  /\ SThreadID' = SThreadID + 1

(* A constructor that does not number a thread that has its number.        *)
MutConstruct(m) ==
  /\ m \notin made
  /\ made' = made \cup {m}
  /\ IF made = {} THEN InitTLS(Main) ELSE UNCHANGED <<SThreadID, LThreadId>>
  /\ UNCHANGED worker

Construct(m) ==
  /\ m \notin made
  /\ made' = made \cup {m}
  /\ InitTLS(Main)
  /\ UNCHANGED worker

MainRuns == made = Managers

(* The thread is made; what it runs starts later.                          *)
Launch(t) ==
  /\ MainRuns
  /\ worker[t] = "none"
  /\ worker' = [worker EXCEPT ![t] = "launched"]
  /\ UNCHANGED <<SThreadID, LThreadId, made>>

Start(t) ==
  /\ worker[t] = "launched"
  /\ worker' = [worker EXCEPT ![t] = "running"]
  /\ InitTLS(t)
  /\ UNCHANGED made

-----------------------------------------------------------------------------
(* Properties                                                              *)

ManagerTypeOK ==
  /\ SThreadID \in Nat
  /\ LThreadId \in [Threads -> Nat]
  /\ made \subseteq Managers
  /\ worker \in [Workers -> {"none", "launched", "running"}]

(* What Lock needs of LThreadId: from main() on, the threads that may lock *)
(* have ids that differ from each other and from 0, which stands for no    *)
(* owner, though the first InitTLS hands out 0: by then the constructor of *)
(* the other ThreadManager has numbered the main thread again.             *)
MayLock == {Main} \cup {t \in Workers : worker[t] = "running"}
IdsFitTheLock ==
  MainRuns =>
    \A t \in MayLock :
      /\ LThreadId[t] # 0
      /\ \A u \in MayLock \ {t} : LThreadId[u] # LThreadId[t]

=============================================================================
