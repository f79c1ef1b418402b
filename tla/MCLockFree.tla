----------------------------- MODULE MCLockFree -----------------------------
(* The parts of the program that share memory without a lock, one at a     *)
(* time: structure says which one a behaviour is about.                    *)
EXTENDS LockFreeStack, SList, RefCounting

VARIABLE structure

vars == <<structure, stackVars, listVars, refVars>>

Init ==
  /\ structure \in {"LockFreeStack", "SList", "RefCounting"}
  /\ StackInit /\ SListInit /\ RefInit

Next ==
  /\ UNCHANGED structure
  /\ \/ structure = "LockFreeStack" /\ StackNext /\ UNCHANGED <<listVars, refVars>>
     \/ structure = "SList" /\ SListNext /\ UNCHANGED <<stackVars, refVars>>
     \/ structure = "RefCounting" /\ RefNext /\ UNCHANGED <<stackVars, listVars>>

Spec == Init /\ [][Next]_vars

(* Every variable of the three keeps its type.                             *)
TypeOK == StackTypeOK /\ SListTypeOK /\ RefTypeOK
=============================================================================
