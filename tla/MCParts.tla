------------------------------ MODULE MCParts ------------------------------
(* The parts of the program that keep to themselves, in one run: part says *)
(* which of those that one thread uses at a time a behaviour is about, or  *)
(* guarded which of those that several threads use under a lock.           *)
EXTENDS MCMemory, WaitContainer, MCSequential

VARIABLE guarded

partsVars == <<guarded, vars, containerVars, sequentialVars>>

PartsInit ==
  /\ Init /\ ContainerInit /\ SequentialInit
  /\ guarded \in {"Memory", "WaitContainer", "none"}
  /\ guarded = "none" <=> part # "none"
  /\ guarded # "WaitContainer" => kind = "stack"

PartsNext ==
  /\ UNCHANGED guarded
  /\ \/ guarded = "Memory" /\ Next /\ UNCHANGED <<containerVars, sequentialVars>>
     \/ guarded = "WaitContainer" /\ ContainerNext /\ UNCHANGED <<vars, sequentialVars>>
     \/ guarded = "none" /\ SequentialNext /\ UNCHANGED <<vars, containerVars>>

PartsSpec == PartsInit /\ [][PartsNext]_partsVars /\ ContainerFairness
=============================================================================
