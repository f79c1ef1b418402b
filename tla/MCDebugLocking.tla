--------------------------- MODULE MCDebugLocking ---------------------------
(* Instances of DebugLocking for TLC.  A class is named by the set of its  *)
(* objects, so that a permutation of the locks takes programs to programs. *)
EXTENDS DebugLocking, TLC

Classes == SUBSET Locks \ {{}}

(* Every class has one object, as GAccountManager and GPlayerManager.      *)
OneObjectPerClass == {[l \in Locks |-> {l}]}

(* The locks belong to classes in every way.                               *)
AnyClasses ==
  {f \in [Locks -> Classes] : \A l \in Locks : \A m \in f[l] : l \in f[l] /\ f[m] = f[l]}

ThreadsAndLocks == Permutations(Threads) \cup Permutations(Locks)
=============================================================================
