---------------------------- MODULE MCRWSpinLock ----------------------------
(* Instances of RWSpinLock for TLC.                                        *)
EXTENDS RWSpinLock

(* The ids ThreadManager::InitTLS hands out after the first one.           *)
TidFromOne == [t \in Threads |-> t]

(* The ids it hands out from its first call on: 0, 1, ...                  *)
TidFromZero == [t \in Threads |-> t - 1]
=============================================================================
