------------------------------ MODULE MCMemory ------------------------------
(* Instances of Memory for TLC.                                            *)
EXTENDS Memory, TLC

(* A table without a hole: pools of 4, 8, 12 and 20 bytes, MaxAllocSize 20.*)
SmallLoops == <<[limit |-> 8, step |-> 4], [limit |-> 16, step |-> 8],
                [limit |-> 20, step |-> 8]>>

(* The loops of Memory.cpp:15, 28 and 41.                                  *)
SourceLoops == <<[limit |-> 1024, step |-> 32], [limit |-> 2048, step |-> 128],
                 [limit |-> 4096, step |-> 256]>>

(* The last size that is served by the largest pool, and the next one.     *)
LastSizes == {3868, 3869}

ThreadsAndBlocks == Permutations(Threads) \cup Permutations(Blocks)
=============================================================================
