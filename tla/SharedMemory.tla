---------------------------- MODULE SharedMemory ----------------------------
(* What the parts that share memory without a lock have in common.         *)

CONSTANTS
  Threads,     (* the threads that use the object                          *)
  Null         (* nullptr, or no thread                                    *)

=============================================================================
