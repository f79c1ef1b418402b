----------------------------- MODULE PoolTable -----------------------------
(***************************************************************************)
(* The table Memory::Memory builds (ServerCore/Memory.cpp): from the size  *)
(* of an allocation, its header included, to the pool that serves it.  A   *)
(* pool is named by its block size.                                        *)
(***************************************************************************)
EXTENDS Integers, Sequences, FiniteSets

CONSTANTS
  Loops,           (* the for loops: [limit, step], the first starts at    *)
                   (* its step, every other one where the last one ended   *)
  MaxAllocSize,    (* MAX_ALLOC_SIZE, the last index of _poolTable         *)
  HeaderSize       (* sizeof(MemoryHeader)                                 *)

ASSUME PoolTableAssumption ==
  /\ Loops \in Seq([limit : Nat, step : Nat \ {0}])
  /\ Loops # <<>>
  /\ MaxAllocSize \in Nat
  /\ \A k \in DOMAIN Loops : Loops[k].limit <= MaxAllocSize
  /\ HeaderSize \in Nat \ {0}

(* An entry of _poolTable that nothing was written to.                     *)
NoPool == 0

(* The constructor before its first loop.                                  *)
Begun ==
  [loop |-> 1, size |-> Loops[1].step, tableIndex |-> 0, pools |-> {},
   table |-> [i \in 0 .. MaxAllocSize |-> NoPool]]

(* The body of a loop and its size += step: a pool, and the while loop     *)
(* that writes it to the entries from tableIndex to size.                  *)
PoolMade(m) ==
  [loop       |-> m.loop,
   size       |-> m.size + Loops[m.loop].step,
   tableIndex |-> IF m.tableIndex <= m.size THEN m.size + 1 ELSE m.tableIndex,
   pools      |-> m.pools \cup {m.size},
   table      |-> [i \in 0 .. MaxAllocSize |->
                     IF i \in m.tableIndex .. m.size THEN m.size ELSE m.table[i]]]

(* One more turn of the loop the constructor is in, or on to the next.     *)
Turn(m) ==
  IF m.loop > Len(Loops) THEN m
  ELSE IF m.size > Loops[m.loop].limit THEN [m EXCEPT !.loop = @ + 1]
  ELSE PoolMade(m)

(* No more turns than a loop has that starts at 0, and one that leaves it. *)
TurnsTo[k \in 0 .. Len(Loops)] ==
  IF k = 0 THEN 0
  ELSE TurnsTo[k - 1] + (Loops[k].limit \div Loops[k].step) + 2
Turns == TurnsTo[Len(Loops)]

Built[n \in 0 .. Turns] == IF n = 0 THEN Begun ELSE Turn(Built[n - 1])

PoolSizes == Built[Turns].pools
PoolTable == Built[Turns].table

(* An allocation of size bytes and its header.                             *)
AllocSize(size) == size + HeaderSize
=============================================================================
