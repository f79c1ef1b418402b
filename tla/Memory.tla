------------------------------- MODULE Memory -------------------------------
(***************************************************************************)
(* The pooled memory manager of ServerCore/Memory.cpp and MemoryPool.cpp,  *)
(* used by several threads.  A thread allocates and releases; any thread   *)
(* may release what another one allocated.  The parts of Push and Pop that *)
(* run under the pool's WRITE_LOCK are one step each.                      *)
(***************************************************************************)
EXTENDS PoolTable

CONSTANTS
  Threads,
  Blocks,      (* bound: the blocks ::malloc can hand out                  *)
  Sizes        (* the sizes that are asked for                             *)

NoBlock == "no block"

ASSUME MemoryAssumption ==
  /\ Sizes \subseteq Nat \ {0}
  /\ IsFiniteSet(Blocks) /\ NoBlock \notin Blocks

VARIABLES
  capacity,    (* block -> the bytes it was malloc'ed with, 0 if it is not *)
  header,      (* block -> its MemoryHeader::allocSize                     *)
  queue,       (* pool -> its _queue                                       *)
  allocCount,  (* pool -> its _allocCount                                  *)
  doing,       (* thread -> what it does between the parts of a call       *)
  inUse,       (* block -> the size its user asked for, 0 if it has none   *)
  crash        (* "none", or how the process ended                         *)

vars == <<capacity, header, queue, allocCount, doing, inUse, crash>>

Idle == [step |-> "idle"]

(* What a new block has where its header will be.                          *)
Garbage == -1

Init ==
  /\ capacity = [b \in Blocks |-> 0]
  /\ header = [b \in Blocks |-> Garbage]
  /\ queue = [p \in PoolSizes |-> <<>>]
  /\ allocCount = [p \in PoolSizes |-> 0]
  /\ doing = [t \in Threads |-> Idle]
  /\ inUse = [b \in Blocks |-> 0]
  /\ crash = "none"

(* ::malloc: memory nobody else has.                                       *)
IsFresh(b) == capacity[b] = 0

-----------------------------------------------------------------------------
(* Allocate                                                                *)

(* A Pop that only counts the blocks it had to make.                       *)
MutCountUp(pool, block) ==
  IF block = NoBlock THEN [allocCount EXCEPT ![pool] = @ + 1] ELSE allocCount

(* _allocCount.fetch_add(1)                                                *)
CountUp(pool, block) == [allocCount EXCEPT ![pool] = @ + 1]

(* A header that has the size the user asked for.                          *)
MutAttachHeader(b, size) == [header EXCEPT ![b] = size]

AttachHeader(b, size) == [header EXCEPT ![b] = AllocSize(size)]

(* More than the pools have: a block of its own.                           *)
AllocateLarge(t, size) ==
  /\ doing[t] = Idle
  /\ AllocSize(size) > MaxAllocSize
  /\ \E b \in Blocks :
       /\ IsFresh(b)
       /\ capacity' = [capacity EXCEPT ![b] = AllocSize(size)]
       /\ header' = AttachHeader(b, size)
       /\ inUse' = [inUse EXCEPT ![b] = size]
  /\ UNCHANGED <<queue, allocCount, doing, crash>>

(* A Pop that reads the front of the queue and leaves it there.            *)
MutPop(t, size) ==
  /\ doing[t] = Idle
  /\ AllocSize(size) <= MaxAllocSize
  /\ PoolTable[AllocSize(size)] # NoPool
  /\ LET pool == PoolTable[AllocSize(size)]
     IN  doing' = [doing EXCEPT ![t] =
                     [step |-> "pop", pool |-> pool, size |-> size,
                      block |-> IF queue[pool] = <<>> THEN NoBlock
                                ELSE Head(queue[pool])]]
  /\ UNCHANGED <<capacity, header, queue, allocCount, inUse, crash>>

(* _poolTable[allocSize]->Pop(), the part under the lock.  An entry that   *)
(* was never written is no pool.                                           *)
Pop(t, size) ==
  /\ doing[t] = Idle
  /\ AllocSize(size) <= MaxAllocSize
  /\ LET pool == PoolTable[AllocSize(size)]
     IN  IF pool = NoPool
         THEN crash' = "NO_POOL" /\ UNCHANGED <<queue, doing>>
         ELSE LET block == IF queue[pool] = <<>> THEN NoBlock
                           ELSE Head(queue[pool])
              IN  /\ queue' = [queue EXCEPT ![pool] =
                                 IF @ = <<>> THEN @ ELSE Tail(@)]
                  /\ doing' = [doing EXCEPT ![t] =
                                 [step |-> "pop", pool |-> pool,
                                  block |-> block, size |-> size]]
                  /\ UNCHANGED crash
  /\ UNCHANGED <<capacity, header, allocCount, inUse>>

(* The rest of Pop: a new block when the pool had none, an assertion on a  *)
(* used one, the count; then AttachHeader, and the user has the memory.    *)
TakeBlock(t) ==
  /\ doing[t].step = "pop"
  /\ LET pool == doing[t].pool
         size == doing[t].size
     IN  \E b \in Blocks :
           /\ IF doing[t].block = NoBlock THEN IsFresh(b) ELSE b = doing[t].block
           /\ IF doing[t].block # NoBlock /\ header[b] # 0
              THEN /\ crash' = "ASSERT"
                   /\ UNCHANGED <<capacity, header, allocCount, doing, inUse>>
              ELSE /\ capacity' = [capacity EXCEPT ![b] = IF @ = 0 THEN pool ELSE @]
                   /\ allocCount' = CountUp(pool, doing[t].block)
                   /\ header' = AttachHeader(b, size)
                   /\ inUse' = [inUse EXCEPT ![b] = size]
                   /\ doing' = [doing EXCEPT ![t] = Idle]
                   /\ UNCHANGED crash
  /\ UNCHANGED queue

-----------------------------------------------------------------------------
(* Release                                                                 *)

(* DetachHeader, and the way the block goes.                               *)
Release(t, b) ==
  /\ doing[t] = Idle
  /\ inUse[b] # 0
  /\ inUse' = [inUse EXCEPT ![b] = 0]
  /\ CASE header[b] <= 0 ->
            crash' = "ASSERT" /\ UNCHANGED <<capacity, doing>>
       [] header[b] > MaxAllocSize ->
            capacity' = [capacity EXCEPT ![b] = 0] /\ UNCHANGED <<doing, crash>>
       [] header[b] \in 1 .. MaxAllocSize ->
            /\ doing' = [doing EXCEPT ![t] =
                           [step |-> "push", block |-> b,
                            pool |-> PoolTable[header[b]]]]
            /\ UNCHANGED <<capacity, crash>>
  /\ UNCHANGED <<header, queue, allocCount>>

(* MemoryPool::Push, all of it under the lock.                             *)
PushBlock(t) ==
  /\ doing[t].step = "push"
  /\ header' = [header EXCEPT ![doing[t].block] = 0]
  /\ queue' = [queue EXCEPT ![doing[t].pool] = Append(@, doing[t].block)]
  /\ allocCount' = [allocCount EXCEPT ![doing[t].pool] = @ - 1]
  /\ doing' = [doing EXCEPT ![t] = Idle]
  /\ UNCHANGED <<capacity, inUse, crash>>

Next ==
  /\ crash = "none"
  /\ \E t \in Threads :
       \/ \E size \in Sizes : AllocateLarge(t, size) \/ Pop(t, size)
       \/ TakeBlock(t)
       \/ \E b \in Blocks : Release(t, b)
       \/ PushBlock(t)

Spec == Init /\ [][Next]_vars

-----------------------------------------------------------------------------
(* Properties                                                              *)

Steps ==
  {Idle}
    \cup [step : {"pop"}, pool : PoolSizes, block : Blocks \cup {NoBlock},
          size : Sizes]
    \cup [step : {"push"}, pool : PoolSizes, block : Blocks]

(* No count and no size is ever negative.                                  *)
TypeOK ==
  /\ capacity \in [Blocks -> Nat]
  /\ header \in [Blocks -> Int]
  /\ queue \in [PoolSizes -> Seq(Blocks)]
  /\ allocCount \in [PoolSizes -> Nat]
  /\ doing \in [Threads -> Steps]
  /\ inUse \in [Blocks -> {0} \cup Sizes]
  /\ crash \in {"none", "NO_POOL", "ASSERT"}

(* A block is in one place at a time: with one user, in the hands of one   *)
(* thread inside a call, or once in one queue.  No two users ever share    *)
(* memory.                                                                 *)
Places(b) ==
  {<<"user">> : x \in {b} \cap {c \in Blocks : inUse[c] # 0}}
    \cup {<<"thread", t>> : t \in {u \in Threads :
             doing[u].step \in {"pop", "push"} /\ doing[u].block = b}}
    \cup UNION {{<<"queue", p, i>> : i \in {j \in 1 .. Len(queue[p]) :
             queue[p][j] = b}} : p \in PoolSizes}

OnePlace == \A b \in Blocks : Cardinality(Places(b)) <= 1

(* The header written for the user leads the block back to the pool it     *)
(* came from, and the memory is as large as what the user asked for; the   *)
(* assertions of Memory.cpp:90 and MemoryPool.cpp:52, which read it, only  *)
(* meet users that release a block twice.                                  *)
BackToItsPool ==
  /\ \A p \in PoolSizes : \A i \in 1 .. Len(queue[p]) :
       capacity[queue[p][i]] = p
  /\ \A b \in Blocks : inUse[b] # 0 => capacity[b] >= AllocSize(inUse[b])
  /\ crash # "ASSERT"

(* _allocCount is changed outside the pool's lock by Pop and inside it by  *)
(* Push: it is never negative and counts the blocks handed out and not yet *)
(* pushed.                                                                 *)
HandedOut(p) ==
  {b \in Blocks :
     /\ capacity[b] = p
     /\ \/ inUse[b] # 0
        \/ \E t \in Threads : doing[t].step = "push" /\ doing[t].block = b}
CountIsHandedOut == \A p \in PoolSizes : allocCount[p] = Cardinality(HandedOut(p))

(* Memory.cpp:72: what exceeds the maximum size of the pools is allocated  *)
(* in the ordinary way; everything else has a pool.                        *)
EverySizeHasAPool == crash # "NO_POOL"

=============================================================================
