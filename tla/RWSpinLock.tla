----------------------------- MODULE RWSpinLock -----------------------------
(***************************************************************************)
(* The reader/writer spin lock of ServerCore/Lock.h and Lock.cpp, one      *)
(* action per access to the shared state (the atomic word _lockFag and the *)
(* plain counter _writeCount), used by threads that take and destroy       *)
(* guards in stack order.  The profiler calls under _DEBUG are modelled in *)
(* DebugLocking.                                                           *)
(*                                                                         *)
(* _lockFag is a 32-bit word.  It is kept here as its two 16-bit halves,   *)
(* and fetch_add / fetch_sub carry from the lower into the upper one.      *)
(***************************************************************************)
EXTENDS RWGuards, FiniteSets

CONSTANTS
  Threads,     (* the threads that use the lock                            *)
  Tid,         (* Tid[t]: the LThreadId of thread t                        *)
  Half,        (* 2^16: the values of a half of the word, of _writeCount   *)
  MaxDepth,    (* bound: guards one thread has at the same time            *)
  Upgrades,    (* TRUE: threads also break the rule of Lock.h:14-16        *)
  Timeouts     (* TRUE: ACQUIRE_TIMEOUT_TICK can pass while a thread spins *)

ASSUME RWSpinLockAssumption ==
  /\ IsFiniteSet(Threads)
  /\ Tid \in [Threads -> Nat]
  /\ Half \in Nat \ {0, 1}
  /\ MaxDepth \in Nat
  /\ Upgrades \in BOOLEAN
  /\ Timeouts \in BOOLEAN

(* What the lock needs of its surroundings: the threads have different ids *)
(* that fit into the upper half and are not 0, the owner half of the empty *)
(* word; and all the guards there can be fit into one half.                *)
IdsAndGuardsFit ==
  /\ \A t \in Threads : Tid[t] \in 1 .. Half - 1
  /\ \A t, u \in Threads : Tid[t] = Tid[u] => t = u
  /\ Cardinality(Threads \X (1 .. MaxDepth)) < Half

VARIABLES
  flag,        (* _lockFag: [owner |-> upper half, readers |-> lower half] *)
  writeCount,  (* _writeCount, an uint16 that is not atomic                *)
  pc,          (* where each thread is: "idle" outside Lock's functions    *)
  expected,    (* RaedLock's local "expected" of each thread               *)
  held,        (* the guards of each thread                                *)
  crash        (* "none", or the cause of the CRASH that ended the process *)

vars == <<flag, writeCount, pc, expected, held, crash>>

-----------------------------------------------------------------------------
(* The lock word.                                                          *)

EMPTY_FLAG == [owner |-> 0, readers |-> 0]

(* ((LThreadId << 16) & WRITE_THREAD_MASK): the word of a sole owner.      *)
Desired(t) == [owner |-> Tid[t] % Half, readers |-> 0]

(* fetch_add(1) on the word, and the CAS from expected to expected + 1.    *)
FetchAdd(f) ==
  IF f.readers + 1 < Half
  THEN [f EXCEPT !.readers = @ + 1]
  ELSE [owner |-> (f.owner + 1) % Half, readers |-> 0]

(* fetch_sub(1) on the word.                                               *)
FetchSub(f) ==
  IF f.readers > 0
  THEN [f EXCEPT !.readers = @ - 1]
  ELSE [owner |-> (f.owner - 1) % Half, readers |-> Half - 1]

(* LThreadId == lockThreadId                                               *)
IsOwner(t) == flag.owner = Tid[t]

-----------------------------------------------------------------------------
Init ==
  /\ flag = EMPTY_FLAG
  /\ writeCount = 0
  /\ pc = [t \in Threads |-> "idle"]
  /\ expected = [t \in Threads |-> 0]
  /\ held = [t \in Threads |-> <<>>]
  /\ crash = "none"

Goto(t, from, to) == pc[t] = from /\ pc' = [pc EXCEPT ![t] = to]

(* The guard's constructor returns to the code that declared it.           *)
Return(t, from, mode) ==
  /\ Goto(t, from, "idle")
  /\ held' = [held EXCEPT ![t] = Append(@, mode)]

(* Lock.h:14-16: W ... W -> R is possible, R -> W is not.                  *)
MayRequestWrite(t) == Upgrades \/ ~ HasMode(held[t], "R")

-----------------------------------------------------------------------------
(* WriteLock                                                               *)

(* The call, and the load that asks whether the caller is the owner.       *)
WriteLock(t) ==
  /\ Len(held[t]) < MaxDepth
  /\ MayRequestWrite(t)
  /\ Goto(t, "idle", IF IsOwner(t) THEN "wReenter" ELSE "wSpin")
  /\ UNCHANGED <<flag, writeCount, expected, held, crash>>

(* The owner again: ++_writeCount, "only I use it".                        *)
WriteReenter(t) ==
  /\ Return(t, "wReenter", "W")
  /\ writeCount' = (writeCount + 1) % Half
  /\ UNCHANGED <<flag, expected, crash>>

(* The CAS of the spin loop, when it succeeds; when it fails the thread    *)
(* has changed nothing and spins on.                                       *)
WriteCas(t) ==
  /\ flag = EMPTY_FLAG
  /\ Goto(t, "wSpin", "wCount")
  /\ flag' = Desired(t)
  /\ UNCHANGED <<writeCount, expected, held, crash>>

WriteCount(t) ==
  /\ Return(t, "wCount", "W")
  /\ writeCount' = (writeCount + 1) % Half
  /\ UNCHANGED <<flag, expected, crash>>

(* Every CAS of the round failed and the time is up: the process ends.     *)
WriteTimeout(t) ==
  /\ Timeouts
  /\ flag # EMPTY_FLAG
  /\ pc[t] = "wSpin"
  /\ crash' = "LOCK_TIMEOUT"
  /\ UNCHANGED <<flag, writeCount, pc, expected, held>>

-----------------------------------------------------------------------------
(* WriteUnlock                                                             *)

(* The destructor of a write guard, and the test of the read count.        *)
WriteUnlock(t) ==
  /\ held[t] # <<>> /\ Innermost(held[t]) = "W"
  /\ IF flag.readers # 0
     THEN /\ pc[t] = "idle"
          /\ crash' = "INVALID_UNLOCK_ORDER"
          /\ UNCHANGED pc
     ELSE /\ Goto(t, "idle", "wuCount")
          /\ UNCHANGED crash
  /\ UNCHANGED <<flag, writeCount, expected, held>>

(* Store EMPTY_FLAG whatever the count says: the outermost guard goes with *)
(* the innermost.                                                          *)
MutWriteUnlockCountIgnored(t) ==
  /\ writeCount' = (writeCount - 1) % Half
  /\ Goto(t, "wuCount", "wuStore")
  /\ UNCHANGED <<flag, expected, held, crash>>

(* lockCount = --_writeCount, and the test for the last one.               *)
WriteUnlockCount(t) ==
  /\ writeCount' = (writeCount - 1) % Half
  /\ IF writeCount' = 0
     THEN /\ Goto(t, "wuCount", "wuStore")
          /\ UNCHANGED held
     ELSE /\ Goto(t, "wuCount", "idle")
          /\ held' = [held EXCEPT ![t] = Outer(@)]
  /\ UNCHANGED <<flag, expected, crash>>

(* The last WriteUnlock returns without clearing the word.                 *)
MutWriteUnlockNoStore(t) ==
  /\ Goto(t, "wuStore", "idle")
  /\ held' = [held EXCEPT ![t] = Outer(@)]
  /\ UNCHANGED <<flag, writeCount, expected, crash>>

WriteUnlockStore(t) ==
  /\ Goto(t, "wuStore", "idle")
  /\ flag' = EMPTY_FLAG
  /\ held' = [held EXCEPT ![t] = Outer(@)]
  /\ UNCHANGED <<writeCount, expected, crash>>

-----------------------------------------------------------------------------
(* RaedLock (the name in the source)                                       *)

(* The call, and the load that asks whether the caller is the owner.       *)
RaedLock(t) ==
  /\ Len(held[t]) < MaxDepth
  /\ Goto(t, "idle", IF IsOwner(t) THEN "rReenter" ELSE "rLoad")
  /\ UNCHANGED <<flag, writeCount, expected, held, crash>>

(* The owner: fetch_add(1) without a look at the word.                     *)
ReadReenter(t) ==
  /\ Return(t, "rReenter", "R")
  /\ flag' = FetchAdd(flag)
  /\ UNCHANGED <<writeCount, expected, crash>>

(* expected = the read count with no owner: the only word the CAS accepts. *)
ReadLoad(t) ==
  /\ Goto(t, "rLoad", "rCas")
  /\ expected' = [expected EXCEPT ![t] = flag.readers]
  /\ UNCHANGED <<flag, writeCount, held, crash>>

ExpectedWord(t) == [owner |-> 0, readers |-> expected[t]]

(* A reader that only compares the read count, not the owner half.         *)
MutReadCasIgnoresOwner(t) ==
  /\ flag.readers = expected[t]
  /\ Return(t, "rCas", "R")
  /\ flag' = FetchAdd(flag)
  /\ UNCHANGED <<writeCount, expected, crash>>

ReadCas(t) ==
  /\ flag = ExpectedWord(t)
  /\ Return(t, "rCas", "R")
  /\ flag' = FetchAdd(flag)
  /\ UNCHANGED <<writeCount, expected, crash>>

(* Somebody owns the lock, or somebody was faster: load again.             *)
ReadCasFailed(t) ==
  /\ flag # ExpectedWord(t)
  /\ Goto(t, "rCas", "rLoad")
  /\ UNCHANGED <<flag, writeCount, expected, held, crash>>

ReadTimeout(t) ==
  /\ Timeouts
  /\ flag # ExpectedWord(t)
  /\ pc[t] = "rCas"
  /\ crash' = "LOCK_TIMEOUT"
  /\ UNCHANGED <<flag, writeCount, pc, expected, held>>

(* ReadUnlock: the count goes down before it is looked at.                 *)
ReadUnlock(t) ==
  /\ pc[t] = "idle"
  /\ held[t] # <<>> /\ Innermost(held[t]) = "R"
  /\ flag' = FetchSub(flag)
  /\ IF flag.readers = 0
     THEN crash' = "MULTIPLE_UNLOCK" /\ UNCHANGED held
     ELSE held' = [held EXCEPT ![t] = Outer(@)] /\ UNCHANGED crash
  /\ UNCHANGED <<writeCount, pc, expected>>

-----------------------------------------------------------------------------
(* What a thread does once it is inside a function of Lock, and the        *)
(* destructors of its guards.                                              *)
InsideLock(t) ==
  \/ WriteReenter(t) \/ WriteCas(t) \/ WriteCount(t)
  \/ WriteUnlockCount(t) \/ WriteUnlockStore(t)
  \/ ReadReenter(t) \/ ReadLoad(t) \/ ReadCas(t) \/ ReadCasFailed(t)

Unlock(t) == WriteUnlock(t) \/ ReadUnlock(t)

Step(t) ==
  \/ WriteLock(t) \/ RaedLock(t) \/ Unlock(t) \/ InsideLock(t)
  \/ WriteTimeout(t) \/ ReadTimeout(t)

Next == crash = "none" /\ \E t \in Threads : Step(t)

Spec == Init /\ [][Next]_vars

(* A thread inside Lock keeps running, and the code under a guard comes to *)
(* its end; no thread has to ask for a guard.                              *)
Fairness ==
  \A t \in Threads :
    /\ WF_vars(crash = "none" /\ InsideLock(t))
    /\ WF_vars(crash = "none" /\ Unlock(t))

FairSpec == Spec /\ Fairness
-----------------------------------------------------------------------------
(* Properties                                                              *)

Pcs == {"idle", "wReenter", "wSpin", "wCount", "wuCount", "wuStore",
        "rReenter", "rLoad", "rCas"}

Causes == {"none", "LOCK_TIMEOUT", "INVALID_UNLOCK_ORDER", "MULTIPLE_UNLOCK"}

(* Every variable stays in its C++ type: no half of the word and no count  *)
(* leaves its 16 bits.                                                     *)
TypeOK ==
  /\ flag \in [owner : 0 .. Half - 1, readers : 0 .. Half - 1]
  /\ writeCount \in 0 .. Half - 1
  /\ pc \in [Threads -> Pcs]
  /\ expected \in [Threads -> 0 .. Half - 1]
  /\ held \in [Threads -> Seq(Modes)]
  /\ \A t \in Threads : Len(held[t]) <= MaxDepth
  /\ crash \in Causes

(* A thread with a write guard shares the lock with nobody, from the end   *)
(* of WriteLock to the end of the last WriteUnlock (Lock.h:10, "Exclusive  *)
(* Lock Owner").                                                           *)
MutualExclusion == Exclusive(held)

(* _writeCount is not atomic: no two threads are at an access to it at the *)
(* same time (Lock.cpp:16, "only I use it").                               *)
TouchesWriteCount(t) == pc[t] \in {"wReenter", "wCount", "wuCount"}
WriteCountIsPrivate ==
  \A t, u \in Threads :
    TouchesWriteCount(t) /\ TouchesWriteCount(u) => t = u

(* The CRASHes of Lock.cpp:55 and :115 are there to find wrong callers:    *)
(* threads that only use guards never meet the second one, and the first   *)
(* one only ends a process in which the unlocking thread itself asked for  *)
(* a write guard on top of a read guard.                                   *)
CrashOnlyOnMisuse ==
  /\ crash # "MULTIPLE_UNLOCK"
  /\ crash = "INVALID_UNLOCK_ORDER" =>
       \E t \in Threads : Owns(held, t) /\ Innermost(held[t]) = "W"
                                        /\ HasMode(held[t], "R")

(* The guards of mode m, as pairs <<thread, depth>>.                       *)
Tokens(h, m) ==
  {x \in Threads \X (1 .. MaxDepth) :
     x[2] <= Len(h[x[1]]) /\ h[x[1]][x[2]] = m}

(* A thread that has write guards, or is on its way to or from its only    *)
(* one with its id in the word.                                            *)
OwnerPcs    == {"wReenter", "wCount", "wuCount", "wuStore", "rReenter"}
OwnsWord(t) == Owns(held, t) \/ pc[t] \in OwnerPcs

(* The word and the counter are the guards: the lower half counts the read *)
(* guards of all threads, the upper half names the thread with the write   *)
(* guards, and _writeCount is their number until the last one goes.        *)
ReadersCounted == flag.readers = Cardinality(Tokens(held, "R"))
OwnerNamed     == \A t \in Threads : flag.owner = Tid[t] <=> OwnsWord(t)
WritesCounted  ==
  writeCount = IF \E t \in Threads : pc[t] = "wuStore"
               THEN 0 ELSE Cardinality(Tokens(held, "W"))
WordMatchesGuards == ReadersCounted /\ OwnerNamed /\ WritesCounted

(* The inductive invariant behind these: a thread whose id is in the word  *)
(* has the lock to itself even before it has its first guard, and a thread *)
(* inside Lock has the guards that brought it there.                       *)
OwnerAlone ==
  \A t, u \in Threads : t # u /\ OwnsWord(t) => held[u] = <<>>

PcMatchesGuards ==
  \A t \in Threads :
    /\ pc[t] \in {"wReenter", "rReenter"} => Owns(held, t)
    /\ pc[t] \in Pcs \ {"idle", "wuCount", "wuStore"} => Len(held[t]) < MaxDepth
    /\ pc[t] = "wCount" => held[t] = <<>>
    /\ pc[t] \in {"wuCount", "wuStore"} =>
         held[t] # <<>> /\ Innermost(held[t]) = "W" /\ flag.readers = 0
    /\ pc[t] = "wuStore" => Cardinality(Tokens(held, "W")) = 1

IInv ==
  /\ TypeOK
  /\ WordMatchesGuards
  /\ OwnerAlone
  /\ PcMatchesGuards
  /\ CrashOnlyOnMisuse

(* The lock implements its promise: every step of the threads is a step of *)
(* RWLock on the same guards, or leaves them alone.                        *)
Promise == INSTANCE RWLock
ImplementsRWLock == Promise!Spec

(* No wake-up is lost: a thread only spins for ever when other threads     *)
(* keep giving up guards (the scheduler lets them overtake it: nothing in  *)
(* the code keeps readers from overlapping in front of a writer), or when  *)
(* some thread waits for its own read guard, which Lock.h:16 forbids.      *)
Spins(t)          == pc[t] \in {"wSpin", "rLoad", "rCas"}
KeepsUnlocking(t) == []<><<Unlock(t)>>_vars
WaitsForItself(t) == pc[t] = "wSpin" /\ HasMode(held[t], "R")
StarvedOnlyByTraffic ==
  \A t \in Threads :
    <>[](Spins(t) /\ crash = "none") =>
      \/ \E u \in Threads \ {t} : KeepsUnlocking(u)
      \/ \E u \in Threads : <>[]WaitsForItself(u)

=============================================================================
