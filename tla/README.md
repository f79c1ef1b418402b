# A verification project for the game server

TLA+ modules, TLC configurations and TLAPS proofs for the C++ game server in
`src/` (`ServerCore`, a static library; `GameServer` and `DummyClient`, two
programs). Sources are Korean-commented and encoded in CP949; line numbers below
are those of the files as they are. The repository has no tests and no README:
what the code promises is in its comments.

    tlc -workers 2 -config RWSpinLock.cfg MCRWSpinLock
    tlapm RWSpinLockProofs.tla

## 1. The system

| component | state | operations | used by |
|---|---|---|---|
| `Lock`, `ReadLockGuard`, `WriteLockGuard` (Lock.h/.cpp) | `_lockFag`, an atomic 32-bit word (owner id, read count); `_writeCount`, a plain uint16 | WriteLock, WriteUnlock, RaedLock, ReadUnlock, only called by the guards | MemoryPool, the managers, through the macros of CoreMacro.h |
| `DeadLockProfiler` | names to ids, the history of nested locks, `LLockStack` of each thread | PushLock, PopLock, CheckCycle/DFS; first thing every function of Lock does under `_DEBUG` | Lock |
| `Memory`, `MemoryPool` | the table from size to pool; a queue and a count per pool; a header per block | Allocate, Release; Push, Pop | PoolAllocator, so xnew, xdelete and StlAllocator under `_DEBUG` |
| `RecvBuffer` | a vector and two cursors | OnWrite, OnRead, Clean | nobody yet |
| `ServerHelper` | listening sockets, sessions with two buffers each, two maps of buffers by symbol, one mutex | selectUpdate on a thread of its own; Update, Read, Write, AddLitener, AddClient on the user's | nobody now (included by both programs) |
| `LockStack`, `LockQueue` | a container, a mutex, a condition variable | Push, TryPop, WaitPop, Empty | nobody now |
| `ThreadManager`, CoreTLS, CoreGlobal | `LThreadId` from a static counter, the list of threads | Launch, Join, InitTLS | GameServer/main.cpp |
| `IocpCore`, `IocpEvent`, `Listener`, `Session` | one completion port, one AcceptEvent that is posted over and over, the session being accepted | Register, Dispatch; StartAccept, RegisterAccept, ProcessAccept | GameServer/main.cpp, five workers |
| `LockFreeStack` | an atomic head, nodes on the heap | Push, TryPop | nobody now |
| SList (TestLockFree.cpp) | a 16-byte header of two words, entries of the caller | PushEntrySList, PopEntrySList (unfinished) | nobody now |
| `RefCountable` | an atomic count | AddRef, ReleaseRef | nobody now |
| `TypeCast` | a table of bits, an id per class | IndexOf, MakeTable, CanCast, TypeCast | nobody now |
| `StompAllocator` | the pages of VirtualAlloc | Alloc, Release | nobody now |
| the rest | | LockFreeQueue, SendBuffer, ObjectPool, SocketUtils, NetAddress, DummyClient | see 5 |

Interactions: guards call Lock, Lock calls the profiler before it touches its
word, the pools take a Lock around their queue, the allocator calls the pools.
The IOCP workers dispatch completions to the Listener, which allocates its event
from the pools. ServerHelper shares its vectors between two threads under one
mutex and gives that mutex up around `select`.

What is hard: spinning threads on one word and an unprotected counter; two
threads that nest locks; a depth-first search that must find a cycle before the
threads wait in it; a pool whose count is changed outside the lock; waiting
threads and notifications; fd_sets that are old when they are used; ids given
out before main() by two managers; a node that is read after another thread
deleted it; a header read in two halves. PROJECT.json
`hazards` lists each at its line with the properties that answer it.

What makes each component correct:

- the lock: one owner, or readers; the word and the counter are the guards; no
  CRASH for callers that keep the rules of Lock.h:14-16; nobody waits on a free
  lock;
- the profiler: never a process that waits in a circle, never an alarm without a
  cycle; its stacks are the guards;
- the memory: a block in one place, back in the pool it came from, counted; a
  pool for every size;
- the receive buffer: valid data between the cursors, room after Clean;
- the select server: streams in order over every buffer, one receiver for what
  is written, every arrived byte received in the end;
- the listener: one user of an event at a time, its session alive while the
  system writes to it, accepting for as long as completions succeed;
- the thread ids: distinct, and not 0, by the time a thread can take a lock;
- the containers: no value lost, none twice, nobody asleep beside a value;
- the lock-free stack: a stack, as far as its own comment says it is one (one
  thread inside TryPop at a time); SList: no entry lost to a header read in halves;
- the reference count: the object deleted once, by the last holder;
- the casts: true for the bases of an object's class and for nothing else;
- the stomp allocator: each block on pages of its own, the byte past it on none.

## 2. Modules

| module | models | state and actions |
|---|---|---|
| `RWGuards` | the guards of a thread as a sequence of modes, and when one may be granted | operators only |
| `RWLock` | what the lock promises | `held`; AcquireWrite, AcquireRead, Release |
| `RWSpinLock` | Lock.cpp, one action per access to shared state | `flag`, `writeCount`, `pc`, `expected`, `held`, `crash` |
| `RWSpinLockProofs` | proofs about RWSpinLock | |
| `CycleSearch` | CheckCycle and DFS | a search as a record, a call as a record; recursive functions |
| `CycleSearchProofs` | proofs about CycleSearch | |
| `DeadLockProfiler` | PushLock, PopLock | `nameToId`, `lockHistory`, `lockStack`, `crash` |
| `DebugLocking` | threads, several locks of RWLock's kind and the profiler | Request (profiler), Grant (lock), Unlock (profiler), Release (lock) |
| `DebugLockingProofs` | proofs about DebugLocking and DeadLockProfiler | |
| `PoolTable` | Memory::Memory | the constructor's loops as recursive functions: `Begun` before the first, `PoolMade` one body with its while loop, `Turn` one turn, `Built[n]` after n turns |
| `Memory` | Allocate, Release, Pop, Push | AllocateLarge, Pop (under the lock), TakeBlock (after it), Release, Push |
| `MemoryProofs` | proofs about both | |
| `RecvBuffer` | RecvBuffer | OnWrite, OnRead, Clean |
| `ServerHelper` | ServerHelper and the network around it | Snapshot, Select, Serve; AddLitener, AddClient, Update, Read, Write; the network |
| `ServerHelperProofs` | proofs about ServerHelper | |
| `WaitContainer` | LockStack and LockQueue | Push, TryPop, WaitPop, WakeSpuriously, Recheck |
| `WaitContainerProofs` | proofs about WaitContainer | |
| `ThreadManager` | InitTLS, Launch, the constructors of both ThreadManagers | `SThreadID`, `LThreadId`, `made`, `worker`; Construct, Launch, Start |
| `IocpAccept` | Listener, IocpCore and the lifetime of Sessions, as main.cpp uses them; EXTENDS ThreadManager | StartAccept, RegisterAccept, AcceptEx, Return; Dispatch, ProcessAccept; the clients and the system |
| `IocpAcceptProofs` | proofs about both | |
| `SharedMemory` | the constants of the next three | |
| `StackPromise` | what a stack without locks promises, and when it is void | `items`, `popped`, `promise` |
| `LockFreeStack` | LockFreeStack, one action per access to `_head` or a shared node | NewNode, PushCas, TryPop, ReadNext, PopCas, Take; nodes deleted and given out again |
| `SList` | the third list of TestLockFree.cpp | PushEntrySList, ReadLow, ReadHigh, Link, the exchange; Pop, which reads and never exchanges |
| `RefCounting` | RefCountable | AddRef, ReleaseRef, delete this |
| `TypeCast` | TypeCast.h | the type list, IndexOf, the table, CanCast, as operators and recursive functions |
| `StompAllocator` | StompAllocator and VirtualAlloc | `reserved`, `blocks`; Alloc, AllocFails, ReleaseBlock |
| `PartsProofs` | proofs about the parts that MCSequential and MCLockFree put together: RecvBuffer, CycleSearch's use, TypeCast, StompAllocator, LockFreeStack, SList, RefCounting | |
| `MC...` | instances for TLC: constants only, but for three | MCSequential, MCParts and MCLockFree let `part`, `guarded` and `structure` say which of several independent components a behaviour is about, so that one run checks them all |

`RWSpinLock` keeps the 32-bit word as two halves of `Half` values each;
`FetchAdd` and `FetchSub` carry between them, so overflow is not hidden. A
function of Lock returns when its guard is appended to `held` (or taken off it);
between its accesses the thread is at a `pc`. A failed CAS of WriteLock changes
nothing, so only the successful one is an action; a failed CAS of RaedLock makes
the thread load again. `Timeouts` lets the ten seconds pass at any time.

`DebugLocking` lets the locks belong to classes in every way: the macros of
CoreMacro.h:11 name a lock by its class, so two objects of a class share an id,
and nesting one inside the other leaves no trace in the history. Circles among
such locks are what the profiler cannot see; CircularWaitOnlyWithinAClass says
that there are no others. It uses the abstract lock because `RWSpinLock` is
proved to implement it. MULTIPLE_UNLOCK, DEADLOCK_DETECTED and the printing loop
that runs off `_parent` (OUT_OF_RANGE) end the process. `FinishLeaf` is the statement
`_finished[here] == true;`, which does nothing.

`Memory` names a pool by its block size. `NO_POOL` stands for the call through an
entry of `_poolTable` that was never written. `WRITE_LOCK` sections are one step
each, which `RWSpinLock` justifies.

`WaitContainer` is both containers: `kind` says which one the object is.

`ServerHelper` numbers the bytes of each stream. AddLitener and AddClient push
into the vectors without the mutex, so the model calls them before StartThread
only, the one way a caller can use them. `connect` may succeed (bConnect stays
unset until the next Update finds the socket connected), be under way or be
refused (bConnect is set at once), as the code treats every error alike:
EINPROGRESS is not a Winsock result.

`IocpAccept` follows each shared_ptr: a Session is alive while an event's
`_session` or a thread's stack (`frames`) refers to it, and its destructor
closes the socket. The ids come from `ThreadManager`: the manager of
CoreGlobal.cpp:12 and the one of main.cpp:19 are both constructed before main()
runs, in either order. `event` says who has an event: a thread, the system, or
nobody any more. Nothing in the repository sets `IocpEvent::owner`, and then the
first completion ends the process (IocpCore.cpp:37); `owner` starts either way, so
that the rest of the handler is checked for the program that sets it. AcceptEx
that is done at once also posts a completion, as Winsock does.

`LockFreeStack`: the heap may give a deleted address out again, and a deleted
node's fields keep what the memory held until then. Reading or deleting a deleted
node ends the process (`stackCrash`). `chain` and `overlapped` are history: the
nodes as the successful CASes made the stack, and whether two threads were ever
inside TryPop between the load of `_head` and the delete. The comment at
ConcurrentStack.h:132 leaves that case open, so the promise of `StackPromise` is
void from then on; that Push may be called by any number of threads, and while
one thread pops, is what it keeps. A node whose address is reused under a
*pushing* thread does no harm, since Push compares with the `next` it will link
to; the run has two addresses, so reuse happens at once.

`SList` reads its header in two words in either order. What makes a torn
header harmless is that the exchange compares both words; since no entry leaves
the list, not even counts that wrap around could make a stale one match. As the
source stands the exchange of PopEntrySList is commented out: it returns when it
finds the list empty and loops for ever otherwise, so nothing is ever taken out,
and the model says so.
`DepthLimit` and `SequenceLimit` stand for 2^16 and 2^48.

`RecvBuffer`: OnWrite and OnRead return false whether they refuse or not, a
constant that nothing reads; no variable keeps it.

`TypeCast` takes every single-inheritance hierarchy of the classes, every list of
them, and nullptr. CastsToBases is about casts between the classes of the list. A
cast to a class that is not in the list reads the table at the column -1, which is
the last column of the row before: that answer is the run cast_unlisted. For the
first row it is memory outside the table, which the model takes to answer no.

## 3. Runs

| run | instance | checks |
|---|---|---|
| lock | 2 threads, depth 3, R to W and timeouts, a half of 8 values | MutualExclusion, WriteCountIsPrivate, CrashOnlyOnMisuse, IInv, ImplementsRWLock, StarvedOnlyByTraffic |
| lock_id0 | 2 threads, ids 0 and 1 | MutualExclusion **violated** |
| parts | pools: 3 threads, 3 blocks, 4 pools, 4 sizes | TypeOK, OnePlace, BackToItsPool, CountIsHandedOut |
| | containers: 3 poppers, 5 values, either kind | ContainerTypeOK, NoLostWakeup, GivenOutOnce, ValuesMeetTakers |
| | a buffer of 3 times 2 bytes; all 4096 histories of 4 locks; all lists and hierarchies of 4 classes; 3 blocks on pages of 3 bytes in a space of 30 | BufferTypeOK, NoByteCountLost, CleanMakesRoom, FindsEveryCycle, CastsToBases, StompsAreCaught |
| debug_locking | 3 threads, 3 locks in one, two or three classes, depth 2, 6 guards in all | TypeOK, StackIsGuards, LocksHaveOneOrder, NoMultipleUnlock, CircularWaitOnlyWithinAClass |
| debug_locking_alarm | 2 threads, 3 locks of a class each, depth 2 | StopsOnlyForACycle **violated** |
| memory_table | the loops and limits of the source | EverySizeHasAPool **violated** |
| recv_buffer_clean | 3 buffers of 2 bytes | ValidBetweenCursors **violated** |
| select_server | 1 listener, 1 guest, 1 client, own symbols or one for all, 2 bytes in and 2 out | TypeOK, ReceivedInOrder, SentInOrder, WrittenToOne, UnservedOnlyByOldSelect |
| iocp_accept | 2 managers in either order, 1 event as in the program, 2 workers, 3 clients, owner set or not | TypeOK, BufferOutlivesAccept, HandledByOne, IdsFitTheLock, WaitersAreAccepted |
| cast_unlisted | the lists and hierarchies of parts | OnlyToBases **violated** |
| iocp_failed | as iocp_accept | RegisteredAgain **violated** |
| lock_free | 3 threads; 2 nodes and 2 values; 3 entries; 3 references | TypeOK, WholeUntilOverlap, EveryEntryListed, DeletedByTheLast, ImplementsStack |

Bounds. Two threads that compete, at depth 3 (write, read, write is the nesting
that ends in INVALID_UNLOCK_ORDER), reach every branch of Lock.cpp; that a third
thread changes nothing is what the theorems say. A half of 8 values is more than
the guards there can be, so overflow is excluded; in the program it needs 65536
of them. The theorems make that a hypothesis (`IdsAndGuardsFit`), so nothing
here says what the carry of a 65536th read guard into the owner half would do.
Three threads with two guards each (six in all) on three locks can wait for each
other in a circle of two or of three. Three blocks among three threads let a
block be popped while another one's header is written and a third is on its way
back. Four locks give cycles of length 2, 3 and 4, and leaves discovered before
and after their successors. Four classes give chains, forks and unrelated
classes, and lists that leave some out, in every order. Pages of three bytes
with two to a granule let blocks end at, before and after a page's end and lie
next to each other. The small pool table has a pool for every size and sizes at
both ends of a pool and beyond the last. Three buffers of two bytes let the
cursors meet, fill the buffer and move. In ServerHelper bytes have numbers, so
two per direction show loss, repetition and order; MaxBytes bounds the bytes
that all the other programs send together, and the bytes the user writes. In
IocpAccept a stack holds three SessionRefs at most, a handler's and two of
RegisterAccept (`MaxFrames`: the depth to which AcceptEx fails in a row), and
there are more places for sessions than references; a third client waits when an
event was used twice. Two addresses are enough for a node to be deleted and its
address pushed again while another thread still has it; three threads on SList
put two pushes between the two halves of a third one's read. DepthLimit 2 wraps
around with three entries, SequenceLimit 4 does not, as 2^48 does not in the
program.

Deadlock checking is off where the program does stop (a CRASH, a full model of a
finite history, all blocks handed out).

Fairness. RWSpinLock: a thread inside Lock keeps running and a thread inside a
guard's scope comes to its end (WF of InsideLock and Unlock); nobody has to ask
for a guard. With it StarvedOnlyByTraffic says no more than the code: a spinning
thread is served, or the timeout ends the process, or others keep taking and
giving up guards in front of it (nothing in the code orders the threads), or
some thread broke Lock.h:16 and waits for its own read guard.
WaitContainer: a thread that was woken gets the mutex in the end (WF of Recheck).
ServerHelper: the select thread runs, and mlock is free again after each Update
(WF of Snapshot, Select, Serve); Select is enabled only when it would return.
IocpAccept: threads run (WF of each thread's steps), and the system accepts a
client that waits if events are posted again and again (SF: the backlog is a
queue, so nobody is passed over for ever). WaitersAreAccepted needs both, and has
its conditions in the formula: the events have an owner, StartAccept came to its
end, and not every event was lost with a completion that failed. What the source
does when an event is lost is the run iocp_failed; without an owner the process
has ended, and the formula promises nothing.
The lock-free parts have no liveness property: under a weak CAS that may always
fail nothing in the code makes one thread succeed.

### What the violated runs show

- **lock_id0**: the owner half of a free word is 0, so the thread with the id 0 is
  always "the owner": it enters without writing the word. 0 is the first id
  InitTLS gives out, and the id of threads that never called it.
- **debug_locking_alarm**: take A alone, then B and inside it A. A has no
  successors and is never marked finished, so the edge from B to A counts as a
  back edge; the loop that prints the cycle finds no ancestor and walks past the
  root. The other direction is safe: the run parts shows that no cycle is missed,
  and that a report that is printed to its end is real.
- **memory_table**: the pools end at 3872 bytes, the table at 4096.
- **recv_buffer_clean**: memcpy_s from `_writePos` in place of `_readPos`.
- **cast_unlisted**: say the list is 4, 1, where 4 derives from 1. Asked whether an
  object of class 1 is one of class 2, CanCast reads the last cell of the row of 4,
  which says that a 4 is a 1, and answers yes. TypeCast.h:199 calls it C#'s `is`.
- **iocp_failed**: a client resets, the completion of its accept comes back as
  failed, and Dispatch leaves it at a TODO. The event, the only one, is not
  registered again, though Listener.cpp:111 says that it always has to be.

UnservedOnlyByOldSelect has an escape that is real: Update connects a client while
select sleeps on sets without it; if nothing else becomes ready, it never returns
and the client is not served. No comment promises otherwise.

## 4. Proofs

`RWSpinLockProofs` proves, for every number of threads, every depth and every
width of the word, under `IdsAndGuardsFit` (ids are distinct, not 0 and fit the
half; so do all the guards): TypeCorrect, MutualExclusionHolds,
WriteCountIsPrivateHolds, CrashOnlyOnMisuseHolds and ImplementsPromise, the last
one the refinement of RWLock by RWSpinLock with the same `held`.

The inductive invariant `IInv`: exclusion alone is not inductive, since a thread
may have its id in the word before it has its first guard and after it has given
up its last count. So (1) the word *is* the guards (`WordMatchesGuards`: the read
count is the number of read guards, the owner half names the thread that owns or
is about to, `_writeCount` is the number of write guards until the last one
goes), (2) `OwnerAlone`, the thread so named excludes everyone, and (3)
`PcMatchesGuards`, what a thread inside Lock knows of its own guards. A CAS from
EMPTY_FLAG then finds no guard at all, and a reader's CAS finds no owner,
whatever happened since its load. Counting is done with the pairs
<<thread, depth>> (`Tokens`) and the finite-set theorems of the library.

`WaitContainerProofs` proves NoLostWakeupHolds and GivenOutOnceHolds for any
number of threads and values. NoLostWakeup is inductive once `waiting` and `awake`
are disjoint: a thread only falls asleep when there is no value, and each value
that comes wakes one thread as long as one sleeps. GivenOutOnce covers the stack
and the queue: a value is in the container or was taken, once. PartsAreApart, in
the same module, says that a behaviour of MCParts is one of Memory, of
WaitContainer and of MCSequential, so that what is proved of each holds there.

`MemoryProofs` proves OnePlaceHolds, BackToItsPoolHolds and
CountIsHandedOutHolds for any number of threads, blocks and sizes. What makes
them inductive is that four things tell the same story about a block: where it is
(`QueueInv`, `CallInv`: in one queue and marked 0 there, or in one thread's hands
and nobody's), what it was allocated with (`capacity`), what its header says
(`UserInv`, `CameFrom`: the header of a used block leads through the table to
that capacity), and the count. A block that was popped keeps its header 0 until
the popping thread, alone with it, writes it, so the assertion never fails; the
count goes up when the block gets its user and down when it is pushed, and
`HandedOut` is exactly the blocks in between.

What the constructor leaves in the table of pools is proved too, from no more than
that none of its loops goes past `_poolTable` (`PoolTableAssumption`; otherwise the
while loop would write behind the array). `Built` runs the loops turn by turn, and
TableIsRight says that they end, that an entry the while loop wrote has the
smallest pool that is large enough, and that just the entries above the largest
pool are not written. The invariant of the turns is `MakingInv`: the pools made so
far are below `tableIndex`, an entry is right for them, and what is at or above
`tableIndex` is untouched. That the loops end is a count of turns: `TurnsTo[k]`
bounds those of the first k loops, and `InTime` says that loop k had no more of
its share than its `size` shows. With the loops of the source
SourceTableEndsEarly gives the sizes that have no pool, 3869 to 4092 and no others,
and OnlyLastSizesHaveNoPool that asking for one of them is the only way to call
through an entry that was never written; the run memory_table does so.

`PartsProofs`, the receive buffer: the cursors' type, NoByteCountLostHolds and
CleanMakesRoomHolds for every size and count of buffers; their conjunction is
inductive. BufferIsAsSpecified carries them over to the composed run. What Clean does to the *contents* is the violated run.

`IocpAcceptProofs` proves IdsFitTheLockHolds, BufferOutlivesAcceptHolds and
HandledByOneHolds for any number of workers, events, sessions, clients and of
managers, of which there must be two (`ThreadManagerAssumption`: with one, main
would keep the id 0). `ManagerInv` says that the counter is past every id given
out, and that main's is not 0 once two managers were made. `HandInv` says that a
thread inside a handler has its event alone, `FrameInv` that between lines 84 and
87 of Listener.cpp the event's session is also on the thread's stack, and
`SessionInv` that no two events share one: then the session the system writes to
is referred to by its event until the completion is handled.

`PartsProofs` on the lock-free stack: WholeUntilOverlapHolds and ImplementsStackHolds, a
refinement of StackPromise, for any number of threads, nodes and values. The
invariant (`Whole`) holds while `overlapped` is "no": the list in memory is
`chain`, a node outside it is one thread's (`Private`), one thread pops
(`OnePopper`), and what it has read of the first node is still so (`ReadIsTrue`),
because nobody changes the `next` of a node on the chain, and only a pop takes
one off it. The stack maps to
the values of `chain`, a pop to its successful CAS.

SList: EveryEntryListedHolds for every number of threads and
entries and every width of the counts: an entry being pushed is in no list and no
other thread's (`Owned`), and before the exchange it leads to what the exchange
will compare with (`LinkedToExpected`); then whatever two halves were read, the
exchange only succeeds on a header that has both.

RefCounting: DeletedByTheLastHolds. The count is the number of
references, and the object is alive, in the hands of the one thread that is to
delete it, or dead.

PartsAreLockFree says that the composed run is a run of all three, so that
LockFreeTypeCorrect follows from their types.

`CycleSearchProofs` proves CheckCycleFindsCycles for every history of any number
of locks. The search calls itself, so the first half shows that `DFS(history)` is
the function its definition describes: a call is heavier than the calls it makes
(`Weight`: the locks not yet discovered count for more than the successors of one
lock), and for the calls below a weight the function exists by induction on it.
The second half is what a call returns (`Answers`), by induction on the same
weight. The usual argument, that a finished lock has only finished successors,
fails here, because a lock without successors is never marked as finished. So
a lock is *done with* (`DoneWith`) when it is finished or is discovered and has no
successors; what is done with has its successors done with and no cycle (`Sound`);
and a call without an alarm leaves its lock and all it discovered done with
(`Visited`). The false back edges this causes raise alarms, and never hide a
cycle. The other direction, that DEADLOCK_DETECTED is right, needs that each
`_parent` was discovered earlier and has the lock among its successors
(`ParentsFirst`): a loop that ends has walked a cycle (PrintedIsCycle). In
`PartsProofs` FindsEveryCycleHolds is the same of MCSequential.

`DebugLockingProofs` proves all that run debug_locking checks, for any number of
threads, locks, classes and guards. `IInv` adds to the properties what a thread in
each phase has (`PhasesFit`) and that the history is about names that were issued
(`HistoryIsIssued`, so that the locks CheckCycle does not look at have no
successors). LocksHaveOneOrder is inductive by CheckCycleFindsCycles: a PushLock that
records a new pair and does not end the process leaves no cycle, and the pair at
the top of a stack was recorded by the PushLock that put it there, by this thread
or another. CircularWaitOnlyWithinAClass follows from the invariant without another
induction over behaviours: if no class has a circle of its own, then from a
waiting thread one comes, through threads that wait for the same name, to one that
waits for another name inside the guard that is in the way; so the names waited
for each lead to another in the history, which has no cycle.

EveryLockIsAnRWLock is the refinement of `RWLock` by DebugLocking, once for each
lock: `GuardsOn` takes the guards on one lock out of those a thread nests
(a recursive function over its guards, followed by induction), a Grant is RWLock's
AcquireWrite or AcquireRead, a Release its Release, and the steps of the profiler
and of the other locks stutter. It needs that a waiting thread asked as
Lock.h:14-16 allows (`AsksAsAllowed`) and that a thread with a write guard shares
its lock with nobody (`WritersAreAlone`). With ImplementsPromise it closes the circle:
RWSpinLock implements RWLock, and RWLock is what DebugLocking uses.

`ServerHelperProofs` proves ReceivedInOrderHolds, SentInOrderHolds,
WrittenToOneHolds and ServerTypeCorrect for any finite numbers of sockets and
symbols, any namings and any number of bytes. The invariant `Inv` has the two streams
of a session, from one end to the other (`InOrder`, `OutOrder`), and around them:
a socket that is no session has not been read from (`Fresh`), only a connected
session that is the first of its symbol was ever written to (`OnlyFirst`), a
symbol without a session gives nothing to read (`Unnamed`), what Update has not
taken is the end of what was written (`Pending`), and the sum of the counts bounds
every buffer (`Bounds`). A step that moves bytes from one sequence of a stream to the
next leaves the concatenation as it is (BytesMove); `Collected`, the loop of
Update over the sessions, is followed by induction over the vector (CollectedOnly),
and `Total`, a fold over the streams, by induction over its finite domain
(TotalIsSum).

`PartsProofs` on the casts: CastsToBasesHolds, for every list over any number of
classes. IndexOf and MakeTable are recursive functions; by induction over the
rest of the list and of the table, IndexOf finds the first place of a class, and
MakeTable sets the cells of the conversions that there are, row by row, so that
no cell is another pair's. On the stomp allocator: StompsAreCaughtHolds, for every size of
pages and granules, from `StompInv`: reservations are of whole pages, apart and
begin at a granule, each block lies at the end of its own.

Induction. The library's induction theorems take an operator and cannot be
instantiated; NatSetInduction and StrongInduction (in CycleSearchProofs, from the
well-foundedness of the numbers) take the *set* of the numbers with a property
instead, and the recursive functions above are followed with them: first that a
function with the equations exists, then what it is at each argument.

Only model-checked: the liveness properties (StarvedOnlyByTraffic, ValuesMeetTakers,
UnservedOnlyByOldSelect, WaitersAreAccepted), which are beyond this prover, as
ENABLED is. Every safety property of a passing run is stated by a theorem.

## 5. Not modelled

- LockFreeQueue: Push has no exit and TryPop no statement.
- ObjectPool, SendBuffer, Container, NetAddress, SocketUtils, DummyClient: no
  behaviour over time (wrappers, aliases, one guarded copy). SetRecvBufferSize
  and SetSendBufferSize set each other's option; that is visible in the text.
- TSharedPtr and the first two SList attempts are commented out.
- Blocking accept and send inside ServerHelper's mutex, and its destructor.
  AddLitener and AddClient beside a running selectUpdate push into the vectors
  without the mutex: undefined behaviour that no program of the repository meets.
  A failed accept and a half-closed peer are actions of the model, but no comment
  says what is to become of them, so no property does.
- ~Listener and CloseSocket: main waits in Join for workers that never end, and
  DestroyTLS is empty.
- 65536 read guards on one lock: the models and the theorems keep them out.
- What LockFreeStack does once two threads were inside TryPop: the steps are in
  the model, but WholeUntilOverlap and ImplementsStack say nothing from then on, as
  ConcurrentStack.h:132 leaves it open.

## 6. Plan

Done: every part of section 2, checked, with proofs of every safety property of the
passing runs and of three refinements: RWSpinLock and each lock of DebugLocking
implement RWLock, LockFreeStack implements StackPromise.

Left: an abstract channel (what the user has read is a prefix of what the other
side sent, and only grows) that ServerHelper implements for a symbol of one session,
so that its stream properties become a refinement as those of the lock and the
stack are. The liveness properties stay with TLC.
