--------------------------- MODULE WaitContainer ---------------------------
(***************************************************************************)
(* LockStack (GameServer/ConcurrentStack.h) and LockQueue                  *)
(* (GameServer/ConcurrentQueue.h): a container under a mutex whose WaitPop *)
(* sleeps on a condition variable until there is something to pop.  What   *)
(* runs under the mutex is one step.                                       *)
(***************************************************************************)
EXTENDS Integers, Sequences, FiniteSets

CONSTANTS
  Poppers,       (* the threads that pop                                   *)
  MaxPushes      (* bound: how many values are pushed                      *)

ASSUME WaitContainerAssumption ==
  /\ IsFiniteSet(Poppers)
  /\ MaxPushes \in Nat

VARIABLES
  kind,        (* "stack": the object is a LockStack, "queue": a LockQueue *)
  items,       (* the container, the value to pop next first               *)
  pushed,      (* how many values were pushed; they are 1, 2, ...          *)
  waiting,     (* threads asleep in _conVar.wait                           *)
  awake,       (* threads woken there that do not have the mutex yet       *)
  popped       (* the values popped, in their order                        *)

containerVars == <<kind, items, pushed, waiting, awake, popped>>

ContainerInit ==
  /\ kind \in {"stack", "queue"}
  /\ items = <<>>
  /\ pushed = 0
  /\ waiting = {}
  /\ awake = {}
  /\ popped = <<>>

(* A queue whose values come out last in, first out.                       *)
MutPlace(value) == <<value>> \o items

(* _stack.push and _queue.push.                                            *)
Place(value) ==
  IF kind = "stack" THEN <<value>> \o items ELSE Append(items, value)

(* A Push that only notifies when the container was empty.                 *)
MutNotifyOne ==
  IF waiting = {} \/ items # <<>>
  THEN UNCHANGED <<waiting, awake>>
  ELSE \E t \in waiting : waiting' = waiting \ {t} /\ awake' = awake \cup {t}

(* _conVar.notify_one: one thread wakes if any sleeps.                     *)
NotifyOne ==
  IF waiting = {}
  THEN UNCHANGED <<waiting, awake>>
  ELSE \E t \in waiting : waiting' = waiting \ {t} /\ awake' = awake \cup {t}

Push ==
  /\ pushed < MaxPushes
  /\ pushed' = pushed + 1
  /\ items' = Place(pushed')
  /\ NotifyOne
  /\ UNCHANGED <<kind, popped>>

(* A Take that reads the value and leaves it where it is.                  *)
MutTake ==
  /\ popped' = Append(popped, Head(items))
  /\ UNCHANGED items

Take ==
  /\ popped' = Append(popped, Head(items))
  /\ items' = Tail(items)

(* TryPop and Empty return at once when there is nothing.                  *)
TryPop(t) ==
  /\ t \notin waiting \cup awake
  /\ items # <<>>
  /\ Take
  /\ UNCHANGED <<kind, pushed, waiting, awake>>

(* WaitPop, until it has a value or sleeps.                                *)
WaitPop(t) ==
  /\ t \notin waiting \cup awake
  /\ IF items = <<>>
     THEN waiting' = waiting \cup {t} /\ UNCHANGED <<items, popped>>
     ELSE Take /\ UNCHANGED waiting
  /\ UNCHANGED <<kind, pushed, awake>>

(* A condition variable may wake a thread that nobody notified.            *)
WakeSpuriously(t) ==
  /\ t \in waiting
  /\ waiting' = waiting \ {t}
  /\ awake' = awake \cup {t}
  /\ UNCHANGED <<kind, items, pushed, popped>>

(* A thread woken has the mutex and asks the predicate again.              *)
Recheck(t) ==
  /\ t \in awake
  /\ awake' = awake \ {t}
  /\ IF items = <<>>
     THEN waiting' = waiting \cup {t} /\ UNCHANGED <<items, popped>>
     ELSE Take /\ UNCHANGED waiting
  /\ UNCHANGED <<kind, pushed>>

ContainerNext ==
  \/ Push
  \/ \E t \in Poppers :
       \/ kind = "stack" /\ TryPop(t)
       \/ WaitPop(t)
       \/ WakeSpuriously(t)
       \/ Recheck(t)

ContainerSpec == ContainerInit /\ [][ContainerNext]_containerVars

(* A thread that was woken gets the mutex in the end.                      *)
ContainerFairness == \A t \in Poppers : WF_containerVars(Recheck(t))

-----------------------------------------------------------------------------
(* Properties                                                              *)

ContainerTypeOK ==
  /\ kind \in {"stack", "queue"}
  /\ items \in Seq(1 .. MaxPushes)
  /\ pushed \in 0 .. MaxPushes
  /\ waiting \subseteq Poppers
  /\ awake \subseteq Poppers
  /\ popped \in Seq(1 .. MaxPushes)
  /\ Len(popped) <= pushed

(* No wakeup is lost: while anyone sleeps, as many threads are on their    *)
(* way to the mutex as there are values, so that each value has a taker    *)
(* (Push notifies once for every value, WaitPop asks again).               *)
NoLostWakeup ==
  /\ waiting \cap awake = {}
  /\ waiting # {} => Len(items) <= Cardinality(awake)

(* Every value is given out once: whoever pops them, the values popped and *)
(* those in the container are the values pushed, none lost and none twice, *)
(* and LockQueue gives them out in the order they were pushed.             *)
GivenOutOnce ==
  LET all == popped \o items
  IN  /\ Len(all) = pushed
      /\ {all[i] : i \in 1 .. pushed} = 1 .. pushed
      /\ kind = "queue" => \A i \in 1 .. pushed : all[i] = i

(* Values and sleeping threads do not stay together for good.              *)
ValuesMeetTakers ==
  (items # <<>> /\ waiting # {}) ~> (items = <<>> \/ waiting = {})

=============================================================================
