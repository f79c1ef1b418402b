--------------------------- MODULE LockFreeStack ---------------------------
(***************************************************************************)
(* LockFreeStack (GameServer/ConcurrentStack.h): a linked list whose head  *)
(* is an atomic pointer.  Nodes come from the heap and go back to it, and  *)
(* the heap gives the same address out again.  One action per access to    *)
(* _head or to a node another thread may have.                             *)
(***************************************************************************)
EXTENDS SharedMemory, Integers, Sequences, FiniteSets

CONSTANTS
  Nodes,       (* the addresses the heap can give out                      *)
  Values,      (* what is pushed                                           *)
  Empty        (* in place of a value, when TryPop returns false           *)

ASSUME LockFreeStackAssumption ==
  /\ Null \notin Nodes \cup Values \cup {Empty}
  /\ Values # {}

VARIABLES
  head,        (* _head                                                    *)
  next,        (* node -> its next, kept by the memory after delete        *)
  data,        (* node -> its data                                         *)
  allocated,   (* the nodes new gave out and delete did not take back      *)
  stackPc,     (* where each thread is                                     *)
  mine,        (* thread -> the node of its Push, the oldHead of its TryPop*)
  oldNext,     (* thread -> oldHead->next as it read it                    *)
  chain,       (* history: the nodes of the stack, as the CASes made it,   *)
               (* for as long as overlapped is "no"                        *)
  overlapped,  (* history: "yes" once two threads were inside TryPop       *)
  stackCrash   (* "no", or what the process did with a deleted node        *)

stackVars == <<head, next, data, allocated, stackPc, mine, oldNext, chain,
               overlapped, stackCrash>>

Pops(t) == stackPc[t] \in {"readNext", "popCas", "take"}

(* The constructor leaves _head to atomic, nullptr for a static object.    *)
StackInit ==
  /\ head = Null
  /\ next = [n \in Nodes |-> Null]
  /\ data \in [Nodes -> {CHOOSE v \in Values : TRUE}]
  /\ allocated = {}
  /\ stackPc = [t \in Threads |-> "idle"]
  /\ mine = [t \in Threads |-> Null]
  /\ oldNext = [t \in Threads |-> Null]
  /\ chain = <<>>
  /\ overlapped = "no"
  /\ stackCrash = "no"

At(t, from, to) ==
  /\ stackPc[t] = from
  /\ stackPc' = [stackPc EXCEPT ![t] = to]

Record(nodes) == chain' = IF overlapped' = "yes" THEN <<>> ELSE nodes

-----------------------------------------------------------------------------
(* Push                                                                    *)

(* new Node, and node->next = _head: nobody else has the node yet.         *)
NewNode(t, n, v) ==
  /\ At(t, "idle", "pushCas")
  /\ n \notin allocated
  /\ allocated' = allocated \cup {n}
  /\ data' = [data EXCEPT ![n] = v]
  /\ next' = [next EXCEPT ![n] = head]
  /\ mine' = [mine EXCEPT ![t] = n]
  /\ UNCHANGED <<head, oldNext, chain, overlapped, stackCrash>>

PushCas(t) ==
  /\ At(t, "pushCas", "idle")
  /\ head = next[mine[t]]
  /\ head' = mine[t]
  /\ mine' = [mine EXCEPT ![t] = Null]
  /\ UNCHANGED <<next, data, allocated, oldNext, overlapped, stackCrash>>
  /\ Record(<<mine[t]>> \o chain)

(* The CAS writes what it found into node->next.                           *)
PushCasFailed(t) ==
  /\ stackPc[t] = "pushCas"
  /\ head # next[mine[t]]
  /\ next' = [next EXCEPT ![mine[t]] = head]
  /\ UNCHANGED <<head, data, allocated, stackPc, mine, oldNext, chain,
                 overlapped, stackCrash>>

-----------------------------------------------------------------------------
(* TryPop                                                                  *)

(* nullptr ends the loop before it starts.                                 *)
AfterLoad == IF head = Null THEN "empty" ELSE "readNext"

(* oldHead = _head                                                         *)
TryPop(t) ==
  /\ At(t, "idle", AfterLoad)
  /\ mine' = [mine EXCEPT ![t] = head]
  /\ overlapped' = IF \E u \in Threads : Pops(u) THEN "yes" ELSE overlapped
  /\ Record(chain)
  /\ UNCHANGED <<head, next, data, allocated, oldNext, stackCrash>>

(* The argument oldHead->next is read before the CAS looks at _head.       *)
ReadNext(t) ==
  /\ At(t, "readNext", "popCas")
  /\ mine[t] \in allocated
  /\ oldNext' = [oldNext EXCEPT ![t] = next[mine[t]]]
  /\ UNCHANGED <<head, next, data, allocated, mine, chain, overlapped, stackCrash>>

(* The node is on the heap again: what is read there is not a next.        *)
ReadDeleted(t) ==
  /\ stackPc[t] = "readNext"
  /\ mine[t] \notin allocated
  /\ stackCrash' = "READ_AFTER_DELETE"
  /\ UNCHANGED <<head, next, data, allocated, stackPc, mine, oldNext, chain,
                 overlapped>>

(* A pop that reads the new _head and trusts the next it read before.      *)
MutPopCas(t) ==
  /\ At(t, "popCas", "take")
  /\ mine' = [mine EXCEPT ![t] = head]
  /\ head # Null
  /\ head' = oldNext[t]
  /\ oldNext' = [oldNext EXCEPT ![t] = Null]
  /\ UNCHANGED <<next, data, allocated, overlapped, stackCrash>>
  /\ Record(IF chain = <<>> THEN <<>> ELSE Tail(chain))

PopCas(t) ==
  /\ At(t, "popCas", "take")
  /\ head = mine[t]
  /\ head' = oldNext[t]
  /\ oldNext' = [oldNext EXCEPT ![t] = Null]
  /\ UNCHANGED <<next, data, allocated, mine, overlapped, stackCrash>>
  /\ Record(IF chain = <<>> THEN <<>> ELSE Tail(chain))

(* The CAS writes what it found into oldHead.  A weak one may also fail    *)
(* when _head is oldHead still.                                            *)
PopCasFailed(t) ==
  /\ At(t, "popCas", AfterLoad)
  /\ mine' = [mine EXCEPT ![t] = head]
  /\ oldNext' = [oldNext EXCEPT ![t] = Null]
  /\ UNCHANGED <<head, next, data, allocated, chain, overlapped, stackCrash>>

(* value = oldHead->data, delete oldHead.                                  *)
Take(t) ==
  /\ At(t, "take", "idle")
  /\ mine[t] \in allocated
  /\ allocated' = allocated \ {mine[t]}
  /\ mine' = [mine EXCEPT ![t] = Null]
  /\ UNCHANGED <<head, next, data, oldNext, chain, overlapped, stackCrash>>

DeleteTwice(t) ==
  /\ stackPc[t] = "take"
  /\ mine[t] \notin allocated
  /\ stackCrash' = "DELETED_TWICE"
  /\ UNCHANGED <<head, next, data, allocated, stackPc, mine, oldNext, chain,
                 overlapped>>

ReturnFalse(t) ==
  /\ At(t, "empty", "idle")
  /\ UNCHANGED <<head, next, data, allocated, mine, oldNext, chain, overlapped,
                 stackCrash>>

-----------------------------------------------------------------------------
StackStep(t) ==
  \/ \E n \in Nodes, v \in Values : NewNode(t, n, v)
  \/ PushCas(t) \/ PushCasFailed(t)
  \/ TryPop(t) \/ ReadNext(t) \/ ReadDeleted(t)
  \/ PopCas(t) \/ PopCasFailed(t)
  \/ Take(t) \/ DeleteTwice(t) \/ ReturnFalse(t)

StackNext == stackCrash = "no" /\ \E t \in Threads : StackStep(t)

StackSpec == StackInit /\ [][StackNext]_stackVars

-----------------------------------------------------------------------------
(* Properties                                                              *)

StackTypeOK ==
  /\ head \in Nodes \cup {Null}
  /\ next \in [Nodes -> Nodes \cup {Null}]
  /\ data \in [Nodes -> Values]
  /\ allocated \subseteq Nodes
  /\ stackPc \in [Threads -> {"idle", "pushCas", "readNext", "popCas", "take", "empty"}]
  /\ mine \in [Threads -> Nodes \cup {Null}]
  /\ oldNext \in [Threads -> Nodes \cup {Null}]
  /\ chain \in Seq(Nodes)
  /\ overlapped \in {"no", "yes"}
  /\ stackCrash \in {"no", "READ_AFTER_DELETE", "DELETED_TWICE"}

LinkOf(i) == IF i = Len(chain) THEN Null ELSE chain[i + 1]
Linked ==
  /\ head = IF chain = <<>> THEN Null ELSE chain[1]
  /\ \A i \in 1 .. Len(chain) :
       /\ chain[i] \in allocated
       /\ next[chain[i]] = LinkOf(i)
       /\ \A j \in 1 .. Len(chain) : chain[i] = chain[j] => i = j

(* Unless two threads were inside TryPop at the same time, the memory is   *)
(* the stack: from _head every node that was pushed and not popped is      *)
(* reached, once and in order, it is allocated, and no node is read or     *)
(* deleted after its delete.  With two of them oldHead->next is read from  *)
(* a node the other one deleted, or is a next of the node's earlier life   *)
(* (ConcurrentStack.h:118 and the comment at 132).                         *)
WholeUntilOverlap == overlapped = "no" => Linked /\ stackCrash = "no"

(* For one popping thread at a time it is a stack: the successful CASes    *)
(* are its steps, and TryPop returns the value that was on top.            *)
StackItems ==
  IF overlapped = "yes" THEN <<>> ELSE [i \in 1 .. Len(chain) |-> data[chain[i]]]
PoppedBy(t) ==
  CASE overlapped = "no" /\ stackPc[t] = "take"  -> data[mine[t]]
    [] overlapped = "no" /\ stackPc[t] = "empty" -> Empty
    [] OTHER -> Null
InHands   == [t \in Threads |-> PoppedBy(t)]
StackRule == IF overlapped = "yes" THEN "void" ELSE "kept"

Promise == INSTANCE StackPromise WITH
  items <- StackItems, popped <- InHands, promise <- StackRule
ImplementsStack == Promise!Spec

=============================================================================
