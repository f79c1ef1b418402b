---------------------------- MODULE StackPromise ----------------------------
(***************************************************************************)
(* What a stack without locks promises: Push is a single step on a         *)
(* sequence, and so is a pop, which leaves the value in the hands of one   *)
(* thread.  The promise comes with a rule for the callers: when they break *)
(* it, it is void.                                                         *)
(***************************************************************************)
EXTENDS Sequences

CONSTANTS
  Threads,
  Values,
  Null,     (* no value                                                    *)
  Empty     (* what a pop of an empty stack returns                        *)

VARIABLES
  items,    (* the values, the top first                                   *)
  popped,   (* thread -> the value it popped and is about to return        *)
  promise   (* "kept", or "void" once the callers broke the rule           *)

Init ==
  /\ items = <<>>
  /\ popped = [t \in Threads |-> Null]
  /\ promise = "kept"

Push(v) ==
  /\ items' = <<v>> \o items
  /\ UNCHANGED <<popped, promise>>

Pop(t) ==
  /\ items # <<>>
  /\ popped[t] = Null
  /\ popped' = [popped EXCEPT ![t] = Head(items)]
  /\ items' = Tail(items)
  /\ UNCHANGED promise

PopEmpty(t) ==
  /\ items = <<>>
  /\ popped[t] = Null
  /\ popped' = [popped EXCEPT ![t] = Empty]
  /\ UNCHANGED <<items, promise>>

Return(t) ==
  /\ popped[t] # Null
  /\ popped' = [popped EXCEPT ![t] = Null]
  /\ UNCHANGED <<items, promise>>

BreakRule ==
  /\ promise' = "void"
  /\ items' = <<>>
  /\ popped' = [t \in Threads |-> Null]

Next ==
  /\ promise = "kept"
  /\ \/ \E v \in Values : Push(v)
     \/ \E t \in Threads : Pop(t) \/ PopEmpty(t) \/ Return(t)
     \/ BreakRule

Spec == Init /\ [][Next]_<<items, popped, promise>>

=============================================================================
