------------------------------- MODULE RWLock -------------------------------
(***************************************************************************)
(* What the reader/writer lock of ServerCore/Lock.h promises to the code   *)
(* between the guards: taking a guard and giving it up are single steps.   *)
(* RWSpinLock is shown to implement this module.                           *)
(***************************************************************************)
EXTENDS RWGuards

CONSTANT Threads       (* the threads that use the lock                    *)

VARIABLE held          (* the guard function: thread -> its guards         *)

Init == held = [t \in Threads |-> <<>>]

AcquireWrite(t) ==
  /\ CanWrite(held, t)
  /\ held' = [held EXCEPT ![t] = Append(@, "W")]

AcquireRead(t) ==
  /\ CanRead(held, t)
  /\ held' = [held EXCEPT ![t] = Append(@, "R")]

Release(t) ==
  /\ held[t] # <<>>
  /\ held' = [held EXCEPT ![t] = Outer(@)]

Next == \E t \in Threads : AcquireWrite(t) \/ AcquireRead(t) \/ Release(t)

Spec == Init /\ [][Next]_held

=============================================================================
