------------------------------ MODULE RWGuards ------------------------------
(***************************************************************************)
(* The guards a thread has on one lock (ServerCore/Lock.h, ReadLockGuard   *)
(* and WriteLockGuard).  Guards are stack objects, so the guards of a      *)
(* thread are destroyed in the reverse of the order they were built in: a  *)
(* thread's guards are a sequence of modes, the innermost last.  A guard   *)
(* function h maps every thread to that sequence.                          *)
(***************************************************************************)
EXTENDS Integers, Sequences

Modes == {"W", "R"}

HasMode(s, m) == \E i \in 1 .. Len(s) : s[i] = m

(* t owns the lock: it has at least one write guard.                       *)
Owns(h, t) == HasMode(h[t], "W")

(* A write guard is granted to the owner again (W after W), and to any     *)
(* thread while nobody, the thread itself included, has a guard.           *)
CanWrite(h, t) == Owns(h, t) \/ \A u \in DOMAIN h : h[u] = <<>>

(* A read guard is granted unless another thread owns the lock.            *)
CanRead(h, t) == \A u \in DOMAIN h \ {t} : ~ Owns(h, u)

(* The guard a thread destroys next, and its guards after that.            *)
Innermost(s) == s[Len(s)]
Outer(s)     == SubSeq(s, 1, Len(s) - 1)

(* Two threads never share a lock one of them owns.                        *)
Exclusive(h) ==
  \A t, u \in DOMAIN h : t # u /\ Owns(h, t) => h[u] = <<>>

=============================================================================
