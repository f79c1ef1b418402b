---------------------------- MODULE RefCounting ----------------------------
(***************************************************************************)
(* RefCountable (ServerCore/RefCounting.h): an object that deletes itself  *)
(* when ReleaseRef brings its atomic count to 0.  The callers keep the     *)
(* rule that only who has a reference uses it.                             *)
(***************************************************************************)
EXTENDS SharedMemory, Integers, FiniteSets

CONSTANTS
  References,  (* the references there can be at once                      *)
  Maker,       (* the thread that makes the object                         *)
  First        (* the reference it has then                                *)

ASSUME RefCountingAssumption ==
  /\ Null \notin Threads
  /\ Maker \in Threads
  /\ First \in References
  /\ IsFiniteSet(References)

VARIABLES
  refCount,    (* _refCount                                                *)
  holder,      (* reference -> the thread that has it                      *)
  released,    (* the threads in ReleaseRef whose refCount is 0            *)
  deletions    (* how many times delete this was run                       *)

refVars == <<refCount, holder, released, deletions>>

Held == {r \in References : holder[r] # Null}

(* The one who makes the object has the first reference.                   *)
RefInit ==
  /\ holder = [r \in References |-> IF r = First THEN Maker ELSE Null]
  /\ refCount = 1
  /\ released = {}
  /\ deletions = 0

(* An increment that another thread's write undoes.                        *)
MutCountUp == refCount

CountUp == refCount + 1

(* t has a reference and makes another one, for itself or for u.           *)
AddRef(t, r, u) ==
  /\ \E own \in References : holder[own] = t
  /\ holder[r] = Null
  /\ holder' = [holder EXCEPT ![r] = u]
  /\ refCount' = CountUp
  /\ UNCHANGED <<released, deletions>>

(* A ReleaseRef that deletes the object when one reference is left.        *)
MutIsLast(old) == old - 1 <= 1

(* refCount == 0, where refCount is the result of the decrement.           *)
IsLast(old) == old - 1 = 0

ReleaseRef(t, r) ==
  /\ holder[r] = t
  /\ t \notin released
  /\ holder' = [holder EXCEPT ![r] = Null]
  /\ refCount' = refCount - 1
  /\ released' = IF IsLast(refCount) THEN released \cup {t} ELSE released
  /\ UNCHANGED deletions

Delete(t) ==
  /\ t \in released
  /\ released' = released \ {t}
  /\ deletions' = deletions + 1
  /\ UNCHANGED <<refCount, holder>>

RefNext ==
  \E t \in Threads :
    \/ \E r \in References : ReleaseRef(t, r) \/ \E u \in Threads : AddRef(t, r, u)
    \/ Delete(t)

RefSpec == RefInit /\ [][RefNext]_refVars

-----------------------------------------------------------------------------
(* Properties                                                              *)

RefTypeOK ==
  /\ refCount \in 0 .. Cardinality(References)
  /\ holder \in [References -> Threads \cup {Null}]
  /\ released \subseteq Threads
  /\ deletions \in Nat

(* The object is deleted once and by nobody but the last: whoever has a    *)
(* reference has an object, and when it is being deleted nobody else is at *)
(* it (ReleaseRef, RefCounting.h:21-30).                                   *)
DeletedByTheLast ==
  /\ released # {} \/ deletions # 0 => Held = {}
  /\ deletions + Cardinality(released) <= 1
  /\ refCount = Cardinality(Held)

=============================================================================
