-------------------------- MODULE RWSpinLockProofs --------------------------
(***************************************************************************)
(* Proofs about RWSpinLock for any number of threads, any nesting depth    *)
(* and any word size, as long as IdsAndGuardsFit.                          *)
(***************************************************************************)
EXTENDS RWSpinLock, FiniteSetTheorems, SequenceTheorems, TLAPS

GuardFcns == {h \in [Threads -> Seq(Modes)] :
                \A t \in Threads : Len(h[t]) <= MaxDepth}

-----------------------------------------------------------------------------
(* Lemmas on guard functions and on the count of their guards.             *)

(* The guards are finitely many, and IdsAndGuardsFit bounds their number.  *)
LEMMA TokensFinite ==
  ASSUME IdsAndGuardsFit, NEW h \in GuardFcns, NEW m
  PROVE  /\ IsFiniteSet(Tokens(h, m))
         /\ Cardinality(Tokens(h, m)) \in 0 .. Half - 1
<1> DEFINE All == Threads \X (1 .. MaxDepth)
<1>1. IsFiniteSet(All)
  <2>1. IsFiniteSet(1 .. MaxDepth)
    BY FS_Interval, RWSpinLockAssumption
  <2>2. QED
    BY <2>1, FS_Product, RWSpinLockAssumption
<1>2. Tokens(h, m) \in SUBSET All
  BY DEF Tokens
<1>3. /\ IsFiniteSet(Tokens(h, m))
      /\ Cardinality(Tokens(h, m)) <= Cardinality(All)
  BY <1>1, <1>2, FS_Subset
<1>4. Cardinality(All) \in Nat /\ Cardinality(Tokens(h, m)) \in Nat
  BY <1>1, <1>3, FS_CardinalityType
<1>5. Cardinality(All) < Half
  BY DEF IdsAndGuardsFit
<1>6. QED
  BY <1>3, <1>4, <1>5, RWSpinLockAssumption

(* A new innermost guard is one more guard of its mode.                    *)
LEMMA PushCounts ==
  ASSUME IdsAndGuardsFit, NEW h \in GuardFcns, NEW g \in GuardFcns,
         NEW t \in Threads, NEW m \in Modes, g[t] = Append(h[t], m),
         \A u \in Threads \ {t} : g[u] = h[u]
  PROVE  /\ Cardinality(Tokens(g, m)) = Cardinality(Tokens(h, m)) + 1
         /\ \A k \in Modes \ {m} : Tokens(g, k) = Tokens(h, k)
<1> DEFINE x == <<t, Len(h[t]) + 1>>
<1>1. /\ h[t] \in Seq(Modes) /\ Len(h[t]) \in Nat /\ MaxDepth \in Nat
      /\ Len(h[t]) + 1 <= MaxDepth
  BY RWSpinLockAssumption DEF GuardFcns
<1>2. Tokens(g, m) = Tokens(h, m) \cup {x}
  BY <1>1 DEF GuardFcns, Tokens
<1>3. x \notin Tokens(h, m)
  BY <1>1 DEF Tokens
<1>4. \A k \in Modes \ {m} : Tokens(g, k) = Tokens(h, k)
  <2>1. ASSUME NEW k \in Modes \ {m}, NEW y \in Threads \X (1 .. MaxDepth)
        PROVE  y \in Tokens(g, k) <=> y \in Tokens(h, k)
    <3>1. CASE y[1] = t
      BY <1>1, <3>1 DEF Tokens
    <3>2. CASE y[1] # t
      BY <3>2 DEF Tokens
    <3>3. QED
      BY <3>1, <3>2
  <2>2. \A k : Tokens(g, k) \subseteq Threads \X (1 .. MaxDepth)
               /\ Tokens(h, k) \subseteq Threads \X (1 .. MaxDepth)
    BY DEF Tokens
  <2>3. QED
    BY <2>1, <2>2
<1>5. Cardinality(Tokens(h, m) \cup {x}) = Cardinality(Tokens(h, m)) + 1
  BY <1>3, TokensFinite, FS_AddElement
<1>6. QED
  BY <1>2, <1>4, <1>5

(* Without its innermost guard a thread has one guard of that mode less.   *)
LEMMA PopCounts ==
  ASSUME IdsAndGuardsFit, NEW h \in GuardFcns, NEW g \in GuardFcns,
         NEW t \in Threads, h[t] # <<>>, g[t] = Outer(h[t]),
         \A u \in Threads \ {t} : g[u] = h[u]
  PROVE  /\ Cardinality(Tokens(g, Innermost(h[t]))) =
               Cardinality(Tokens(h, Innermost(h[t]))) - 1
         /\ \A k \in Modes \ {Innermost(h[t])} : Tokens(g, k) = Tokens(h, k)
<1> DEFINE m == Innermost(h[t])
           x == <<t, Len(h[t])>>
<1>1. /\ h[t] \in Seq(Modes) /\ Len(h[t]) \in Nat /\ MaxDepth \in Nat
      /\ Len(h[t]) > 0 /\ Len(h[t]) <= MaxDepth
  BY RWSpinLockAssumption DEF GuardFcns
<1>2. Tokens(g, m) = Tokens(h, m) \ {x}
  BY <1>1 DEF GuardFcns, Tokens, Outer
<1>3. x \in Tokens(h, m)
  BY <1>1 DEF Tokens, Innermost
<1>4. ASSUME NEW k \in Modes \ {m} PROVE Tokens(g, k) = Tokens(h, k)
  <2>1. /\ Len(g[t]) = Len(h[t]) - 1
        /\ \A i \in 1 .. Len(g[t]) : g[t][i] = h[t][i]
    BY <1>1 DEF Outer
  <2>2. h[t][Len(h[t])] # k
    BY DEF Innermost
  <2>3. ASSUME NEW u \in Threads, NEW i \in 1 .. MaxDepth
        PROVE  i <= Len(g[u]) /\ g[u][i] = k <=> i <= Len(h[u]) /\ h[u][i] = k
    <3>1. CASE u = t
      <4>1. i <= Len(h[t]) <=> i <= Len(g[t]) \/ i = Len(h[t])
        BY <1>1, <2>1
      <4>2. i <= Len(g[t]) => g[t][i] = h[t][i] /\ i # Len(h[t])
        BY <1>1, <2>1
      <4> QED
        BY <2>2, <3>1, <4>1, <4>2
    <3>2. CASE u # t
      BY <3>2
    <3> QED
      BY <3>1, <3>2
  <2> QED
    BY <2>3 DEF Tokens
<1>5. IsFiniteSet(Tokens(h, m)) /\ Cardinality(Tokens(h, m)) \in Nat
  BY TokensFinite, RWSpinLockAssumption
<1>6. Cardinality(Tokens(h, m) \ {x}) = Cardinality(Tokens(h, m)) - 1
  BY <1>3, <1>5, FS_RemoveElement
<1>7. QED
  BY <1>2, <1>4, <1>6

(* Arithmetic modulo Half is the identity on its residues.                 *)
LEMMA ModHalf == \A n \in 0 .. Half - 1 : n % Half = n
  BY RWSpinLockAssumption

(* No guard of a mode is counted exactly when nobody has one.              *)
LEMMA NoTokens ==
  ASSUME IdsAndGuardsFit, NEW h \in GuardFcns, NEW m
  PROVE  Cardinality(Tokens(h, m)) = 0 <=> \A t \in Threads : ~ HasMode(h[t], m)
<1>1. Cardinality(Tokens(h, m)) = 0 <=> Tokens(h, m) = {}
  BY TokensFinite, FS_EmptySet
<1>2. ASSUME NEW t \in Threads, HasMode(h[t], m)
      PROVE  Tokens(h, m) # {}
  <2>1. PICK i \in 1 .. Len(h[t]) : h[t][i] = m
    BY <1>2 DEF HasMode
  <2>2. <<t, i>> \in Tokens(h, m)
    BY <2>1, RWSpinLockAssumption DEF GuardFcns, Tokens
  <2>3. QED
    BY <2>2
<1>3. ASSUME NEW x \in Tokens(h, m)
      PROVE  \E t \in Threads : HasMode(h[t], m)
  <2>1. /\ x[1] \in Threads /\ x[2] \in 1 .. MaxDepth
        /\ x[2] <= Len(h[x[1]]) /\ h[x[1]][x[2]] = m
    BY DEF Tokens
  <2>2. x[2] \in 1 .. Len(h[x[1]])
    BY <2>1, RWSpinLockAssumption DEF GuardFcns
  <2>3. QED
    BY <2>1, <2>2 DEF HasMode
<1>4. QED
  BY <1>1, <1>2, <1>3

(* What a thread's modes are after a push and after a pop.                 *)
LEMMA PushModes ==
  ASSUME NEW s \in Seq(Modes), NEW m \in Modes, NEW k
  PROVE  /\ HasMode(Append(s, m), k) <=> HasMode(s, k) \/ k = m
         /\ Append(s, m) \in Seq(Modes)
         /\ Len(Append(s, m)) = Len(s) + 1
         /\ Append(s, m) # <<>>
<1>1. /\ Append(s, m) \in Seq(Modes)
      /\ Len(Append(s, m)) = Len(s) + 1
      /\ Append(s, m) # <<>>
  <2>1. Append(s, m) \in Seq(Modes) /\ Len(Append(s, m)) = Len(s) + 1
    OBVIOUS
  <2>2. Len(Append(s, m)) # 0
    BY <2>1
  <2>3. QED
    BY <2>1, <2>2, EmptySeq
<1>2. ASSUME HasMode(s, k) PROVE HasMode(Append(s, m), k)
  <2>1. PICK i \in 1 .. Len(s) : s[i] = k
    BY <1>2 DEF HasMode
  <2>2. i \in 1 .. Len(Append(s, m)) /\ Append(s, m)[i] = k
    BY <2>1, <1>1
  <2>3. QED
    BY <2>2 DEF HasMode
<1>3. ASSUME k = m PROVE HasMode(Append(s, m), k)
  <2>1. Append(s, m)[Len(s) + 1] = m /\ Len(s) + 1 \in 1 .. Len(Append(s, m))
    OBVIOUS
  <2>2. QED
    BY <2>1, <1>3 DEF HasMode
<1>4. ASSUME HasMode(Append(s, m), k) PROVE HasMode(s, k) \/ k = m
  BY <1>4 DEF HasMode
<1>5. QED
  BY <1>1, <1>2, <1>3, <1>4

LEMMA PopModes ==
  ASSUME NEW s \in Seq(Modes), s # <<>>, NEW k
  PROVE  /\ HasMode(s, k) <=> HasMode(Outer(s), k) \/ k = Innermost(s)
         /\ Outer(s) \in Seq(Modes)
         /\ Len(Outer(s)) = Len(s) - 1
         /\ Innermost(s) \in Modes
<1>1. /\ Outer(s) \in Seq(Modes)
      /\ Len(Outer(s)) = Len(s) - 1
      /\ Len(s) \in Nat /\ Len(s) > 0
      /\ Innermost(s) \in Modes
      /\ \A i \in 1 .. Len(s) - 1 : Outer(s)[i] = s[i]
  <2>1. Len(s) \in Nat /\ Len(s) > 0
    OBVIOUS
  <2>2. Outer(s) \in Seq(Modes) /\ Len(Outer(s)) = Len(s) - 1
    <3>1. PICK n \in Nat : Len(s) = n /\ n > 0
      BY <2>1
    <3>2. QED
      BY <3>1 DEF Outer
  <2>3. Innermost(s) \in Modes
    BY <2>1 DEF Innermost
  <2>4. \A i \in 1 .. Len(s) - 1 : Outer(s)[i] = s[i]
    BY <2>1 DEF Outer
  <2>5. QED
    BY <2>1, <2>2, <2>3, <2>4
<1>2. ASSUME HasMode(Outer(s), k) PROVE HasMode(s, k)
  BY <1>1, <1>2 DEF HasMode
<1>3. ASSUME k = Innermost(s) PROVE HasMode(s, k)
  BY <1>1, <1>3 DEF HasMode, Innermost
<1>4. ASSUME HasMode(s, k) PROVE HasMode(Outer(s), k) \/ k = Innermost(s)
  BY <1>1, <1>4 DEF HasMode, Innermost
<1>5. QED
  BY <1>1, <1>2, <1>3, <1>4

-----------------------------------------------------------------------------
(* Facts about a state that satisfies the invariant.                       *)

LEMMA HeldTyped == ASSUME TypeOK PROVE held \in GuardFcns
  BY DEF TypeOK, GuardFcns

(* A thread whose innermost guard is of mode m has a guard of mode m.      *)
LEMMA InnermostHas ==
  ASSUME NEW s \in Seq(Modes), s # <<>>
  PROVE  HasMode(s, Innermost(s))
  BY PopModes

(* A thread that owns the word owns it alone.                              *)
LEMMA OnlyOneOwner ==
  ASSUME IdsAndGuardsFit, IInv, NEW t \in Threads, OwnsWord(t)
  PROVE  /\ flag.owner = Tid[t]
         /\ \A u \in Threads \ {t} :
              /\ held[u] = <<>>
              /\ ~ Owns(held, u)
              /\ pc[u] \notin OwnerPcs
<1>1. flag.owner = Tid[t]
  BY DEF IInv, WordMatchesGuards, OwnerNamed
<1>2. ASSUME NEW u \in Threads \ {t}
      PROVE  held[u] = <<>> /\ ~ OwnsWord(u)
  <2>1. Tid[u] # Tid[t]
    BY DEF IdsAndGuardsFit
  <2>2. QED
    BY <1>1, <2>1 DEF IInv, WordMatchesGuards, OwnerNamed, OwnerAlone
<1>3. QED
  BY <1>1, <1>2 DEF OwnsWord

(* With an empty owner half nobody owns the word.                          *)
LEMMA NobodyOwns ==
  ASSUME IdsAndGuardsFit, IInv, flag.owner = 0
  PROVE  \A u \in Threads : ~ Owns(held, u) /\ pc[u] \notin OwnerPcs
<1>1. \A u \in Threads : Tid[u] # 0
  BY RWSpinLockAssumption DEF IdsAndGuardsFit
<1>2. QED
  BY <1>1 DEF IInv, WordMatchesGuards, OwnerNamed, OwnsWord

(* A thread without a guard of either mode has no guard.                   *)
LEMMA NoModeNoGuard ==
  ASSUME NEW s \in Seq(Modes), ~ HasMode(s, "W"), ~ HasMode(s, "R")
  PROVE  s = <<>>
<1>1. SUFFICES ASSUME s # <<>> PROVE FALSE
  OBVIOUS
<1>2. Innermost(s) \in Modes /\ HasMode(s, Innermost(s))
  BY <1>1, PopModes
<1>3. QED
  BY <1>2 DEF Modes

-----------------------------------------------------------------------------
(* The invariant holds initially.                                          *)
LEMMA InitIInv ==
  ASSUME IdsAndGuardsFit, Init
  PROVE  IInv
<1>1. TypeOK
  BY RWSpinLockAssumption, EmptySeq DEF Init, TypeOK, EMPTY_FLAG, Pcs, Causes
<1>2. \A t \in Threads : \A m \in Modes : ~ HasMode(held[t], m)
  BY EmptySeq DEF Init, HasMode
<1>3. \A m \in Modes : Cardinality(Tokens(held, m)) = 0
  BY <1>1, <1>2, HeldTyped, NoTokens
<1>4. "W" \in Modes /\ "R" \in Modes
  BY DEF Modes
<1>5. \A t \in Threads : ~ OwnsWord(t)
  BY <1>2, <1>4 DEF Init, OwnsWord, Owns, OwnerPcs
<1>6. WordMatchesGuards
  <2>1. ReadersCounted
    BY <1>3, <1>4 DEF Init, EMPTY_FLAG, ReadersCounted
  <2>2. OwnerNamed
    BY <1>5, RWSpinLockAssumption
       DEF Init, EMPTY_FLAG, OwnerNamed, IdsAndGuardsFit
  <2>3. WritesCounted
    BY <1>3, <1>4 DEF Init, WritesCounted
  <2>4. QED
    BY <2>1, <2>2, <2>3 DEF WordMatchesGuards
<1>7. OwnerAlone
  BY <1>5 DEF OwnerAlone
<1>8. PcMatchesGuards
  BY DEF Init, PcMatchesGuards, Pcs
<1>9. CrashOnlyOnMisuse
  BY DEF Init, CrashOnlyOnMisuse
<1>10. QED
  BY <1>1, <1>6, <1>7, <1>8, <1>9 DEF IInv

-----------------------------------------------------------------------------
(* Every step keeps the invariant.  First the steps that change no guard   *)
(* and neither the word nor the counter.                                   *)

(* What the guards, the word and the counter say stays true when they stay *)
(* and no thread crosses the border of owning the word.                    *)
LEMMA QuietStep ==
  ASSUME IInv, TypeOK', PcMatchesGuards',
         UNCHANGED <<flag, writeCount, held, crash>>,
         \A u \in Threads : /\ OwnsWord(u)' <=> OwnsWord(u)
                            /\ pc'[u] = "wuStore" <=> pc[u] = "wuStore"
  PROVE  IInv'
<1>1. ReadersCounted'
  BY DEF IInv, WordMatchesGuards, ReadersCounted
<1>2. OwnerNamed'
  BY DEF IInv, WordMatchesGuards, OwnerNamed
<1>3. WritesCounted'
  BY DEF IInv, WordMatchesGuards, WritesCounted
<1>4. OwnerAlone'
  BY DEF IInv, OwnerAlone
<1>5. CrashOnlyOnMisuse'
  BY DEF IInv, CrashOnlyOnMisuse
<1>6. QED
  BY <1>1, <1>2, <1>3, <1>4, <1>5 DEF IInv, WordMatchesGuards

LEMMA CallKeepsIInv ==
  ASSUME IdsAndGuardsFit, IInv, NEW t \in Threads, WriteLock(t) \/ RaedLock(t)
  PROVE  IInv'
<1>1. TypeOK'
  BY DEF IInv, TypeOK, WriteLock, RaedLock, Goto, Pcs
<1>2. PcMatchesGuards'
  <2>1. IsOwner(t) => Owns(held, t)
    BY DEF IInv, WordMatchesGuards, OwnerNamed, OwnsWord, OwnerPcs, IsOwner,
           WriteLock, RaedLock, Goto
  <2>2. QED
    BY <2>1
       DEF IInv, TypeOK, PcMatchesGuards, WriteLock, RaedLock, Goto, Pcs
<1>3. \A u \in Threads : /\ OwnsWord(u)' <=> OwnsWord(u)
                         /\ pc'[u] = "wuStore" <=> pc[u] = "wuStore"
  BY DEF IInv, TypeOK, WordMatchesGuards, OwnerNamed, OwnsWord, OwnerPcs,
         IsOwner, WriteLock, RaedLock, Goto
<1>4. QED
  BY <1>1, <1>2, <1>3, QuietStep DEF WriteLock, RaedLock

LEMMA RetryKeepsIInv ==
  ASSUME IdsAndGuardsFit, IInv, NEW t \in Threads, ReadLoad(t) \/ ReadCasFailed(t)
  PROVE  IInv'
<1>1. TypeOK'
  BY DEF IInv, TypeOK, ReadLoad, ReadCasFailed, Goto, Pcs
<1>2. PcMatchesGuards'
  BY DEF IInv, TypeOK, PcMatchesGuards, ReadLoad, ReadCasFailed, Goto, Pcs
<1>3. \A u \in Threads : /\ OwnsWord(u)' <=> OwnsWord(u)
                         /\ pc'[u] = "wuStore" <=> pc[u] = "wuStore"
  BY DEF IInv, TypeOK, OwnsWord, OwnerPcs, ReadLoad, ReadCasFailed, Goto
<1>4. QED
  BY <1>1, <1>2, <1>3, QuietStep DEF ReadLoad, ReadCasFailed

(* The end of the process changes nothing but the cause of it.             *)
LEMMA TimeoutKeepsIInv ==
  ASSUME IInv, NEW t \in Threads, WriteTimeout(t) \/ ReadTimeout(t)
  PROVE  IInv'
<1>1. UNCHANGED <<flag, writeCount, pc, expected, held>> /\ crash' = "LOCK_TIMEOUT"
  BY DEF WriteTimeout, ReadTimeout
<1>2. TypeOK' /\ CrashOnlyOnMisuse'
  BY <1>1 DEF IInv, TypeOK, CrashOnlyOnMisuse, Causes
<1>3. WordMatchesGuards'
  BY <1>1 DEF IInv, WordMatchesGuards, ReadersCounted, OwnerNamed,
              WritesCounted, OwnsWord
<1>4. OwnerAlone' /\ PcMatchesGuards'
  BY <1>1 DEF IInv, OwnerAlone, PcMatchesGuards, OwnsWord
<1>5. QED
  BY <1>2, <1>3, <1>4 DEF IInv

(* The test of WriteUnlock: it only crashes for a thread that has read     *)
(* guards below its innermost write guard.                                 *)
LEMMA WriteUnlockKeepsIInv ==
  ASSUME IdsAndGuardsFit, IInv, NEW t \in Threads, crash = "none",
         WriteUnlock(t)
  PROVE  IInv'
<1>1. held \in GuardFcns /\ held[t] \in Seq(Modes)
  BY HeldTyped DEF IInv, GuardFcns
<1>2. Owns(held, t)
  BY <1>1, InnermostHas DEF WriteUnlock, Owns
<1>3. CASE flag.readers # 0
  <2>1. UNCHANGED <<flag, writeCount, pc, expected, held>>
        /\ crash' = "INVALID_UNLOCK_ORDER"
    BY <1>3 DEF WriteUnlock
  <2>2. HasMode(held[t], "R")
    <3>1. PICK u \in Threads : HasMode(held[u], "R")
      BY <1>1, <1>3, NoTokens DEF IInv, WordMatchesGuards, ReadersCounted
    <3>2. held[u] # <<>>
      BY <3>1, EmptySeq DEF HasMode
    <3>3. QED
      BY <1>2, <3>1, <3>2, OnlyOneOwner DEF OwnsWord
  <2>3. CrashOnlyOnMisuse'
    BY <1>2, <2>1, <2>2 DEF CrashOnlyOnMisuse, WriteUnlock
  <2>4. TypeOK'
    BY <2>1 DEF IInv, TypeOK, Causes
  <2>5. WordMatchesGuards' /\ OwnerAlone' /\ PcMatchesGuards'
    BY <2>1 DEF IInv, WordMatchesGuards, ReadersCounted, OwnerNamed,
                WritesCounted, OwnsWord, OwnerAlone, PcMatchesGuards
  <2>6. QED
    BY <2>3, <2>4, <2>5 DEF IInv
<1>4. CASE flag.readers = 0
  <2>1. TypeOK'
    BY <1>4 DEF IInv, TypeOK, WriteUnlock, Goto, Pcs
  <2>2. PcMatchesGuards'
    BY <1>4 DEF IInv, TypeOK, PcMatchesGuards, WriteUnlock, Goto, Pcs
  <2>3. \A u \in Threads : /\ OwnsWord(u)' <=> OwnsWord(u)
                           /\ pc'[u] = "wuStore" <=> pc[u] = "wuStore"
    BY <1>2, <1>4 DEF IInv, TypeOK, OwnsWord, OwnerPcs, WriteUnlock, Goto
  <2>4. QED
    BY <1>4, <2>1, <2>2, <2>3, QuietStep DEF WriteUnlock
<1>5. QED
  BY <1>3, <1>4

-----------------------------------------------------------------------------
(* The steps that take the lock.                                           *)

LEMMA WriteCasKeepsIInv ==
  ASSUME IdsAndGuardsFit, IInv, NEW t \in Threads, crash = "none", WriteCas(t)
  PROVE  IInv'
<1>1. held \in GuardFcns /\ \A u \in Threads : held[u] \in Seq(Modes)
  BY HeldTyped DEF IInv, GuardFcns
<1>2. \A u \in Threads : ~ Owns(held, u) /\ pc[u] \notin OwnerPcs
  BY NobodyOwns DEF WriteCas, EMPTY_FLAG
<1>3. \A u \in Threads : held[u] = <<>>
  <2>1. \A u \in Threads : ~ HasMode(held[u], "R")
    BY <1>1, NoTokens
       DEF IInv, WordMatchesGuards, ReadersCounted, WriteCas, EMPTY_FLAG
  <2>2. QED
    BY <1>1, <1>2, <2>1, NoModeNoGuard DEF Owns
<1>4. flag'.owner = Tid[t] /\ flag'.readers = 0
  BY ModHalf DEF WriteCas, Desired, IdsAndGuardsFit
<1>5. pc' = [pc EXCEPT ![t] = "wCount"] /\ UNCHANGED <<writeCount, expected, held, crash>>
  BY DEF WriteCas, Goto
<1>6. TypeOK'
  <2>1. flag' \in [owner : 0 .. Half - 1, readers : 0 .. Half - 1]
    BY RWSpinLockAssumption DEF WriteCas, Desired
  <2>2. QED
    BY <1>5, <2>1 DEF IInv, TypeOK, Pcs
<1>7. \A u \in Threads : OwnsWord(u)' <=> u = t
  BY <1>2, <1>5 DEF IInv, TypeOK, OwnsWord, OwnerPcs
<1>8. ReadersCounted'
  BY <1>4, <1>5 DEF IInv, WordMatchesGuards, ReadersCounted, WriteCas, EMPTY_FLAG
<1>9. OwnerNamed'
  BY <1>4, <1>7 DEF OwnerNamed, IdsAndGuardsFit
<1>10. WritesCounted'
  BY <1>2, <1>5 DEF IInv, TypeOK, WordMatchesGuards, WritesCounted, OwnerPcs
<1>11. OwnerAlone'
  BY <1>3, <1>5 DEF OwnerAlone
<1>12. PcMatchesGuards'
  BY <1>3, <1>4, <1>5 DEF IInv, TypeOK, PcMatchesGuards, Pcs, WriteCas, Goto
<1>13. CrashOnlyOnMisuse'
  BY <1>5 DEF CrashOnlyOnMisuse
<1>14. QED
  BY <1>6, <1>8, <1>9, <1>10, <1>11, <1>12, <1>13 DEF IInv, WordMatchesGuards

(* A write guard is built: the owner's first one or one more.              *)
LEMMA WriteGuardKeepsIInv ==
  ASSUME IdsAndGuardsFit, IInv, NEW t \in Threads, crash = "none",
         WriteReenter(t) \/ WriteCount(t)
  PROVE  IInv'
<1>1. held \in GuardFcns /\ held[t] \in Seq(Modes)
  BY HeldTyped DEF IInv, GuardFcns
<1>2. /\ pc[t] \in {"wReenter", "wCount"}
      /\ pc' = [pc EXCEPT ![t] = "idle"]
      /\ held' = [held EXCEPT ![t] = Append(@, "W")]
      /\ writeCount' = (writeCount + 1) % Half
      /\ UNCHANGED <<flag, expected, crash>>
  BY DEF WriteReenter, WriteCount, Return, Goto
<1>3. OwnsWord(t)
  BY <1>2 DEF OwnsWord, OwnerPcs
<1>4. Len(held[t]) < MaxDepth
  BY <1>2 DEF IInv, PcMatchesGuards, Pcs
<1>5. "W" \in Modes /\ "R" \in Modes \ {"W"}
  BY DEF Modes
<1>6. held' \in GuardFcns /\ held'[t] = Append(held[t], "W")
      /\ \A u \in Threads \ {t} : held'[u] = held[u]
  <2>1. held'[t] = Append(held[t], "W")
        /\ \A u \in Threads \ {t} : held'[u] = held[u]
    BY <1>1, <1>2 DEF GuardFcns
  <2>2. Append(held[t], "W") \in Seq(Modes)
        /\ Len(Append(held[t], "W")) <= MaxDepth
    BY <1>1, <1>4, <1>5, RWSpinLockAssumption
  <2>3. QED
    BY <1>1, <1>2, <2>1, <2>2 DEF GuardFcns
<1>7. /\ Cardinality(Tokens(held', "W")) = Cardinality(Tokens(held, "W")) + 1
      /\ Tokens(held', "R") = Tokens(held, "R")
  BY <1>1, <1>5, <1>6, PushCounts
<1>8. HasMode(held'[t], "W")
  BY <1>1, <1>5, <1>6, PushModes
<1>9. \A u \in Threads \ {t} :
        held[u] = <<>> /\ ~ Owns(held, u) /\ pc[u] \notin OwnerPcs
  BY <1>3, OnlyOneOwner
<1>10. writeCount' = Cardinality(Tokens(held', "W"))
  <2>1. writeCount = Cardinality(Tokens(held, "W"))
    BY <1>2, <1>9 DEF IInv, WordMatchesGuards, WritesCounted, OwnerPcs
  <2>2. Cardinality(Tokens(held', "W")) \in 0 .. Half - 1
    BY <1>6, TokensFinite
  <2>3. QED
    BY <1>2, <1>7, <2>1, <2>2, ModHalf
<1>11. TypeOK'
  <2>1. writeCount' \in 0 .. Half - 1
    BY <1>6, <1>10, TokensFinite
  <2>2. QED
    BY <1>2, <1>6, <2>1 DEF IInv, TypeOK, Pcs, GuardFcns
<1>12. \A u \in Threads : OwnsWord(u)' <=> OwnsWord(u)
  BY <1>2, <1>3, <1>6, <1>8 DEF IInv, TypeOK, OwnsWord, Owns
<1>13. ReadersCounted' /\ OwnerNamed'
  BY <1>2, <1>7, <1>12
     DEF IInv, WordMatchesGuards, ReadersCounted, OwnerNamed
<1>14. WritesCounted'
  BY <1>2, <1>9, <1>10 DEF IInv, TypeOK, WritesCounted, OwnerPcs
<1>15. OwnerAlone'
  <2>1. \A u \in Threads \ {t} : ~ OwnsWord(u)
    BY <1>9 DEF OwnsWord
  <2>2. QED
    BY <1>6, <1>9, <1>12, <2>1 DEF OwnerAlone
<1>16. PcMatchesGuards'
  BY <1>2, <1>6, <1>9 DEF IInv, TypeOK, PcMatchesGuards, Pcs, OwnerPcs, Owns
<1>17. CrashOnlyOnMisuse'
  BY <1>2 DEF CrashOnlyOnMisuse
<1>18. QED
  BY <1>11, <1>13, <1>14, <1>15, <1>16, <1>17 DEF IInv, WordMatchesGuards

(* A read guard is built: by the owner, or while nobody owns the word.     *)
LEMMA ReadGuardKeepsIInv ==
  ASSUME IdsAndGuardsFit, IInv, NEW t \in Threads, crash = "none",
         ReadReenter(t) \/ ReadCas(t)
  PROVE  IInv'
<1>1. held \in GuardFcns /\ held[t] \in Seq(Modes)
  BY HeldTyped DEF IInv, GuardFcns
<1>2. /\ pc[t] \in {"rReenter", "rCas"}
      /\ pc' = [pc EXCEPT ![t] = "idle"]
      /\ held' = [held EXCEPT ![t] = Append(@, "R")]
      /\ flag' = FetchAdd(flag)
      /\ UNCHANGED <<writeCount, expected, crash>>
  BY DEF ReadReenter, ReadCas, Return, Goto
<1>3. \A u \in Threads \ {t} : ~ Owns(held, u) /\ pc[u] \notin OwnerPcs
  <2>1. CASE ReadReenter(t)
    BY <2>1, OnlyOneOwner DEF ReadReenter, Return, Goto, OwnsWord, OwnerPcs
  <2>2. CASE ReadCas(t)
    BY <2>2, NobodyOwns DEF ReadCas, ExpectedWord
  <2>3. QED
    BY <2>1, <2>2
<1>4. (pc[t] = "rReenter" /\ Owns(held, t))
        \/ (pc[t] = "rCas" /\ \A u \in Threads : ~ OwnsWord(u))
  <2>1. CASE ReadReenter(t)
    BY <2>1 DEF ReadReenter, Return, Goto, IInv, PcMatchesGuards
  <2>2. CASE ReadCas(t)
    BY <2>2, NobodyOwns DEF ReadCas, Return, Goto, ExpectedWord, OwnsWord
  <2>3. QED
    BY <2>1, <2>2
<1>5. Len(held[t]) < MaxDepth
  BY <1>2 DEF IInv, PcMatchesGuards, Pcs
<1>6. "R" \in Modes /\ "W" \in Modes \ {"R"}
  BY DEF Modes
<1>7. held' \in GuardFcns /\ held'[t] = Append(held[t], "R")
      /\ \A u \in Threads \ {t} : held'[u] = held[u]
  <2>1. held'[t] = Append(held[t], "R")
        /\ \A u \in Threads \ {t} : held'[u] = held[u]
    BY <1>1, <1>2 DEF GuardFcns
  <2>2. Append(held[t], "R") \in Seq(Modes)
        /\ Len(Append(held[t], "R")) <= MaxDepth
    BY <1>1, <1>5, <1>6, RWSpinLockAssumption
  <2>3. QED
    BY <1>1, <1>2, <2>1, <2>2 DEF GuardFcns
<1>8. /\ Cardinality(Tokens(held', "R")) = Cardinality(Tokens(held, "R")) + 1
      /\ Tokens(held', "W") = Tokens(held, "W")
  BY <1>1, <1>6, <1>7, PushCounts
<1>9. /\ flag'.readers = Cardinality(Tokens(held', "R"))
      /\ flag'.owner = flag.owner
      /\ flag' \in [owner : 0 .. Half - 1, readers : 0 .. Half - 1]
  <2>1. flag.readers = Cardinality(Tokens(held, "R"))
    BY DEF IInv, WordMatchesGuards, ReadersCounted
  <2>2. flag.readers + 1 \in 0 .. Half - 1
    BY <1>7, <1>8, <2>1, TokensFinite
  <2>3. flag' = [flag EXCEPT !.readers = @ + 1]
    BY <1>2, <2>2, RWSpinLockAssumption DEF FetchAdd
  <2>4. flag \in [owner : 0 .. Half - 1, readers : 0 .. Half - 1]
    BY DEF IInv, TypeOK
  <2>5. QED
    BY <1>8, <2>1, <2>2, <2>3, <2>4
<1>10. TypeOK'
  BY <1>2, <1>7, <1>9 DEF IInv, TypeOK, Pcs, GuardFcns
<1>11. \A u \in Threads : HasMode(held'[u], "W") <=> HasMode(held[u], "W")
  <2>1. HasMode(held'[t], "W") <=> HasMode(held[t], "W")
    BY <1>1, <1>6, <1>7, PushModes
  <2>2. QED
    BY <1>7, <2>1
<1>12. \A u \in Threads : OwnsWord(u)' <=> OwnsWord(u)
  BY <1>2, <1>4, <1>11 DEF IInv, TypeOK, OwnsWord, Owns, OwnerPcs
<1>13. ReadersCounted' /\ OwnerNamed'
  BY <1>9, <1>12
     DEF IInv, WordMatchesGuards, ReadersCounted, OwnerNamed
<1>14. WritesCounted'
  BY <1>2, <1>8 DEF IInv, TypeOK, WordMatchesGuards, WritesCounted
<1>15. OwnerAlone'
  BY <1>3, <1>4, <1>7, <1>12 DEF IInv, OwnerAlone, OwnsWord
<1>16. PcMatchesGuards'
  BY <1>2, <1>3, <1>7 DEF IInv, TypeOK, PcMatchesGuards, Pcs, OwnerPcs, Owns
<1>17. CrashOnlyOnMisuse'
  BY <1>2 DEF CrashOnlyOnMisuse
<1>18. QED
  BY <1>10, <1>13, <1>14, <1>15, <1>16, <1>17 DEF IInv, WordMatchesGuards

-----------------------------------------------------------------------------
(* The steps that give the lock up.                                        *)

(* What destroying the innermost guard does to the guards.                 *)
LEMMA PopGuard ==
  ASSUME IdsAndGuardsFit, TypeOK, NEW t \in Threads, NEW m \in Modes,
         held[t] # <<>>, Innermost(held[t]) = m,
         held' = [held EXCEPT ![t] = Outer(@)]
  PROVE  /\ held' \in GuardFcns
         /\ held'[t] = Outer(held[t])
         /\ \A u \in Threads \ {t} : held'[u] = held[u]
         /\ Cardinality(Tokens(held', m)) = Cardinality(Tokens(held, m)) - 1
         /\ \A k \in Modes \ {m} : Tokens(held', k) = Tokens(held, k)
         /\ Len(held'[t]) < MaxDepth
<1>1. held \in GuardFcns /\ held[t] \in Seq(Modes)
  BY HeldTyped DEF GuardFcns
<1>2. held'[t] = Outer(held[t])
      /\ \A u \in Threads \ {t} : held'[u] = held[u]
  BY <1>1 DEF GuardFcns
<1>3. Outer(held[t]) \in Seq(Modes) /\ Len(Outer(held[t])) < MaxDepth
      /\ Len(Outer(held[t])) <= MaxDepth
  <2>1. Outer(held[t]) \in Seq(Modes) /\ Len(Outer(held[t])) = Len(held[t]) - 1
    BY <1>1, PopModes
  <2>2. Len(held[t]) \in Nat /\ Len(held[t]) <= MaxDepth
    BY <1>1 DEF GuardFcns
  <2>3. QED
    BY <2>1, <2>2, RWSpinLockAssumption
<1>4. held' \in GuardFcns
  <2>1. held' \in [Threads -> Seq(Modes)]
    BY <1>1, <1>3 DEF GuardFcns
  <2>2. \A u \in Threads : Len(held'[u]) <= MaxDepth
    BY <1>1, <1>2, <1>3 DEF GuardFcns
  <2>3. QED
    BY <2>1, <2>2 DEF GuardFcns
<1>5. /\ Cardinality(Tokens(held', m)) = Cardinality(Tokens(held, m)) - 1
      /\ \A k \in Modes \ {m} : Tokens(held', k) = Tokens(held, k)
  <2>1. /\ held \in GuardFcns /\ held' \in GuardFcns
        /\ held'[t] = Outer(held[t])
        /\ \A u \in Threads \ {t} : held'[u] = held[u]
    BY <1>1, <1>2, <1>4
  <2>2. QED
    BY <2>1, PopCounts
<1>6. QED
  BY <1>2, <1>3, <1>4, <1>5

(* The decrement of WriteUnlock: with the last write guard the thread goes *)
(* on to clear the word, with another one it returns.                      *)
LEMMA WriteUnlockCountKeepsIInv ==
  ASSUME IdsAndGuardsFit, IInv, NEW t \in Threads, crash = "none",
         WriteUnlockCount(t)
  PROVE  IInv'
<1>1. /\ pc[t] = "wuCount" /\ OwnsWord(t)
      /\ held[t] # <<>> /\ Innermost(held[t]) = "W" /\ flag.readers = 0
      /\ writeCount' = (writeCount - 1) % Half
      /\ UNCHANGED <<flag, expected, crash>>
  BY DEF WriteUnlockCount, Goto, OwnsWord, OwnerPcs, IInv, PcMatchesGuards
<1>2. held \in GuardFcns /\ held[t] \in Seq(Modes)
  BY HeldTyped DEF IInv, GuardFcns
<1>3. \A u \in Threads \ {t} :
        held[u] = <<>> /\ ~ Owns(held, u) /\ pc[u] \notin OwnerPcs
  BY <1>1, OnlyOneOwner
<1>4. writeCount = Cardinality(Tokens(held, "W"))
  BY <1>1, <1>3 DEF IInv, WordMatchesGuards, WritesCounted, OwnerPcs
<1>5. writeCount \in 1 .. Half - 1
  <2>1. HasMode(held[t], "W")
    BY <1>1, <1>2, InnermostHas
  <2>2. QED
    BY <1>2, <1>4, <2>1, TokensFinite, NoTokens
<1>6. writeCount' = writeCount - 1 /\ writeCount' \in 0 .. Half - 1
  <2>1. writeCount - 1 \in 0 .. Half - 1
    BY <1>5, RWSpinLockAssumption
  <2>2. QED
    BY <1>1, <2>1, ModHalf
<1>7. CASE writeCount' = 0
  <2>1. pc' = [pc EXCEPT ![t] = "wuStore"] /\ held' = held
    BY <1>7 DEF WriteUnlockCount, Goto
  <2>2. TypeOK'
    BY <1>1, <1>6, <2>1 DEF IInv, TypeOK, Pcs
  <2>3. \A u \in Threads : OwnsWord(u)' <=> OwnsWord(u)
    BY <1>1, <2>1 DEF IInv, TypeOK, OwnsWord, OwnerPcs
  <2>4. ReadersCounted' /\ OwnerNamed' /\ OwnerAlone'
    BY <1>1, <2>1, <2>3
       DEF IInv, WordMatchesGuards, ReadersCounted, OwnerNamed, OwnerAlone
  <2>5. WritesCounted'
    BY <1>7, <2>1 DEF IInv, TypeOK, WritesCounted
  <2>6. PcMatchesGuards'
    BY <1>1, <1>3, <1>4, <1>5, <1>6, <1>7, <2>1
       DEF IInv, TypeOK, PcMatchesGuards, Pcs
  <2>7. CrashOnlyOnMisuse'
    BY <1>1 DEF CrashOnlyOnMisuse
  <2>8. QED
    BY <2>2, <2>4, <2>5, <2>6, <2>7 DEF IInv, WordMatchesGuards
<1>8. CASE writeCount' # 0
  <2>1. pc' = [pc EXCEPT ![t] = "idle"] /\ held' = [held EXCEPT ![t] = Outer(@)]
    BY <1>8 DEF WriteUnlockCount, Goto
  <2>2. "W" \in Modes /\ "R" \in Modes \ {"W"}
    BY DEF Modes
  <2>3. /\ held' \in GuardFcns
        /\ \A u \in Threads \ {t} : held'[u] = held[u]
        /\ Cardinality(Tokens(held', "W")) = Cardinality(Tokens(held, "W")) - 1
        /\ Tokens(held', "R") = Tokens(held, "R")
    BY <1>1, <2>1, <2>2, PopGuard DEF IInv
  <2>4. HasMode(held'[t], "W")
    <3>1. PICK u \in Threads : HasMode(held'[u], "W")
      BY <1>4, <1>6, <1>8, <2>3, NoTokens
    <3>2. QED
      BY <1>3, <2>3, <3>1 DEF Owns
  <2>5. TypeOK'
    BY <1>1, <1>6, <2>1, <2>3 DEF IInv, TypeOK, Pcs, GuardFcns
  <2>6. \A u \in Threads : OwnsWord(u)' <=> OwnsWord(u)
    BY <1>1, <2>1, <2>3, <2>4 DEF IInv, TypeOK, OwnsWord, Owns
  <2>7. ReadersCounted' /\ OwnerNamed'
    BY <1>1, <2>3, <2>6 DEF IInv, WordMatchesGuards, ReadersCounted, OwnerNamed
  <2>8. WritesCounted'
    BY <1>3, <1>4, <1>6, <2>1, <2>3 DEF IInv, TypeOK, WritesCounted, OwnerPcs
  <2>9. OwnerAlone'
    <3>1. \A u \in Threads \ {t} : ~ OwnsWord(u)
      BY <1>3 DEF OwnsWord
    <3>2. QED
      BY <1>3, <2>3, <2>6, <3>1 DEF OwnerAlone
  <2>10. PcMatchesGuards'
    BY <1>1, <1>3, <2>1, <2>3
       DEF IInv, TypeOK, PcMatchesGuards, Pcs, OwnerPcs, Owns
  <2>11. CrashOnlyOnMisuse'
    BY <1>1 DEF CrashOnlyOnMisuse
  <2>12. QED
    BY <2>5, <2>7, <2>8, <2>9, <2>10, <2>11 DEF IInv, WordMatchesGuards
<1>9. QED
  BY <1>7, <1>8

(* The store of EMPTY_FLAG: no guard is left when the word is cleared.     *)
LEMMA WriteUnlockStoreKeepsIInv ==
  ASSUME IdsAndGuardsFit, IInv, NEW t \in Threads, crash = "none",
         WriteUnlockStore(t)
  PROVE  IInv'
<1>1. /\ pc[t] = "wuStore" /\ OwnsWord(t)
      /\ held[t] # <<>> /\ Innermost(held[t]) = "W" /\ flag.readers = 0
      /\ Cardinality(Tokens(held, "W")) = 1
      /\ pc' = [pc EXCEPT ![t] = "idle"]
      /\ held' = [held EXCEPT ![t] = Outer(@)]
      /\ flag' = EMPTY_FLAG
      /\ UNCHANGED <<writeCount, expected, crash>>
  BY DEF WriteUnlockStore, Goto, OwnsWord, OwnerPcs, IInv, PcMatchesGuards
<1>2. \A u \in Threads \ {t} :
        held[u] = <<>> /\ ~ Owns(held, u) /\ pc[u] \notin OwnerPcs
  BY <1>1, OnlyOneOwner
<1>3. "W" \in Modes /\ "R" \in Modes \ {"W"}
  BY DEF Modes
<1>4. /\ held' \in GuardFcns
      /\ \A u \in Threads \ {t} : held'[u] = held[u]
      /\ Cardinality(Tokens(held', "W")) = 0
      /\ Tokens(held', "R") = Tokens(held, "R")
  <2>1. /\ held' \in GuardFcns
        /\ \A u \in Threads \ {t} : held'[u] = held[u]
        /\ Cardinality(Tokens(held', "W")) = Cardinality(Tokens(held, "W")) - 1
        /\ \A k \in Modes \ {"W"} : Tokens(held', k) = Tokens(held, k)
    <3>1. /\ held[t] # <<>> /\ Innermost(held[t]) = "W"
          /\ held' = [held EXCEPT ![t] = Outer(@)]
      BY <1>1
    <3>2. TypeOK
      BY DEF IInv
    <3>3. QED
      BY <1>3, <3>1, <3>2, PopGuard
  <2>2. Cardinality(Tokens(held, "W")) = 1
    BY <1>1
  <2>3. Tokens(held', "R") = Tokens(held, "R")
    BY <1>3, <2>1
  <2>4. QED
    BY <2>1, <2>2, <2>3
<1>5. \A u \in Threads : ~ Owns(held, u)'
  BY <1>4, NoTokens DEF Owns
<1>6. \A u \in Threads : ~ OwnsWord(u)'
  BY <1>1, <1>2, <1>5 DEF IInv, TypeOK, OwnsWord, OwnerPcs
<1>7. TypeOK'
  BY <1>1, <1>4, RWSpinLockAssumption
     DEF IInv, TypeOK, Pcs, GuardFcns, EMPTY_FLAG
<1>8. ReadersCounted'
  BY <1>1, <1>4 DEF IInv, WordMatchesGuards, ReadersCounted, EMPTY_FLAG
<1>9. OwnerNamed'
  BY <1>1, <1>6, RWSpinLockAssumption DEF OwnerNamed, EMPTY_FLAG, IdsAndGuardsFit
<1>10. WritesCounted'
  BY <1>1, <1>4 DEF IInv, TypeOK, WordMatchesGuards, WritesCounted
<1>11. OwnerAlone'
  BY <1>6 DEF OwnerAlone
<1>12. PcMatchesGuards'
  BY <1>1, <1>2, <1>4 DEF IInv, TypeOK, PcMatchesGuards, Pcs, OwnerPcs, Owns
<1>13. CrashOnlyOnMisuse'
  BY <1>1 DEF CrashOnlyOnMisuse
<1>14. QED
  BY <1>7, <1>8, <1>9, <1>10, <1>11, <1>12, <1>13 DEF IInv, WordMatchesGuards

(* A read guard goes: its count is in the word, so the crash for one       *)
(* ReadUnlock too many cannot happen.                                      *)
LEMMA ReadUnlockPops ==
  ASSUME IdsAndGuardsFit, IInv, NEW t \in Threads, ReadUnlock(t)
  PROVE  /\ flag.readers \in 1 .. Half - 1
         /\ flag' = [flag EXCEPT !.readers = @ - 1]
         /\ held' = [held EXCEPT ![t] = Outer(@)]
         /\ UNCHANGED <<writeCount, pc, expected, crash>>
<1>1. held \in GuardFcns /\ held[t] \in Seq(Modes)
  BY HeldTyped DEF IInv, GuardFcns
<1>2. flag.readers \in 1 .. Half - 1
  <2>1. HasMode(held[t], "R")
    BY <1>1, InnermostHas DEF ReadUnlock
  <2>2. flag.readers = Cardinality(Tokens(held, "R"))
    BY DEF IInv, WordMatchesGuards, ReadersCounted
  <2>3. QED
    BY <1>1, <2>1, <2>2, TokensFinite, NoTokens, RWSpinLockAssumption
<1>3. flag' = [flag EXCEPT !.readers = @ - 1]
  BY <1>2, RWSpinLockAssumption DEF ReadUnlock, FetchSub
<1>4. QED
  BY <1>2, <1>3 DEF ReadUnlock

LEMMA ReadUnlockKeepsIInv ==
  ASSUME IdsAndGuardsFit, IInv, NEW t \in Threads, crash = "none",
         ReadUnlock(t)
  PROVE  IInv'
<1>1. /\ flag.readers \in 1 .. Half - 1
      /\ flag' = [flag EXCEPT !.readers = @ - 1]
      /\ held' = [held EXCEPT ![t] = Outer(@)]
      /\ UNCHANGED <<writeCount, pc, expected, crash>>
  BY ReadUnlockPops
<1>2. pc[t] = "idle" /\ held[t] # <<>> /\ Innermost(held[t]) = "R"
  BY DEF ReadUnlock
<1>3. held[t] \in Seq(Modes) /\ "R" \in Modes /\ "W" \in Modes \ {"R"}
  BY DEF IInv, TypeOK, Modes
<1>4. /\ held' \in GuardFcns
      /\ held'[t] = Outer(held[t])
      /\ \A u \in Threads \ {t} : held'[u] = held[u]
      /\ Cardinality(Tokens(held', "R")) = Cardinality(Tokens(held, "R")) - 1
      /\ Tokens(held', "W") = Tokens(held, "W")
  <2>1. TypeOK /\ held' = [held EXCEPT ![t] = Outer(@)]
    BY <1>1 DEF IInv
  <2>2. QED
    BY <1>2, <1>3, <2>1, PopGuard
<1>5. \A u \in Threads : HasMode(held'[u], "W") <=> HasMode(held[u], "W")
  <2>1. HasMode(held'[t], "W") <=> HasMode(held[t], "W")
    BY <1>2, <1>3, <1>4, PopModes
  <2>2. QED
    BY <1>4, <2>1
<1>6. \A u \in Threads : OwnsWord(u)' <=> OwnsWord(u)
  BY <1>1, <1>5 DEF OwnsWord, Owns
<1>7. \A u \in Threads \ {t} : ~ OwnsWord(u)
  BY <1>2 DEF IInv, OwnerAlone
<1>8. TypeOK'
  <2>1. flag \in [owner : 0 .. Half - 1, readers : 0 .. Half - 1]
    BY DEF IInv, TypeOK
  <2>2. flag' \in [owner : 0 .. Half - 1, readers : 0 .. Half - 1]
    BY <1>1, <2>1, RWSpinLockAssumption
  <2>3. QED
    BY <1>1, <1>4, <2>2 DEF IInv, TypeOK, GuardFcns
<1>9. ReadersCounted' /\ OwnerNamed'
  BY <1>1, <1>4, <1>6
     DEF IInv, TypeOK, WordMatchesGuards, ReadersCounted, OwnerNamed
<1>10. WritesCounted'
  BY <1>1, <1>4 DEF IInv, WordMatchesGuards, WritesCounted
<1>11. OwnerAlone'
  BY <1>4, <1>6, <1>7 DEF IInv, OwnerAlone
<1>12. PcMatchesGuards'
  <2>1. \A u \in Threads \ {t} : pc[u] \notin OwnerPcs
    BY <1>7 DEF OwnsWord
  <2>2. QED
    BY <1>1, <1>2, <1>4, <2>1
       DEF IInv, TypeOK, PcMatchesGuards, Pcs, OwnerPcs, Owns
<1>13. CrashOnlyOnMisuse'
  BY <1>1 DEF CrashOnlyOnMisuse
<1>14. QED
  BY <1>8, <1>9, <1>10, <1>11, <1>12, <1>13 DEF IInv, WordMatchesGuards

-----------------------------------------------------------------------------
(* The invariant, and what follows from it.                                *)

LEMMA NextKeepsIInv ==
  ASSUME IdsAndGuardsFit, IInv, [Next]_vars
  PROVE  IInv'
<1>1. CASE UNCHANGED vars
  BY <1>1 DEF vars, IInv, TypeOK, WordMatchesGuards, ReadersCounted, OwnerNamed,
              WritesCounted, OwnsWord, OwnerAlone, PcMatchesGuards,
              CrashOnlyOnMisuse
<1>2. ASSUME NEW t \in Threads, crash = "none", Step(t)
      PROVE  IInv'
  <2>1. CASE WriteLock(t) \/ RaedLock(t)
    BY <2>1, CallKeepsIInv
  <2>2. CASE WriteTimeout(t) \/ ReadTimeout(t)
    BY <2>2, TimeoutKeepsIInv
  <2>3. CASE WriteUnlock(t)
    BY <1>2, <2>3, WriteUnlockKeepsIInv
  <2>4. CASE ReadUnlock(t)
    BY <1>2, <2>4, ReadUnlockKeepsIInv
  <2>5. CASE ReadLoad(t) \/ ReadCasFailed(t)
    BY <2>5, RetryKeepsIInv
  <2>6. CASE WriteCas(t)
    BY <1>2, <2>6, WriteCasKeepsIInv
  <2>7. CASE WriteReenter(t) \/ WriteCount(t)
    BY <1>2, <2>7, WriteGuardKeepsIInv
  <2>8. CASE ReadReenter(t) \/ ReadCas(t)
    BY <1>2, <2>8, ReadGuardKeepsIInv
  <2>9. CASE WriteUnlockCount(t)
    BY <1>2, <2>9, WriteUnlockCountKeepsIInv
  <2>10. CASE WriteUnlockStore(t)
    BY <1>2, <2>10, WriteUnlockStoreKeepsIInv
  <2>11. QED
    BY <1>2, <2>1, <2>2, <2>3, <2>4, <2>5, <2>6, <2>7, <2>8, <2>9, <2>10
       DEF Step, Unlock, InsideLock
<1>3. QED
  BY <1>1, <1>2 DEF Next

(* Whenever the ids and the guards fit into the word, every reachable      *)
(* state satisfies the inductive invariant: the word and _writeCount of    *)
(* Lock.cpp always say which guards there are.                             *)
THEOREM Invariance ==
  ASSUME IdsAndGuardsFit
  PROVE  Spec => []IInv
<1>1. Init => IInv
  BY InitIInv
<1>2. IInv /\ [Next]_vars => IInv'
  BY NextKeepsIInv
<1>3. QED
  BY <1>1, <1>2, PTL DEF Spec

(* Every variable of Lock stays in its C++ type: no count ever carries.    *)
THEOREM TypeCorrect ==
  ASSUME IdsAndGuardsFit
  PROVE  Spec => []TypeOK
<1>1. IInv => TypeOK
  BY DEF IInv
<1>2. QED
  BY <1>1, Invariance, PTL

(* The owner of the lock shares it with nobody (Lock.h:10).                *)
THEOREM MutualExclusionHolds ==
  ASSUME IdsAndGuardsFit
  PROVE  Spec => []MutualExclusion
<1>1. IInv => MutualExclusion
  BY DEF IInv, TypeOK, OwnerAlone, OwnsWord, MutualExclusion, Exclusive
<1>2. QED
  BY <1>1, Invariance, PTL

(* Two threads never touch the plain counter _writeCount at the same time  *)
(* (Lock.cpp:16).                                                          *)
THEOREM WriteCountIsPrivateHolds ==
  ASSUME IdsAndGuardsFit
  PROVE  Spec => []WriteCountIsPrivate
<1>1. ASSUME IInv PROVE WriteCountIsPrivate
  BY <1>1, OnlyOneOwner
     DEF WriteCountIsPrivate, TouchesWriteCount, OwnsWord, OwnerPcs
<1>2. QED
  BY <1>1, Invariance, PTL

(* No guard ever meets the crash for one ReadUnlock too many, and the      *)
(* crash of WriteUnlock only meets a thread that broke Lock.h:14-16.       *)
THEOREM CrashOnlyOnMisuseHolds ==
  ASSUME IdsAndGuardsFit
  PROVE  Spec => []CrashOnlyOnMisuse
<1>1. IInv => CrashOnlyOnMisuse
  BY DEF IInv
<1>2. QED
  BY <1>1, Invariance, PTL

-----------------------------------------------------------------------------
(* The spin lock implements the lock whose guards are taken and given up   *)
(* in single steps.                                                        *)

LEMMA TakesAsPromised ==
  ASSUME IdsAndGuardsFit, IInv, NEW t \in Threads,
         WriteReenter(t) \/ WriteCount(t) \/ ReadReenter(t) \/ ReadCas(t)
  PROVE  Promise!AcquireWrite(t) \/ Promise!AcquireRead(t)
<1>1. CASE WriteReenter(t)
  <2>1. Owns(held, t) /\ held' = [held EXCEPT ![t] = Append(@, "W")]
    BY <1>1 DEF WriteReenter, Return, Goto, IInv, PcMatchesGuards
  <2>2. QED
    BY <2>1 DEF Promise!AcquireWrite, Promise!CanWrite, Promise!Owns,
                Promise!HasMode, Owns, HasMode
<1>2. CASE WriteCount(t)
  <2>1. pc[t] = "wCount" /\ held' = [held EXCEPT ![t] = Append(@, "W")]
    BY <1>2 DEF WriteCount, Return, Goto
  <2>2. \A u \in Threads : held[u] = <<>>
    BY <2>1, OnlyOneOwner DEF IInv, PcMatchesGuards, OwnsWord, OwnerPcs
  <2>3. DOMAIN held = Threads
    BY DEF IInv, TypeOK
  <2>4. QED
    BY <2>1, <2>2, <2>3 DEF Promise!AcquireWrite, Promise!CanWrite
<1>3. CASE ReadReenter(t) \/ ReadCas(t)
  <2>1. held' = [held EXCEPT ![t] = Append(@, "R")]
    BY <1>3 DEF ReadReenter, ReadCas, Return
  <2>2. \A u \in Threads \ {t} : ~ Owns(held, u)
    <3>1. CASE ReadReenter(t)
      BY <3>1, OnlyOneOwner DEF ReadReenter, Return, Goto, OwnsWord, OwnerPcs
    <3>2. CASE ReadCas(t)
      BY <3>2, NobodyOwns DEF ReadCas, ExpectedWord
    <3>3. QED
      BY <1>3, <3>1, <3>2
  <2>3. DOMAIN held = Threads
    BY DEF IInv, TypeOK
  <2>4. QED
    BY <2>1, <2>2, <2>3 DEF Promise!AcquireRead, Promise!CanRead, Promise!Owns,
                            Promise!HasMode, Owns, HasMode
<1>4. QED
  BY <1>1, <1>2, <1>3

LEMMA GivesUpAsPromised ==
  ASSUME IdsAndGuardsFit, IInv, NEW t \in Threads,
         WriteUnlockCount(t) \/ WriteUnlockStore(t) \/ ReadUnlock(t)
  PROVE  Promise!Release(t) \/ UNCHANGED held
<1>1. CASE WriteUnlockCount(t) \/ WriteUnlockStore(t)
  BY <1>1 DEF WriteUnlockCount, WriteUnlockStore, Goto, IInv, PcMatchesGuards,
              Promise!Release, Promise!Outer, Outer
<1>2. CASE ReadUnlock(t)
  BY <1>2, ReadUnlockPops DEF ReadUnlock, Promise!Release, Promise!Outer, Outer
<1>3. QED
  BY <1>1, <1>2

(* Every behaviour of Lock.cpp on its guards is one of the abstract lock:  *)
(* the many steps of a WriteLock or RaedLock amount to one acquisition,    *)
(* those of an unlock to one release.                                      *)
THEOREM ImplementsPromise ==
  ASSUME IdsAndGuardsFit
  PROVE  Spec => ImplementsRWLock
<1>1. Init => Promise!Init
  BY DEF Init, Promise!Init
<1>2. ASSUME IInv, [Next]_vars PROVE [Promise!Next]_held
  <2>1. CASE UNCHANGED vars
    BY <2>1 DEF vars
  <2>2. ASSUME NEW t \in Threads, Step(t) PROVE [Promise!Next]_held
    <3>1. CASE WriteReenter(t) \/ WriteCount(t) \/ ReadReenter(t) \/ ReadCas(t)
      BY <1>2, <3>1, TakesAsPromised DEF Promise!Next
    <3>2. CASE WriteUnlockCount(t) \/ WriteUnlockStore(t) \/ ReadUnlock(t)
      BY <1>2, <3>2, GivesUpAsPromised DEF Promise!Next
    <3>3. CASE WriteLock(t) \/ RaedLock(t) \/ WriteUnlock(t) \/ WriteCas(t)
                 \/ ReadLoad(t) \/ ReadCasFailed(t)
                 \/ WriteTimeout(t) \/ ReadTimeout(t)
      BY <3>3 DEF WriteLock, RaedLock, WriteUnlock, WriteCas, ReadLoad,
                  ReadCasFailed, WriteTimeout, ReadTimeout
    <3>4. QED
      BY <2>2, <3>1, <3>2, <3>3 DEF Step, Unlock, InsideLock
  <2>3. QED
    BY <1>2, <2>1, <2>2 DEF Next
<1>3. QED
  BY <1>1, <1>2, Invariance, PTL DEF Spec, ImplementsRWLock, Promise!Spec
=============================================================================
