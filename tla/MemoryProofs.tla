---------------------------- MODULE MemoryProofs ----------------------------
(***************************************************************************)
(* The safety of Memory for any number of threads, blocks and sizes, and   *)
(* any table of pools that PoolTable's assumptions allow.                  *)
(***************************************************************************)
EXTENDS Memory, FiniteSetTheorems, SequenceTheorems,
        WellFoundedInduction, TLAPS

(* A call of t has the block in its hands.                                 *)
Holds(t, b) == doing[t].step \in {"pop", "push"} /\ doing[t].block = b

(* A thread between the parts of a call: its block is its own, comes from  *)
(* the pool it works on and has no user.                                   *)
CallInv ==
  \A t \in Threads :
    /\ doing[t].step = "pop" =>
         /\ AllocSize(doing[t].size) <= MaxAllocSize
         /\ doing[t].pool = PoolTable[AllocSize(doing[t].size)]
         /\ doing[t].block # NoBlock => header[doing[t].block] = 0
    /\ \A b \in Blocks :
         Holds(t, b) => /\ capacity[b] = doing[t].pool
                        /\ inUse[b] = 0
                        /\ \A u \in Threads \ {t} : ~Holds(u, b)

(* What lies in a queue belongs to that pool, is marked as released and is *)
(* there once.                                                             *)
QueueInv ==
  \A p \in PoolSizes : \A i \in 1 .. Len(queue[p]) :
    /\ capacity[queue[p][i]] = p
    /\ header[queue[p][i]] = 0
    /\ inUse[queue[p][i]] = 0
    /\ \A t \in Threads : ~Holds(t, queue[p][i])
    /\ \A j \in 1 .. Len(queue[p]) : queue[p][i] = queue[p][j] => i = j

(* The header of a block in use tells where it came from.                  *)
CameFrom(b) ==
  IF header[b] <= MaxAllocSize
  THEN capacity[b] = PoolTable[header[b]] /\ capacity[b] \in PoolSizes
  ELSE capacity[b] = header[b]
UserInv ==
  \A b \in Blocks : inUse[b] # 0 => header[b] = AllocSize(inUse[b]) /\ CameFrom(b)

MInv ==
  /\ TypeOK
  /\ CallInv
  /\ QueueInv
  /\ UserInv
  /\ CountIsHandedOut
  /\ crash # "ASSERT"

-----------------------------------------------------------------------------
(* Constants                                                               *)

(* A set of numbers with an element has a least one.                       *)
LEMMA LeastOf ==
  ASSUME NEW T \in SUBSET Nat, T # {}
  PROVE  \E x \in T : \A y \in T : x <= y
<1>1. PICK x \in T : \A y \in T : ~ (<<y, x>> \in OpToRel(<, Nat))
  BY WFMin, NatLessThanWellFounded
<1>2. ASSUME NEW y \in T PROVE x <= y
  <2>1. ~ (<<y, x>> \in OpToRel(<, Nat)) /\ x \in Nat /\ y \in Nat
    BY <1>1
  <2> QED
    BY <2>1 DEF OpToRel
<1> QED
  BY <1>2

(* Induction over the numbers, with a set for what is to be shown.         *)
LEMMA NatSetInduction ==
  ASSUME NEW S, 0 \in S, \A n \in Nat : n \in S => n + 1 \in S
  PROVE  Nat \subseteq S
<1> SUFFICES ASSUME Nat \ S # {} PROVE FALSE
  OBVIOUS
<1>1. PICK x \in Nat \ S : \A y \in Nat \ S : x <= y
  BY LeastOf
<1>2. x # 0 /\ x - 1 \in Nat /\ x - 1 < x /\ (x - 1) + 1 = x
  BY <1>1
<1>3. x - 1 \in S
  BY <1>1, <1>2
<1> QED
  BY <1>1, <1>2, <1>3

LEMMA LoopsAre ==
  /\ Len(Loops) \in Nat \ {0}
  /\ \A k \in 1 .. Len(Loops) :
       /\ Loops[k].limit \in Nat /\ Loops[k].step \in Nat \ {0}
       /\ Loops[k].limit <= MaxAllocSize
  /\ MaxAllocSize \in Nat
<1>1. Loops \in Seq([limit : Nat, step : Nat \ {0}]) /\ Loops # <<>> /\ MaxAllocSize \in Nat
  BY PoolTableAssumption
<1>2. Len(Loops) \in Nat \ {0}
  BY <1>1, LenProperties, EmptySeq
<1>3. ASSUME NEW k \in 1 .. Len(Loops)
      PROVE  /\ Loops[k].limit \in Nat /\ Loops[k].step \in Nat \ {0}
             /\ Loops[k].limit <= MaxAllocSize
  <2>1. Loops[k] \in [limit : Nat, step : Nat \ {0}] /\ k \in DOMAIN Loops
    BY <1>1, ElementOfSeq, LenProperties
  <2> QED
    BY <2>1, PoolTableAssumption
<1> QED
  BY <1>1, <1>2, <1>3

LEMMA DivIsNat ==
  ASSUME NEW b \in Nat, NEW s \in Nat \ {0}
  PROVE  b \div s \in Nat
  OBVIOUS

LEMMA OnceMore ==
  ASSUME NEW a \in Int, NEW b \in Int
  PROVE  a * (b + 1) = a * b + a /\ a * b \in Int
  OBVIOUS

(* What s fits into b at least a times, it divides at least a times.       *)
LEMMA DivBound ==
  ASSUME NEW a \in Nat, NEW b \in Nat, NEW s \in Nat \ {0}, s * a <= b
  PROVE  b \div s \in Nat /\ a <= b \div s
<1>1. b \div s \in Nat /\ b % s \in 0 .. s - 1 /\ b = s * (b \div s) + (b % s)
  OBVIOUS
<1> DEFINE d == b \div s
<1>2. ASSUME d < a PROVE FALSE
  <2>1. d + 1 <= a /\ d \in Nat
    BY <1>1, <1>2
  <2> HIDE DEF d
  <2>2. s * (d + 1) <= s * a
    BY <2>1
  <2>3. s * (d + 1) = s * d + s
    BY <2>1
  <2>4. b < s * d + s
    BY <1>1 DEF d
  <2> QED
    BY <2>1, <2>2, <2>3, <2>4
<1> QED
  BY <1>1, <1>2

-----------------------------------------------------------------------------
(* The number of turns                                                     *)

TurnsRule(f, k) ==
  IF k = 0 THEN 0 ELSE f[k - 1] + (Loops[k].limit \div Loops[k].step) + 2

LEMMA TurnsExist ==
  ASSUME NEW n \in Nat
  PROVE  \E f : f = [k \in 0 .. n |-> TurnsRule(f, k)]
<1> DEFINE IsTurns(f, m) == f = [k \in 0 .. m |-> TurnsRule(f, k)]
           Lengths == {m \in Nat : \E f : IsTurns(f, m)}
<1>1. 0 \in Lengths
  <2> DEFINE first == [k \in 0 .. 0 |-> 0]
  <2>1. \A k \in 0 .. 0 : TurnsRule(first, k) = 0
    BY DEF TurnsRule
  <2>2. IsTurns(first, 0)
    BY <2>1
  <2> HIDE DEF first, IsTurns
  <2> QED
    BY <2>2
<1>2. ASSUME NEW m \in Nat, m \in Lengths PROVE m + 1 \in Lengths
  <2>1. PICK f : IsTurns(f, m)
    BY <1>2
  <2> DEFINE more == [k \in 0 .. m + 1 |-> TurnsRule(f, k)]
  <2>2. ASSUME NEW k \in 0 .. m PROVE more[k] = f[k]
    BY <2>1
  <2>3. ASSUME NEW k \in 0 .. m + 1 PROVE more[k] = TurnsRule(more, k)
    <3>1. more[k] = TurnsRule(f, k)
      OBVIOUS
    <3>2. k # 0 => more[k - 1] = f[k - 1]
      <4>1. k # 0 => k - 1 \in 0 .. m
        OBVIOUS
      <4> QED
        BY <2>2, <4>1
    <3> HIDE DEF more
    <3> QED
      BY <3>1, <3>2 DEF TurnsRule
  <2>4. IsTurns(more, m + 1)
    <3>1. DOMAIN more = 0 .. m + 1 /\ more = [k \in DOMAIN more |-> more[k]]
      OBVIOUS
    <3> HIDE DEF more
    <3> QED
      BY <2>3, <3>1
  <2> HIDE DEF more, IsTurns
  <2> QED
    BY <2>4
<1>3. Nat \subseteq Lengths
  <2> HIDE DEF Lengths
  <2> QED
    BY <1>1, <1>2, NatSetInduction
<1> QED
  BY <1>3

(* The turns up to the end of a loop are those of the loop and those       *)
(* before it, and no more than all of them.                                *)
LEMMA TurnsAre ==
  /\ TurnsTo[0] = 0 /\ Turns \in Nat
  /\ \A k \in 1 .. Len(Loops) :
       /\ TurnsTo[k - 1] \in Nat /\ TurnsTo[k] \in Nat /\ TurnsTo[k] <= Turns
       /\ TurnsTo[k] = TurnsTo[k - 1] + (Loops[k].limit \div Loops[k].step) + 2
<1> DEFINE n == Len(Loops)
           P(f) == f = [j \in 0 .. n |-> TurnsRule(f, j)]
           turns == CHOOSE f : P(f)
<1>1. n \in Nat \ {0} /\ \A k \in 1 .. n : Loops[k].limit \div Loops[k].step \in Nat
  <2>1. ASSUME NEW k \in 1 .. n PROVE Loops[k].limit \div Loops[k].step \in Nat
    BY LoopsAre, DivIsNat
  <2> QED
    BY <2>1, LoopsAre
<1>2. TurnsTo = turns
  BY DEF TurnsTo, TurnsRule
<1>3. P(turns)
  <2>1. \E f : P(f)
    BY <1>1, TurnsExist
  <2> HIDE DEF P
  <2> QED
    BY <2>1
<1>4. \A k \in 0 .. n : TurnsTo[k] = TurnsRule(TurnsTo, k)
  <2> HIDE DEF turns
  <2> QED
    BY <1>2, <1>3
<1> HIDE DEF P, turns
<1>5. TurnsTo[0] = 0
  BY <1>1, <1>4 DEF TurnsRule
<1>6. \A k \in 1 .. n :
        TurnsTo[k] = TurnsTo[k - 1] + (Loops[k].limit \div Loops[k].step) + 2
  BY <1>1, <1>4 DEF TurnsRule
<1> DEFINE Upto(k) == \A j \in 0 .. k : TurnsTo[j] \in Nat /\ TurnsTo[j] <= TurnsTo[k]
           Grows == {k \in Nat : k <= n => Upto(k)}
<1> HIDE DEF n
<1>7. 0 \in Grows
  BY <1>5
<1>8. ASSUME NEW k \in Nat, k \in Grows PROVE k + 1 \in Grows
  <2> SUFFICES ASSUME k + 1 <= n PROVE Upto(k + 1)
    OBVIOUS
  <2>1. k + 1 \in 1 .. n /\ (k + 1) - 1 = k /\ k <= n
    BY <1>1
  <2> DEFINE more == Loops[k + 1].limit \div Loops[k + 1].step
  <2>2. TurnsTo[k + 1] = TurnsTo[k] + more + 2 /\ more \in Nat
    BY <1>1, <1>6, <2>1
  <2> HIDE DEF more
  <2>3. Upto(k)
    BY <1>8, <2>1
  <2>4. TurnsTo[k] \in Nat
    BY <2>3
  <2>5. TurnsTo[k + 1] \in Nat /\ TurnsTo[k] <= TurnsTo[k + 1]
    BY <2>2, <2>4
  <2>6. ASSUME NEW j \in 0 .. k + 1
        PROVE  TurnsTo[j] \in Nat /\ TurnsTo[j] <= TurnsTo[k + 1]
    <3>1. CASE j = k + 1
      BY <2>5, <3>1
    <3>2. CASE j # k + 1
      <4>1. j \in 0 .. k
        BY <3>2
      <4> QED
        BY <2>3, <2>4, <2>5, <4>1
    <3> QED
      BY <3>1, <3>2
  <2> QED
    BY <2>6
<1>9. Nat \subseteq Grows
  <2> HIDE DEF Grows
  <2> QED
    BY <1>7, <1>8, NatSetInduction
<1>10. Upto(n)
  <2>1. n \in Grows /\ n <= n
    BY <1>1, <1>9
  <2> HIDE DEF Upto
  <2> QED
    BY <2>1
<1>11. Turns = TurnsTo[n]
  BY DEF Turns, n
<1>12. n = Len(Loops)
  BY DEF n
<1> QED
  BY <1>1, <1>5, <1>6, <1>10, <1>11, <1>12

-----------------------------------------------------------------------------
(* The turns                                                               *)

BuiltRule(f, n) == IF n = 0 THEN Begun ELSE Turn(f[n - 1])

LEMMA BuiltExists ==
  ASSUME NEW n \in Nat
  PROVE  \E f : f = [k \in 0 .. n |-> BuiltRule(f, k)]
<1> DEFINE IsBuilt(f, m) == f = [k \in 0 .. m |-> BuiltRule(f, k)]
           Lengths == {m \in Nat : \E f : IsBuilt(f, m)}
<1>1. 0 \in Lengths
  <2> DEFINE first == [k \in 0 .. 0 |-> Begun]
  <2>1. \A k \in 0 .. 0 : BuiltRule(first, k) = Begun
    BY DEF BuiltRule
  <2>2. IsBuilt(first, 0)
    BY <2>1
  <2> HIDE DEF first, IsBuilt
  <2> QED
    BY <2>2
<1>2. ASSUME NEW m \in Nat, m \in Lengths PROVE m + 1 \in Lengths
  <2>1. PICK f : IsBuilt(f, m)
    BY <1>2
  <2> DEFINE more == [k \in 0 .. m + 1 |-> BuiltRule(f, k)]
  <2>2. ASSUME NEW k \in 0 .. m PROVE more[k] = f[k]
    BY <2>1
  <2>3. ASSUME NEW k \in 0 .. m + 1 PROVE more[k] = BuiltRule(more, k)
    <3>1. more[k] = BuiltRule(f, k)
      OBVIOUS
    <3>2. k # 0 => more[k - 1] = f[k - 1]
      <4>1. k # 0 => k - 1 \in 0 .. m
        OBVIOUS
      <4> HIDE DEF more
      <4> QED
        BY <2>2, <4>1
    <3> HIDE DEF more
    <3> QED
      BY <3>1, <3>2 DEF BuiltRule
  <2>4. IsBuilt(more, m + 1)
    <3>1. DOMAIN more = 0 .. m + 1 /\ more = [k \in DOMAIN more |-> more[k]]
      OBVIOUS
    <3> HIDE DEF more
    <3> QED
      BY <2>3, <3>1
  <2> HIDE DEF more, IsBuilt
  <2> QED
    BY <2>4
<1>3. Nat \subseteq Lengths
  <2> HIDE DEF Lengths
  <2> QED
    BY <1>1, <1>2, NatSetInduction
<1> QED
  BY <1>3

LEMMA BuiltIs ==
  /\ Built[0] = Begun
  /\ \A n \in Nat : n + 1 <= Turns => Built[n + 1] = Turn(Built[n])
<1> DEFINE P(f) == f = [n \in 0 .. Turns |-> BuiltRule(f, n)]
           built == CHOOSE f : P(f)
<1>1. Turns \in Nat
  BY TurnsAre
<1>2. Built = built
  BY DEF Built, BuiltRule
<1>3. P(built)
  <2>1. \E f : P(f)
    BY <1>1, BuiltExists
  <2> HIDE DEF P
  <2> QED
    BY <2>1
<1>4. \A n \in 0 .. Turns : Built[n] = BuiltRule(Built, n)
  <2> HIDE DEF built
  <2> QED
    BY <1>2, <1>3
<1> HIDE DEF P, built
<1>5. Built[0] = Begun
  BY <1>1, <1>4 DEF BuiltRule
<1>6. ASSUME NEW n \in Nat, n + 1 <= Turns PROVE Built[n + 1] = Turn(Built[n])
  <2>1. n + 1 \in 0 .. Turns /\ n + 1 # 0 /\ (n + 1) - 1 = n
    BY <1>1, <1>6
  <2> QED
    BY <1>4, <2>1 DEF BuiltRule
<1> QED
  BY <1>5, <1>6

(* After any number of turns: the pools made so far are below tableIndex,  *)
(* the largest right below it, and the entries below it are right.         *)
Makings ==
  [loop : Nat \ {0}, size : Nat \ {0}, tableIndex : Nat, pools : SUBSET Nat,
   table : [0 .. MaxAllocSize -> Nat]]

EntryIsRight(m, i) ==
  IF i < m.tableIndex
  THEN /\ m.table[i] \in m.pools /\ i <= m.table[i]
       /\ \A p \in m.pools : i <= p => m.table[i] <= p
  ELSE m.table[i] = NoPool

MakingInv(m) ==
  /\ m \in Makings
  /\ m.loop <= Len(Loops) + 1
  /\ m.tableIndex <= m.size /\ m.tableIndex <= MaxAllocSize + 1
  /\ \A p \in m.pools : p # 0 /\ p < m.tableIndex
  /\ m.tableIndex # 0 => m.tableIndex - 1 \in m.pools
  /\ \A i \in 0 .. MaxAllocSize : EntryIsRight(m, i)

(* After n turns a loop that goes on has not had more than its share.      *)
Spent(m, n) == n - TurnsTo[m.loop - 1]
InTime(m, n) ==
  m.loop <= Len(Loops) =>
    /\ Spent(m, n) <= (Loops[m.loop].limit \div Loops[m.loop].step) + 1
    /\ Spent(m, n) > 0 => Loops[m.loop].step * Spent(m, n) <= m.size

LEMMA BegunRight == MakingInv(Begun) /\ InTime(Begun, 0)
<1>1. Loops[1].step \in Nat \ {0} /\ Loops[1].limit \in Nat /\ MaxAllocSize \in Nat
      /\ Len(Loops) \in Nat \ {0}
  BY LoopsAre
<1>2. /\ Begun.loop = 1 /\ Begun.size = Loops[1].step /\ Begun.tableIndex = 0
      /\ Begun.pools = {} /\ \A i \in 0 .. MaxAllocSize : Begun.table[i] = NoPool
      /\ Begun \in Makings
  BY <1>1 DEF Begun, Makings, NoPool
<1>3. MakingInv(Begun)
  BY <1>1, <1>2 DEF MakingInv, EntryIsRight
<1>4. InTime(Begun, 0)
  <2>1. Spent(Begun, 0) = 0
    BY <1>2, TurnsAre DEF Spent
  <2>2. Loops[1].limit \div Loops[1].step \in Nat
    BY <1>1, DivIsNat
  <2> QED
    BY <1>1, <1>2, <2>1, <2>2 DEF InTime
<1> QED
  BY <1>3, <1>4

(* A turn that makes a pool.                                               *)
LEMMA PoolMadeRight ==
  ASSUME NEW m, MakingInv(m), m.loop <= Len(Loops), m.size <= Loops[m.loop].limit
  PROVE  MakingInv(PoolMade(m))
<1> DEFINE q == PoolMade(m)
           step == Loops[m.loop].step
<1>1. /\ m \in Makings /\ m.loop \in 1 .. Len(Loops) /\ Len(Loops) \in Nat
      /\ m.size \in Nat \ {0} /\ m.tableIndex \in Nat /\ m.pools \subseteq Nat
      /\ m.table \in [0 .. MaxAllocSize -> Nat] /\ m.loop \in Nat \ {0}
      /\ m.tableIndex <= m.size
  BY LoopsAre DEF MakingInv, Makings
<1>2. step \in Nat \ {0} /\ m.size <= MaxAllocSize /\ MaxAllocSize \in Nat
  BY <1>1, LoopsAre
<1>3. /\ q.loop = m.loop /\ q.size = m.size + step /\ q.tableIndex = m.size + 1
      /\ q.pools = m.pools \cup {m.size}
      /\ q.table = [i \in 0 .. MaxAllocSize |->
                      IF i \in m.tableIndex .. m.size THEN m.size ELSE m.table[i]]
  BY <1>1 DEF PoolMade
<1>4. q \in Makings
  <2>1. q.table \in [0 .. MaxAllocSize -> Nat]
    BY <1>1, <1>3
  <2>2. q = [loop |-> q.loop, size |-> q.size, tableIndex |-> q.tableIndex,
             pools |-> q.pools, table |-> q.table]
    BY DEF PoolMade
  <2> HIDE DEF q, step
  <2>3. q.loop \in Nat \ {0} /\ q.size \in Nat \ {0} /\ q.tableIndex \in Nat
        /\ q.pools \in SUBSET Nat
    BY <1>1, <1>2, <1>3
  <2> QED
    BY <2>1, <2>2, <2>3 DEF Makings
<1> HIDE DEF q, step
<1>5. q.tableIndex <= q.size /\ q.tableIndex <= MaxAllocSize + 1 /\ q.loop <= Len(Loops) + 1
  BY <1>1, <1>2, <1>3
<1>6. \A p \in m.pools : p # 0 /\ p < m.tableIndex /\ p < m.size
  BY <1>1 DEF MakingInv
<1>7. \A p \in q.pools : p # 0 /\ p < q.tableIndex
  BY <1>1, <1>3, <1>6
<1>8. q.tableIndex # 0 => q.tableIndex - 1 \in q.pools
  BY <1>1, <1>3
<1>9. ASSUME NEW i \in 0 .. MaxAllocSize PROVE EntryIsRight(q, i)
  <2>1. /\ EntryIsRight(m, i)
        /\ q.table[i] = IF i \in m.tableIndex .. m.size THEN m.size ELSE m.table[i]
    BY <1>3 DEF MakingInv
  <2>2. CASE i < m.tableIndex
    <3>1. q.table[i] = m.table[i] /\ i < q.tableIndex
      <4>1. i \notin m.tableIndex .. m.size
        BY <1>1, <2>2
      <4>2. i < q.tableIndex
        BY <1>1, <1>2, <1>3, <2>2
      <4> QED
        BY <2>1, <4>1, <4>2
    <3>2. m.table[i] \in m.pools /\ i <= m.table[i]
          /\ \A p \in m.pools : i <= p => m.table[i] <= p
      BY <2>1, <2>2 DEF EntryIsRight
    <3>3. m.table[i] <= m.size
      BY <1>1, <1>6, <3>2
    <3> QED
      BY <1>3, <3>1, <3>2, <3>3 DEF EntryIsRight
  <2>3. CASE i \in m.tableIndex .. m.size
    <3>1. q.table[i] = m.size /\ i < q.tableIndex /\ i <= m.size
      BY <1>1, <1>2, <1>3, <2>3
    <3>2. \A p \in m.pools : ~ (i <= p)
      BY <1>1, <1>6, <2>3
    <3> QED
      BY <1>1, <1>3, <3>1, <3>2 DEF EntryIsRight
  <2>4. CASE i > m.size
    <3>1. q.table[i] = m.table[i] /\ ~ (i < q.tableIndex) /\ ~ (i < m.tableIndex)
      <4>1. i \notin m.tableIndex .. m.size
        BY <1>1, <2>4
      <4>2. ~ (i < q.tableIndex) /\ ~ (i < m.tableIndex)
        BY <1>1, <1>2, <1>3, <2>4
      <4> QED
        BY <2>1, <4>1, <4>2
    <3> QED
      BY <2>1, <3>1 DEF EntryIsRight
  <2> QED
    BY <1>1, <2>2, <2>3, <2>4
<1>10. MakingInv(q)
  BY <1>4, <1>5, <1>7, <1>8, <1>9 DEF MakingInv
<1> QED
  BY <1>10 DEF q

(* Any turn.                                                               *)
LEMMA TurnRight ==
  ASSUME NEW m, NEW n \in Nat, MakingInv(m), InTime(m, n)
  PROVE  MakingInv(Turn(m)) /\ InTime(Turn(m), n + 1)
<1>1. /\ m \in Makings /\ m.loop \in 1 .. Len(Loops) + 1 /\ Len(Loops) \in Nat \ {0}
      /\ m.size \in Nat \ {0}
  BY LoopsAre DEF MakingInv, Makings
<1>2. CASE m.loop > Len(Loops)
  <2>1. Turn(m) = m /\ ~ (m.loop <= Len(Loops))
    BY <1>1, <1>2 DEF Turn
  <2> QED
    BY <2>1 DEF InTime
<1>3. ASSUME m.loop \in 1 .. Len(Loops)
      PROVE  MakingInv(Turn(m)) /\ InTime(Turn(m), n + 1)
  <2> DEFINE limit == Loops[m.loop].limit
             step  == Loops[m.loop].step
             most  == limit \div step
             spent == Spent(m, n)
  <2>1. limit \in Nat /\ step \in Nat \ {0}
    BY <1>3, LoopsAre
  <2>2. most \in Nat
    BY <2>1, DivIsNat
  <2>3. /\ TurnsTo[m.loop - 1] \in Nat /\ spent \in Int
        /\ spent = n - TurnsTo[m.loop - 1]
        /\ TurnsTo[m.loop] = TurnsTo[m.loop - 1] + most + 2
    BY <1>3, TurnsAre DEF Spent
  <2>4. spent <= most + 1 /\ (spent > 0 => step * spent <= m.size)
    BY <1>1, <1>3 DEF InTime
  <2>5. CASE m.size > limit
    <3> DEFINE q == [m EXCEPT !.loop = @ + 1]
    <3>1. Turn(m) = q
      BY <1>1, <1>3, <2>5 DEF Turn
    <3>2. /\ q \in Makings /\ q.loop = m.loop + 1 /\ q.size = m.size /\ q.pools = m.pools
          /\ q.tableIndex = m.tableIndex /\ q.table = m.table
      BY <1>1 DEF Makings
    <3> HIDE DEF q
    <3>3. MakingInv(q)
      BY <1>1, <1>3, <3>2 DEF MakingInv, EntryIsRight
    <3>4. ASSUME q.loop <= Len(Loops)
          PROVE  Spent(q, n + 1) <= 0
      <4>1. q.loop - 1 = m.loop
        BY <1>1, <3>2
      <4>2. Spent(q, n + 1) = (n + 1) - TurnsTo[m.loop]
        BY <4>1 DEF Spent
      <4> HIDE DEF limit, step, most, spent
      <4> QED
        BY <2>2, <2>3, <2>4, <4>2
    <3>5. InTime(q, n + 1)
      <4> SUFFICES ASSUME q.loop <= Len(Loops)
                   PROVE  /\ Spent(q, n + 1) <= (Loops[q.loop].limit \div Loops[q.loop].step) + 1
                          /\ ~ (Spent(q, n + 1) > 0)
        BY DEF InTime
      <4>1. q.loop \in 1 .. Len(Loops)
        BY <1>1, <3>2
      <4>2. Loops[q.loop].limit \in Nat /\ Loops[q.loop].step \in Nat \ {0}
        BY <4>1, LoopsAre
      <4>3. Loops[q.loop].limit \div Loops[q.loop].step \in Nat
        BY <4>2, DivIsNat
      <4>4. Spent(q, n + 1) \in Int
        <5>1. TurnsTo[q.loop - 1] \in Nat
          BY <4>1, TurnsAre
        <5> QED
          BY <5>1 DEF Spent
      <4> QED
        BY <3>4, <4>3, <4>4
    <3> QED
      BY <3>1, <3>3, <3>5
  <2>6. CASE ~ (m.size > limit)
    <3> DEFINE q == PoolMade(m)
    <3>1. Turn(m) = q
      BY <1>1, <1>3, <2>6 DEF Turn
    <3>2. MakingInv(q)
      BY <1>1, <1>3, <2>1, <2>6, PoolMadeRight
    <3>3. q.loop = m.loop /\ q.size = m.size + step
      BY DEF PoolMade
    <3> HIDE DEF q
    <3>4. Spent(q, n + 1) = spent + 1
      BY <2>3, <3>3 DEF Spent
    <3>5. spent <= most
      <4>1. CASE spent <= 0
        <5> HIDE DEF limit, step, most, spent
        <5> QED
          BY <2>2, <2>3, <4>1
      <4>2. CASE spent > 0
        <5>1. spent \in Nat /\ step * spent <= m.size
          BY <2>3, <2>4, <4>2
        <5> HIDE DEF spent
        <5>2. step * spent \in Nat
          BY <2>1, <5>1
        <5>3. step * spent <= limit
          BY <1>1, <2>1, <2>6, <5>1, <5>2
        <5> QED
          BY <2>1, <5>1, <5>3, DivBound
      <4> QED
        BY <2>3, <4>1, <4>2
    <3>6. spent + 1 > 0 => step * (spent + 1) <= m.size + step
      <4> SUFFICES ASSUME spent + 1 > 0 PROVE step * (spent + 1) <= m.size + step
        OBVIOUS
      <4> HIDE DEF limit, step, most, spent
      <4>1. CASE spent = 0
        BY <1>1, <2>1, <4>1
      <4>2. CASE spent > 0
        <5>1. step * (spent + 1) = step * spent + step /\ step * spent \in Int
          <6>1. step \in Int /\ spent \in Int
            BY <2>1, <2>3
          <6> QED
            BY <6>1, OnceMore
        <5> QED
          BY <1>1, <2>1, <2>4, <4>2, <5>1
      <4> QED
        BY <2>3, <4>1, <4>2
    <3>7. InTime(q, n + 1)
      <4>1. Spent(q, n + 1) <= most + 1
        <5> HIDE DEF limit, step, most, spent
        <5> QED
          BY <2>2, <2>3, <3>4, <3>5
      <4> QED
        BY <3>3, <3>4, <3>6, <4>1 DEF InTime
    <3> QED
      BY <3>1, <3>2, <3>7
  <2> QED
    BY <1>1, <2>1, <2>5, <2>6
<1> QED
  BY <1>1, <1>2, <1>3

LEMMA EveryTurnRight ==
  ASSUME NEW n \in Nat, n <= Turns
  PROVE  MakingInv(Built[n]) /\ InTime(Built[n], n)
<1> DEFINE Right == {k \in Nat : k <= Turns => MakingInv(Built[k]) /\ InTime(Built[k], k)}
<1>1. 0 \in Right
  BY BegunRight, BuiltIs
<1>2. ASSUME NEW k \in Nat, k \in Right PROVE k + 1 \in Right
  <2> SUFFICES ASSUME k + 1 <= Turns
               PROVE  MakingInv(Built[k + 1]) /\ InTime(Built[k + 1], k + 1)
    OBVIOUS
  <2>1. k <= Turns
    BY TurnsAre
  <2>2. MakingInv(Built[k]) /\ InTime(Built[k], k)
    BY <1>2, <2>1
  <2>3. Built[k + 1] = Turn(Built[k])
    BY BuiltIs
  <2> QED
    BY <2>2, <2>3, TurnRight
<1>3. Nat \subseteq Right
  <2> HIDE DEF Right
  <2> QED
    BY <1>1, <1>2, NatSetInduction
<1> QED
  BY <1>3

LEMMA PoolsAreSizes ==
  /\ PoolSizes \subseteq Nat \ {0}
  /\ \A p \in PoolSizes : p <= MaxAllocSize
  /\ MaxAllocSize \in Nat
<1>1. MakingInv(Built[Turns]) /\ MaxAllocSize \in Nat
  BY TurnsAre, EveryTurnRight, LoopsAre
<1>2. /\ PoolSizes \subseteq Nat /\ Built[Turns].tableIndex \in Nat
      /\ Built[Turns].tableIndex <= MaxAllocSize + 1
      /\ \A p \in PoolSizes : p # 0 /\ p < Built[Turns].tableIndex
  BY <1>1 DEF MakingInv, Makings, PoolSizes
<1> QED
  BY <1>1, <1>2

(* The constructor (Memory.cpp:15-52) comes to its end, whatever its       *)
(* loops.  Its while loop then has written to an entry of _poolTable the   *)
(* smallest pool that is large enough, and to every entry up to the size   *)
(* of the largest pool; the entries above that keep what memory held.      *)
THEOREM TableIsRight ==
  /\ Built[Turns].loop = Len(Loops) + 1
  /\ \A i \in 0 .. MaxAllocSize :
       /\ PoolTable[i] # NoPool =>
            /\ PoolTable[i] \in PoolSizes /\ i <= PoolTable[i]
            /\ \A p \in PoolSizes : i <= p => PoolTable[i] <= p
       /\ PoolTable[i] = NoPool <=> \A p \in PoolSizes : p < i
<1> DEFINE m == Built[Turns]
<1>1. MakingInv(m) /\ InTime(m, Turns) /\ PoolSizes = m.pools /\ PoolTable = m.table
      /\ Turns \in Nat
  BY TurnsAre, EveryTurnRight DEF PoolSizes, PoolTable
<1> HIDE DEF m
<1>2. m.loop = Len(Loops) + 1
  <2>1. m.loop \in Nat \ {0} /\ m.loop <= Len(Loops) + 1 /\ Len(Loops) \in Nat
    BY <1>1, LoopsAre DEF MakingInv, Makings
  <2>2. ASSUME m.loop <= Len(Loops) PROVE FALSE
    <3>1. m.loop \in 1 .. Len(Loops)
      BY <2>1, <2>2
    <3> DEFINE most == Loops[m.loop].limit \div Loops[m.loop].step
    <3>2. most \in Nat
      <4>1. Loops[m.loop].limit \in Nat /\ Loops[m.loop].step \in Nat \ {0}
        BY <3>1, LoopsAre
      <4> QED
        BY <4>1, DivIsNat
    <3>3. /\ TurnsTo[m.loop - 1] \in Nat /\ TurnsTo[m.loop] <= Turns
          /\ TurnsTo[m.loop] = TurnsTo[m.loop - 1] + most + 2
      BY <3>1, TurnsAre
    <3>4. Turns - TurnsTo[m.loop - 1] <= most + 1
      BY <1>1, <2>2 DEF InTime, Spent
    <3> HIDE DEF most
    <3> QED
      BY <1>1, <3>2, <3>3, <3>4
  <2> QED
    BY <2>1, <2>2
<1>3. ASSUME NEW i \in 0 .. MaxAllocSize
      PROVE  /\ m.table[i] # NoPool =>
                  /\ m.table[i] \in m.pools /\ i <= m.table[i]
                  /\ \A p \in m.pools : i <= p => m.table[i] <= p
             /\ m.table[i] = NoPool <=> \A p \in m.pools : p < i
  <2>1. /\ EntryIsRight(m, i) /\ m.tableIndex \in Nat /\ m.pools \subseteq Nat
        /\ \A p \in m.pools : p # 0 /\ p < m.tableIndex
    BY <1>1 DEF MakingInv, Makings
  <2>2. CASE i < m.tableIndex
    BY <2>1, <2>2 DEF EntryIsRight, NoPool
  <2>3. CASE ~ (i < m.tableIndex)
    <3>1. \A p \in m.pools : p < i
      BY <2>1, <2>3
    <3> QED
      BY <2>1, <2>3, <3>1 DEF EntryIsRight
  <2> QED
    BY <2>2, <2>3
<1> QED
  BY <1>1, <1>2, <1>3 DEF m

(* The loops and limits of the source (Memory.cpp:15, 28, 41; Memory.h).   *)
SourceTable ==
  /\ Loops = <<[limit |-> 1024, step |-> 32], [limit |-> 2048, step |-> 128],
               [limit |-> 4096, step |-> 256]>>
  /\ MaxAllocSize = 4096
  /\ HeaderSize = 4

(* Where size and tableIndex are in each of them.                          *)
SourceMaking(m) ==
  \/ /\ m.loop = 1
     /\ \E j \in 0 .. 32 : /\ m.size = 32 * (j + 1)
                           /\ m.tableIndex = IF j = 0 THEN 0 ELSE m.size - 31
  \/ /\ m.loop = 2
     /\ \E j \in 0 .. 8 : /\ m.size = 1056 + 128 * j
                          /\ m.tableIndex = IF j = 0 THEN 1025 ELSE m.size - 127
  \/ /\ m.loop = 3
     /\ \E j \in 0 .. 8 : /\ m.size = 2080 + 256 * j
                          /\ m.tableIndex = IF j = 0 THEN 1953 ELSE m.size - 255
  \/ /\ m.loop = 4
     /\ m.tableIndex = 3873

LEMMA SourceTurn ==
  ASSUME SourceTable, NEW m, MakingInv(m), SourceMaking(m)
  PROVE  SourceMaking(Turn(m))
<1>1. /\ Len(Loops) = 3
      /\ Loops[1].limit = 1024 /\ Loops[1].step = 32
      /\ Loops[2].limit = 2048 /\ Loops[2].step = 128
      /\ Loops[3].limit = 4096 /\ Loops[3].step = 256
  BY DEF SourceTable
<1>2. m \in Makings /\ m.loop \in Nat /\ m.size \in Nat /\ m.tableIndex \in Nat
  BY DEF MakingInv, Makings
<1>3. ASSUME m.loop <= 3, m.size > Loops[m.loop].limit
      PROVE  /\ Turn(m).loop = m.loop + 1
             /\ Turn(m).size = m.size /\ Turn(m).tableIndex = m.tableIndex
  <2>1. Turn(m) = [m EXCEPT !.loop = @ + 1]
    BY <1>1, <1>2, <1>3 DEF Turn
  <2> QED
    BY <1>2, <2>1 DEF Makings
<1>4. ASSUME m.loop <= 3, ~ (m.size > Loops[m.loop].limit)
      PROVE  /\ Turn(m).loop = m.loop
             /\ Turn(m).size = m.size + Loops[m.loop].step
             /\ Turn(m).tableIndex =
                  IF m.tableIndex <= m.size THEN m.size + 1 ELSE m.tableIndex
  <2>1. Turn(m) = PoolMade(m)
    BY <1>1, <1>2, <1>4 DEF Turn
  <2> QED
    BY <2>1 DEF PoolMade
<1>5. CASE m.loop = 1
  <2>1. PICK j \in 0 .. 32 : /\ m.size = 32 * (j + 1)
                             /\ m.tableIndex = IF j = 0 THEN 0 ELSE m.size - 31
    BY <1>5 DEF SourceMaking
  <2>2. CASE j = 32
    <3>1. m.size = 1056 /\ m.tableIndex = 1025
      BY <2>1, <2>2
    <3>2. Turn(m).loop = 2 /\ Turn(m).size = 1056 /\ Turn(m).tableIndex = 1025
      BY <1>1, <1>3, <1>5, <3>1
    <3>3. 0 \in 0 .. 8 /\ 1056 = 1056 + 128 * 0
      OBVIOUS
    <3> QED
      BY <3>2, <3>3 DEF SourceMaking
  <2>3. CASE j # 32
    <3>1. j + 1 \in 0 .. 32 /\ j + 1 # 0 /\ m.tableIndex <= m.size /\ ~ (m.size > 1024)
      BY <2>1, <2>3
    <3>2. Turn(m).loop = 1 /\ Turn(m).size = m.size + 32 /\ Turn(m).tableIndex = m.size + 1
      BY <1>1, <1>4, <1>5, <3>1
    <3>3. Turn(m).size = 32 * ((j + 1) + 1) /\ Turn(m).tableIndex = Turn(m).size - 31
      BY <2>1, <3>2
    <3> QED
      BY <3>1, <3>2, <3>3 DEF SourceMaking
  <2> QED
    BY <2>2, <2>3
<1>6. CASE m.loop = 2
  <2>1. PICK j \in 0 .. 8 : /\ m.size = 1056 + 128 * j
                            /\ m.tableIndex = IF j = 0 THEN 1025 ELSE m.size - 127
    BY <1>6 DEF SourceMaking
  <2>2. CASE j = 8
    <3>1. m.size = 2080 /\ m.tableIndex = 1953
      BY <2>1, <2>2
    <3>2. Turn(m).loop = 3 /\ Turn(m).size = 2080 /\ Turn(m).tableIndex = 1953
      BY <1>1, <1>3, <1>6, <3>1
    <3>3. 0 \in 0 .. 8 /\ 2080 = 2080 + 256 * 0
      OBVIOUS
    <3> QED
      BY <3>2, <3>3 DEF SourceMaking
  <2>3. CASE j # 8
    <3>1. j + 1 \in 0 .. 8 /\ j + 1 # 0 /\ m.tableIndex <= m.size /\ ~ (m.size > 2048)
      BY <2>1, <2>3
    <3>2. Turn(m).loop = 2 /\ Turn(m).size = m.size + 128 /\ Turn(m).tableIndex = m.size + 1
      BY <1>1, <1>4, <1>6, <3>1
    <3>3. Turn(m).size = 1056 + 128 * (j + 1) /\ Turn(m).tableIndex = Turn(m).size - 127
      BY <2>1, <3>2
    <3> QED
      BY <3>1, <3>2, <3>3 DEF SourceMaking
  <2> QED
    BY <2>2, <2>3
<1>7. CASE m.loop = 3
  <2>1. PICK j \in 0 .. 8 : /\ m.size = 2080 + 256 * j
                            /\ m.tableIndex = IF j = 0 THEN 1953 ELSE m.size - 255
    BY <1>7 DEF SourceMaking
  <2>2. CASE j = 8
    <3>1. m.size = 4128 /\ m.tableIndex = 3873
      BY <2>1, <2>2
    <3>2. Turn(m).loop = 4 /\ Turn(m).tableIndex = 3873
      BY <1>1, <1>3, <1>7, <3>1
    <3> QED
      BY <3>2 DEF SourceMaking
  <2>3. CASE j # 8
    <3>1. j + 1 \in 0 .. 8 /\ j + 1 # 0 /\ m.tableIndex <= m.size /\ ~ (m.size > 4096)
      BY <2>1, <2>3
    <3>2. Turn(m).loop = 3 /\ Turn(m).size = m.size + 256 /\ Turn(m).tableIndex = m.size + 1
      BY <1>1, <1>4, <1>7, <3>1
    <3>3. Turn(m).size = 2080 + 256 * (j + 1) /\ Turn(m).tableIndex = Turn(m).size - 255
      BY <2>1, <3>2
    <3> QED
      BY <3>1, <3>2, <3>3 DEF SourceMaking
  <2> QED
    BY <2>2, <2>3
<1>8. CASE m.loop = 4
  <2>1. Turn(m) = m
    BY <1>1, <1>8 DEF Turn
  <2> QED
    BY <2>1
<1> QED
  BY <1>5, <1>6, <1>7, <1>8 DEF SourceMaking

(* With the loops of the source the largest pool has 3872 bytes, 224 short *)
(* of MAX_ALLOC_SIZE: among the allocations that Memory.cpp:72 leaves to   *)
(* the pools just those of 3869 to 4092 bytes find none.                   *)
THEOREM SourceTableEndsEarly ==
  ASSUME SourceTable, NEW size \in Nat, AllocSize(size) <= MaxAllocSize
  PROVE  PoolTable[AllocSize(size)] = NoPool <=> size \in 3869 .. 4092
<1> DEFINE Right == {n \in Nat : n <= Turns => SourceMaking(Built[n])}
<1>1. 0 \in Right
  <2>1. Built[0].loop = 1 /\ Built[0].size = 32 /\ Built[0].tableIndex = 0
    BY BuiltIs DEF Begun, SourceTable
  <2>2. 0 \in 0 .. 32 /\ 32 = 32 * (0 + 1)
    OBVIOUS
  <2> QED
    BY <2>1, <2>2 DEF SourceMaking
<1>2. ASSUME NEW n \in Nat, n \in Right PROVE n + 1 \in Right
  <2> SUFFICES ASSUME n + 1 <= Turns PROVE SourceMaking(Built[n + 1])
    OBVIOUS
  <2>1. n <= Turns
    BY TurnsAre
  <2>2. SourceMaking(Built[n]) /\ MakingInv(Built[n])
    BY <1>2, <2>1, EveryTurnRight
  <2> QED
    BY <2>2, BuiltIs, SourceTurn
<1>3. SourceMaking(Built[Turns])
  <2>1. Nat \subseteq Right
    <3> HIDE DEF Right
    <3> QED
      BY <1>1, <1>2, NatSetInduction
  <2> QED
    BY <2>1, TurnsAre
<1>4. Built[Turns].tableIndex = 3873
  <2>1. Built[Turns].loop = 4
    <3>1. Len(Loops) = 3
      BY DEF SourceTable
    <3>2. Built[Turns].loop = Len(Loops) + 1
      BY TableIsRight
    <3> QED
      BY <3>1, <3>2
  <2> QED
    BY <1>3, <2>1 DEF SourceMaking
<1>5. 3872 \in PoolSizes /\ \A p \in PoolSizes : p < 3873
  <2>1. MakingInv(Built[Turns])
    BY TurnsAre, EveryTurnRight
  <2> QED
    BY <1>4, <2>1 DEF MakingInv, PoolSizes
<1>6. AllocSize(size) = size + 4 /\ AllocSize(size) \in 0 .. MaxAllocSize /\ size <= 4092
  BY DEF AllocSize, SourceTable
<1>7. PoolTable[AllocSize(size)] = NoPool <=> \A p \in PoolSizes : p < AllocSize(size)
  BY <1>6, TableIsRight
<1>8. (\A p \in PoolSizes : p < AllocSize(size)) <=> 3872 < size + 4
  BY <1>5, <1>6, PoolsAreSizes
<1> QED
  BY <1>6, <1>7, <1>8

LEMMA SizesAreSizes ==
  \A size \in Sizes : size \in Nat \ {0} /\ AllocSize(size) \in Nat \ {0}
  BY MemoryAssumption, PoolTableAssumption DEF AllocSize

(* A set of blocks has a number, and so has one with a block more or less. *)
LEMMA OneMoreBlock ==
  ASSUME NEW S \in SUBSET Blocks
  PROVE  /\ Cardinality(S) \in Nat
         /\ \A b \in Blocks : b \notin S => Cardinality(S \cup {b}) = Cardinality(S) + 1
         /\ \A b \in Blocks : b \in S => Cardinality(S \ {b}) = Cardinality(S) - 1
<1>1. IsFiniteSet(S)
  BY MemoryAssumption, FS_Subset
<1> QED
  BY <1>1, FS_CardinalityType, FS_AddElement, FS_RemoveElement

-----------------------------------------------------------------------------
LEMMA InitMInv == Init => MInv
<1> SUFFICES ASSUME Init PROVE MInv
  OBVIOUS
<1>1. \A t \in Threads : doing[t].step = "idle"
  BY DEF Init, Idle
<1>2. TypeOK
  <2>1. Idle \in Steps
    BY DEF Steps
  <2>2. /\ capacity \in [Blocks -> Nat] /\ header \in [Blocks -> Int]
        /\ allocCount \in [PoolSizes -> Nat] /\ inUse \in [Blocks -> {0} \cup Sizes]
    BY DEF Init, Garbage
  <2>3. queue \in [PoolSizes -> Seq(Blocks)] /\ doing \in [Threads -> Steps]
    BY <2>1 DEF Init
  <2> QED
    BY <2>2, <2>3 DEF TypeOK, Init
<1>3. CallInv /\ QueueInv /\ UserInv
  BY <1>1 DEF Init, CallInv, QueueInv, UserInv, Holds
<1>4. CountIsHandedOut
  <2>1. \A p \in PoolSizes : HandedOut(p) = {}
    BY PoolsAreSizes DEF HandedOut, Init
  <2> QED
    BY <2>1, FS_EmptySet DEF CountIsHandedOut, Init
<1> QED
  BY <1>2, <1>3, <1>4 DEF MInv, Init

(* The pools' counts are numbers of blocks.                                *)
LEMMA CountsAreNumbers ==
  ASSUME CountIsHandedOut, NEW p \in PoolSizes
  PROVE  allocCount[p] = Cardinality(HandedOut(p)) /\ allocCount[p] \in Nat
<1>1. HandedOut(p) \in SUBSET Blocks
  BY DEF HandedOut
<1> QED
  BY <1>1, OneMoreBlock DEF CountIsHandedOut

(* A fresh block is nowhere.                                               *)
LEMMA FreshIsNowhere ==
  ASSUME MInv, NEW b \in Blocks, IsFresh(b)
  PROVE  /\ inUse[b] = 0
         /\ \A t \in Threads : ~Holds(t, b)
         /\ \A p \in PoolSizes : /\ b \notin HandedOut(p)
                               /\ \A i \in 1 .. Len(queue[p]) : queue[p][i] # b
<1>1. capacity[b] = 0
  BY DEF IsFresh
<1>2. inUse[b] = 0
  <2> SUFFICES ASSUME inUse[b] # 0 PROVE FALSE
    OBVIOUS
  <2>1. inUse[b] \in Sizes /\ header[b] = AllocSize(inUse[b]) /\ CameFrom(b)
    BY DEF MInv, UserInv, TypeOK
  <2>2. header[b] \in Nat \ {0}
    BY <2>1, SizesAreSizes
  <2> QED
    BY <1>1, <2>1, <2>2, PoolsAreSizes DEF CameFrom
<1>3. ASSUME NEW t \in Threads, Holds(t, b) PROVE FALSE
  <2>1. capacity[b] = doing[t].pool
    BY <1>3 DEF MInv, CallInv
  <2>2. doing[t].pool \in PoolSizes
    BY <1>3 DEF MInv, TypeOK, Steps, Holds, Idle
  <2> QED
    BY <1>1, <2>1, <2>2, PoolsAreSizes
<1>4. ASSUME NEW p \in PoolSizes
      PROVE  b \notin HandedOut(p) /\ \A i \in 1 .. Len(queue[p]) : queue[p][i] # b
  BY <1>1, PoolsAreSizes DEF MInv, QueueInv, HandedOut
<1> QED
  BY <1>2, <1>3, <1>4

-----------------------------------------------------------------------------
(* Allocate                                                                *)

LEMMA AllocateLargeMInv ==
  ASSUME MInv, NEW t \in Threads, NEW size \in Sizes, AllocateLarge(t, size)
  PROVE  MInv'
<1>1. PICK b \in Blocks :
        /\ IsFresh(b)
        /\ capacity' = [capacity EXCEPT ![b] = AllocSize(size)]
        /\ header' = [header EXCEPT ![b] = AllocSize(size)]
        /\ inUse' = [inUse EXCEPT ![b] = size]
  BY DEF AllocateLarge, AttachHeader
<1>2. /\ AllocSize(size) > MaxAllocSize /\ AllocSize(size) \in Nat
      /\ queue' = queue /\ allocCount' = allocCount /\ doing' = doing /\ crash' = crash
  BY SizesAreSizes DEF AllocateLarge
<1>3. /\ inUse[b] = 0
      /\ \A u \in Threads : ~Holds(u, b)
      /\ \A p \in PoolSizes : /\ b \notin HandedOut(p)
                            /\ \A i \in 1 .. Len(queue[p]) : queue[p][i] # b
  BY <1>1, FreshIsNowhere
<1>4. /\ capacity \in [Blocks -> Nat] /\ header \in [Blocks -> Int]
      /\ inUse \in [Blocks -> {0} \cup Sizes]
  BY DEF MInv, TypeOK
<1>5. /\ capacity'[b] = AllocSize(size) /\ header'[b] = AllocSize(size)
      /\ inUse'[b] = size
      /\ \A c \in Blocks : c # b => /\ capacity'[c] = capacity[c]
                                 /\ header'[c] = header[c]
                                 /\ inUse'[c] = inUse[c]
  BY <1>1, <1>4
<1>6. TypeOK'
  BY <1>1, <1>2, <1>4 DEF MInv, TypeOK
<1>7. CallInv'
  <2>1. \A u \in Threads : \A c \in Blocks : Holds(u, c)' <=> Holds(u, c)
    BY <1>2 DEF Holds
  <2>2. \A u \in Threads : doing[u].step = "pop" => doing[u].block # b
    BY <1>3 DEF Holds
  <2>3. \A u \in Threads : doing[u].step = "pop" => doing[u].block \in Blocks \cup {NoBlock}
    BY DEF MInv, TypeOK, Steps, Idle
  <2> QED
    BY <1>2, <1>3, <1>5, <2>1, <2>2, <2>3 DEF MInv, CallInv
<1>8. QueueInv'
  <2>1. \A p \in PoolSizes : \A i \in 1 .. Len(queue[p]) : queue[p][i] \in Blocks
    BY ElementOfSeq DEF MInv, TypeOK
  <2> QED
    BY <1>2, <1>3, <1>5, <2>1 DEF MInv, QueueInv, Holds
<1>9. UserInv'
  <2>1. CameFrom(b)'
    BY <1>2, <1>5, PoolsAreSizes DEF CameFrom
  <2>2. \A c \in Blocks : c # b => (CameFrom(c)' <=> CameFrom(c))
    BY <1>5 DEF CameFrom
  <2> QED
    BY <1>5, <2>1, <2>2 DEF MInv, UserInv
<1>10. CountIsHandedOut'
  <2>1. ASSUME NEW p \in PoolSizes PROVE HandedOut(p)' = HandedOut(p)
    <3>1. b \notin HandedOut(p)'
      BY <1>2, <1>5, PoolsAreSizes DEF HandedOut
    <3>2. \A c \in Blocks : c # b => (c \in HandedOut(p)' <=> c \in HandedOut(p))
      BY <1>2, <1>5 DEF HandedOut
    <3>3. HandedOut(p)' \subseteq Blocks /\ HandedOut(p) \subseteq Blocks
      BY DEF HandedOut
    <3>4. \A c \in Blocks : c \in HandedOut(p)' <=> c \in HandedOut(p)
      BY <1>3, <3>1, <3>2
    <3> QED
      BY <3>3, <3>4, Zenon
  <2> QED
    BY <1>2, <2>1 DEF MInv, CountIsHandedOut
<1> QED
  BY <1>2, <1>6, <1>7, <1>8, <1>9, <1>10 DEF MInv

(* A table entry that has been written has a pool.                         *)
LEMMA PoolOfSize ==
  ASSUME NEW size \in Sizes, AllocSize(size) <= MaxAllocSize,
         PoolTable[AllocSize(size)] # NoPool
  PROVE  PoolTable[AllocSize(size)] \in PoolSizes
<1>1. AllocSize(size) \in 0 .. MaxAllocSize
  BY SizesAreSizes, PoolsAreSizes
<1> QED
  BY <1>1, TableIsRight

(* What Pop does when it finds no block, and when it finds one.            *)
LEMMA PopSteps ==
  ASSUME NEW t \in Threads, NEW size \in Sizes, Pop(t, size),
         PoolTable[AllocSize(size)] # NoPool
  PROVE  \E pool \in PoolSizes : \E block :
           /\ pool = PoolTable[AllocSize(size)]
           /\ block = IF queue[pool] = <<>> THEN NoBlock ELSE Head(queue[pool])
           /\ doing[t] = Idle /\ AllocSize(size) <= MaxAllocSize
           /\ queue' = [queue EXCEPT ![pool] = IF @ = <<>> THEN @ ELSE Tail(@)]
           /\ doing' = [doing EXCEPT ![t] = [step |-> "pop", pool |-> pool,
                                             block |-> block, size |-> size]]
           /\ capacity' = capacity /\ header' = header /\ allocCount' = allocCount
           /\ inUse' = inUse /\ crash' = crash
<1>1. PoolTable[AllocSize(size)] \in PoolSizes
  BY PoolOfSize DEF Pop
<1> QED
  BY <1>1 DEF Pop

(* The front of a queue, and the queue without it.                         *)
LEMMA FrontOfQueue ==
  ASSUME MInv, NEW pool \in PoolSizes, queue[pool] # <<>>
  PROVE  /\ Head(queue[pool]) = queue[pool][1] /\ Head(queue[pool]) \in Blocks
         /\ Len(queue[pool]) \in Nat \ {0}
         /\ Tail(queue[pool]) \in Seq(Blocks)
         /\ Len(Tail(queue[pool])) = Len(queue[pool]) - 1
         /\ \A i \in 1 .. Len(Tail(queue[pool])) :
              Tail(queue[pool])[i] = queue[pool][i + 1]
<1>1. queue[pool] \in Seq(Blocks)
  BY DEF MInv, TypeOK
<1>2. Head(queue[pool]) = queue[pool][1]
  BY <1>1
<1>3. Len(queue[pool]) \in Nat \ {0}
  BY <1>1, EmptySeq
<1>4. queue[pool][1] \in Blocks
  BY <1>1, <1>3, ElementOfSeq
<1>5. /\ Tail(queue[pool]) \in Seq(Blocks)
      /\ Len(Tail(queue[pool])) = Len(queue[pool]) - 1
      /\ \A i \in 1 .. Len(Tail(queue[pool])) :
           Tail(queue[pool])[i] = queue[pool][i + 1]
  BY <1>1, HeadTailProperties, Zenon
<1> QED
  BY <1>2, <1>3, <1>4, <1>5

(* While nobody's Push begins or ends, capacity and use tell what a pool   *)
(* has handed out.                                                         *)
LEMMA SameHandedOut ==
  ASSUME NEW t \in Threads, doing[t].step # "push", doing'[t].step # "push",
         \A u \in Threads : u # t => doing'[u] = doing[u],
         capacity' = capacity, inUse' = inUse
  PROVE  \A p : HandedOut(p)' = HandedOut(p)
<1>1. \A b \in Blocks : (\E u \in Threads : doing[u].step = "push" /\ doing[u].block = b)
        <=> (\E u \in Threads : doing'[u].step = "push" /\ doing'[u].block = b)
  OBVIOUS
<1> QED
  BY <1>1 DEF HandedOut

(* The thread goes on to malloc.                                           *)
LEMMA PopNothing ==
  ASSUME MInv, NEW t \in Threads, NEW size \in Sizes, NEW pool \in PoolSizes,
         doing[t] = Idle, AllocSize(size) <= MaxAllocSize,
         pool = PoolTable[AllocSize(size)],
         doing' = [doing EXCEPT ![t] = [step |-> "pop", pool |-> pool,
                                        block |-> NoBlock, size |-> size]],
         UNCHANGED <<queue, capacity, header, allocCount, inUse, crash>>
  PROVE  MInv'
<1> DEFINE call == [step |-> "pop", pool |-> pool, block |-> NoBlock, size |-> size]
<1>1. /\ doing'[t] = call /\ \A u \in Threads : u # t => doing'[u] = doing[u]
      /\ call \in Steps
      /\ call.step = "pop" /\ call.pool = pool /\ call.block = NoBlock /\ call.size = size
  BY DEF MInv, TypeOK, Steps
<1>2. doing[t].step = "idle"
  BY DEF Idle
<1> HIDE DEF call
<1>3. \A c \in Blocks : ~Holds(t, c) /\ ~Holds(t, c)'
  BY <1>1, <1>2, MemoryAssumption DEF Holds
<1>4. \A u \in Threads : \A c : u # t => (Holds(u, c)' <=> Holds(u, c))
  BY <1>1 DEF Holds
<1>5. TypeOK'
  <2>1. doing' \in [Threads -> Steps]
    BY <1>1 DEF MInv, TypeOK, call
  <2> QED
    BY <2>1 DEF MInv, TypeOK
<1>6. CallInv'
  BY <1>1, <1>3, <1>4 DEF MInv, CallInv
<1>7. QueueInv'
  <2>1. \A p \in PoolSizes : \A i \in 1 .. Len(queue[p]) : queue[p][i] \in Blocks
    BY ElementOfSeq DEF MInv, TypeOK
  <2> QED
    BY <1>3, <1>4, <2>1 DEF MInv, QueueInv
<1>8. UserInv'
  BY DEF MInv, UserInv, CameFrom
<1>9. CountIsHandedOut'
  BY <1>1, <1>2, SameHandedOut DEF MInv, CountIsHandedOut
<1> QED
  BY <1>5, <1>6, <1>7, <1>8, <1>9 DEF MInv

(* The block goes from the front of the queue into the thread's hands.     *)
LEMMA PopBlock ==
  ASSUME MInv, NEW t \in Threads, NEW size \in Sizes, NEW pool \in PoolSizes,
         NEW block, queue[pool] # <<>>, block = Head(queue[pool]),
         doing[t] = Idle, AllocSize(size) <= MaxAllocSize,
         pool = PoolTable[AllocSize(size)],
         queue' = [queue EXCEPT ![pool] = Tail(queue[pool])],
         doing' = [doing EXCEPT ![t] = [step |-> "pop", pool |-> pool,
                                        block |-> block, size |-> size]],
         UNCHANGED <<capacity, header, allocCount, inUse, crash>>
  PROVE  MInv'
<1> DEFINE call == [step |-> "pop", pool |-> pool, block |-> block, size |-> size]
<1>1. /\ block = queue[pool][1] /\ block \in Blocks
      /\ Len(queue[pool]) \in Nat \ {0}
      /\ Tail(queue[pool]) \in Seq(Blocks)
      /\ Len(Tail(queue[pool])) = Len(queue[pool]) - 1
      /\ \A i \in 1 .. Len(Tail(queue[pool])) :
           Tail(queue[pool])[i] = queue[pool][i + 1]
  BY FrontOfQueue
<1>2. /\ doing'[t] = call /\ \A u \in Threads : u # t => doing'[u] = doing[u]
      /\ call \in Steps
      /\ call.step = "pop" /\ call.pool = pool /\ call.block = block /\ call.size = size
  BY <1>1 DEF MInv, TypeOK, Steps
<1>3. doing[t].step = "idle"
  BY DEF Idle
<1> HIDE DEF call
<1>4. /\ queue'[pool] = Tail(queue[pool])
      /\ \A p \in PoolSizes : p # pool => queue'[p] = queue[p]
  BY DEF MInv, TypeOK
<1>5. /\ capacity[block] = pool /\ header[block] = 0 /\ inUse[block] = 0
      /\ \A u \in Threads : ~Holds(u, block)
  BY <1>1 DEF MInv, QueueInv
<1>6. /\ \A u \in Threads : \A c : u # t => (Holds(u, c)' <=> Holds(u, c))
      /\ \A c : ~Holds(t, c) /\ (Holds(t, c)' <=> c = block)
  BY <1>2, <1>3 DEF Holds
<1>7. TypeOK'
  <2>1. doing' \in [Threads -> Steps]
    BY <1>2 DEF MInv, TypeOK, call
  <2>2. queue' \in [PoolSizes -> Seq(Blocks)]
    BY <1>1 DEF MInv, TypeOK
  <2> QED
    BY <2>1, <2>2 DEF MInv, TypeOK
<1>8. CallInv'
  <2>1. ASSUME NEW u \in Threads, doing'[u].step = "pop"
        PROVE  /\ AllocSize(doing'[u].size) <= MaxAllocSize
               /\ doing'[u].pool = PoolTable[AllocSize(doing'[u].size)]
               /\ doing'[u].block # NoBlock => header'[doing'[u].block] = 0
    BY <1>2, <1>5, <2>1 DEF MInv, CallInv
  <2>2. ASSUME NEW u \in Threads, NEW c \in Blocks, Holds(u, c)'
        PROVE  /\ capacity'[c] = doing'[u].pool /\ inUse'[c] = 0
               /\ \A v \in Threads \ {u} : ~Holds(v, c)'
    BY <1>2, <1>5, <1>6, <2>2 DEF MInv, CallInv
  <2> QED
    BY <2>1, <2>2 DEF CallInv
<1>9. QueueInv'
  <2>1. Len(queue'[pool]) = Len(queue[pool]) - 1
    BY <1>1, <1>4
  <2>2. ASSUME NEW i \in 1 .. Len(queue'[pool])
        PROVE  /\ i + 1 \in 1 .. Len(queue[pool])
               /\ queue'[pool][i] = queue[pool][i + 1]
               /\ queue'[pool][i] # block
    <3>1. i + 1 \in 1 .. Len(queue[pool]) /\ 1 \in 1 .. Len(queue[pool]) /\ i + 1 # 1
      BY <1>1, <2>1
    <3>2. queue'[pool][i] = queue[pool][i + 1]
      BY <1>1, <1>4
    <3>3. queue[pool][i + 1] # queue[pool][1]
      BY <3>1 DEF MInv, QueueInv
    <3> QED
      BY <1>1, <3>1, <3>2, <3>3
  <2>3. ASSUME NEW i \in 1 .. Len(queue'[pool])
        PROVE  /\ capacity'[queue'[pool][i]] = pool
               /\ header'[queue'[pool][i]] = 0
               /\ inUse'[queue'[pool][i]] = 0
               /\ \A u \in Threads : ~Holds(u, queue[pool][i])'
    <3>1. /\ capacity[queue[pool][i + 1]] = pool
          /\ header[queue[pool][i + 1]] = 0
          /\ inUse[queue[pool][i + 1]] = 0
          /\ \A u \in Threads : ~Holds(u, queue[pool][i + 1])
      BY <2>2 DEF MInv, QueueInv
    <3>2. \A c : c # block => \A u \in Threads : Holds(u, c)' <=> Holds(u, c)
      BY <1>6
    <3>3. PICK c : c = queue'[pool][i]
      OBVIOUS
    <3>4. c # block /\ c = queue[pool][i + 1]
      BY <2>2, <3>3
    <3>5. \A u \in Threads : ~Holds(u, c)'
      BY <3>1, <3>2, <3>4
    <3>6. \A u \in Threads : Holds(u, queue[pool][i])' <=> Holds(u, c)'
      BY <3>3 DEF Holds
    <3> QED
      BY <3>1, <3>3, <3>4, <3>5, <3>6
  <2>4. ASSUME NEW i \in 1 .. Len(queue'[pool]), NEW j \in 1 .. Len(queue'[pool]),
               queue'[pool][i] = queue'[pool][j]
        PROVE  i = j
    <3>1. i + 1 = j + 1
      BY <2>2, <2>4 DEF MInv, QueueInv
    <3> QED
      BY <1>1, <2>1, <3>1
  <2>5. ASSUME NEW p \in PoolSizes, p # pool, NEW i \in 1 .. Len(queue'[p])
        PROVE  /\ capacity'[queue'[p][i]] = p
               /\ header'[queue'[p][i]] = 0
               /\ inUse'[queue'[p][i]] = 0
               /\ \A u \in Threads : ~Holds(u, queue[p][i])'
               /\ \A j \in 1 .. Len(queue'[p]) : queue'[p][i] = queue'[p][j] => i = j
    <3>1. queue'[p] = queue[p]
      BY <1>4, <2>5
    <3>2. /\ capacity[queue[p][i]] = p
          /\ header[queue[p][i]] = 0
          /\ inUse[queue[p][i]] = 0
          /\ \A u \in Threads : ~Holds(u, queue[p][i])
          /\ \A j \in 1 .. Len(queue[p]) : queue[p][i] = queue[p][j] => i = j
      BY <3>1 DEF MInv, QueueInv
    <3>3. queue[p][i] # block
      BY <1>5, <2>5, <3>2
    <3>4. \A u \in Threads : Holds(u, queue[p][i])' <=> doing'[u].step \in {"pop", "push"} /\ doing'[u].block = queue[p][i]
      BY <3>1 DEF Holds
    <3>5. \A u \in Threads : ~Holds(u, queue[p][i])'
      BY <1>2, <3>2, <3>3, <3>4 DEF Holds
    <3> QED
      BY <3>1, <3>2, <3>5
  <2>6. ASSUME NEW p \in PoolSizes, NEW i \in 1 .. Len(queue'[p])
        PROVE  /\ capacity'[queue'[p][i]] = p
               /\ header'[queue'[p][i]] = 0
               /\ inUse'[queue'[p][i]] = 0
               /\ \A u \in Threads : ~Holds(u, queue[p][i])'
               /\ \A j \in 1 .. Len(queue'[p]) : queue'[p][i] = queue'[p][j] => i = j
    <3>1. CASE p = pool
      BY <2>3, <2>4, <3>1
    <3>2. CASE p # pool
      BY <2>5, <3>2
    <3> QED
      BY <3>1, <3>2
  <2> QED
    BY <2>6 DEF QueueInv
<1>10. UserInv'
  BY DEF MInv, UserInv, CameFrom
<1>11. CountIsHandedOut'
  BY <1>2, <1>3, SameHandedOut DEF MInv, CountIsHandedOut
<1> QED
  BY <1>7, <1>8, <1>9, <1>10, <1>11 DEF MInv

LEMMA PopMInv ==
  ASSUME MInv, NEW t \in Threads, NEW size \in Sizes, Pop(t, size)
  PROVE  MInv'
<1>1. CASE PoolTable[AllocSize(size)] = NoPool
  <2>1. UNCHANGED <<capacity, header, queue, allocCount, doing, inUse>> /\ crash' = "NO_POOL"
    BY <1>1 DEF Pop
  <2>2. TypeOK' /\ crash' # "ASSERT"
    BY <2>1 DEF MInv, TypeOK
  <2>3. CallInv'
    BY <2>1 DEF MInv, CallInv, Holds
  <2>4. QueueInv'
    BY <2>1 DEF MInv, QueueInv, Holds
  <2>5. UserInv'
    BY <2>1 DEF MInv, UserInv, CameFrom
  <2>6. CountIsHandedOut'
    BY <2>1 DEF MInv, CountIsHandedOut, HandedOut
  <2> QED
    BY <2>2, <2>3, <2>4, <2>5, <2>6 DEF MInv
<1>2. CASE PoolTable[AllocSize(size)] # NoPool
  <2>1. PICK pool \in PoolSizes : \E block :
           /\ pool = PoolTable[AllocSize(size)]
           /\ block = IF queue[pool] = <<>> THEN NoBlock ELSE Head(queue[pool])
           /\ doing[t] = Idle /\ AllocSize(size) <= MaxAllocSize
           /\ queue' = [queue EXCEPT ![pool] = IF @ = <<>> THEN @ ELSE Tail(@)]
           /\ doing' = [doing EXCEPT ![t] = [step |-> "pop", pool |-> pool,
                                             block |-> block, size |-> size]]
           /\ capacity' = capacity /\ header' = header /\ allocCount' = allocCount
           /\ inUse' = inUse /\ crash' = crash
    BY <1>2, PopSteps
  <2> PICK block :
           /\ block = IF queue[pool] = <<>> THEN NoBlock ELSE Head(queue[pool])
           /\ doing' = [doing EXCEPT ![t] = [step |-> "pop", pool |-> pool,
                                             block |-> block, size |-> size]]
    BY <2>1
  <2>2. CASE queue[pool] = <<>>
    <3>1. block = NoBlock
      BY <2>1, <2>2
    <3>2. queue' = queue
      BY <2>1, <2>2 DEF MInv, TypeOK
    <3> QED
      BY <2>1, <3>1, <3>2, PopNothing
  <2>3. CASE queue[pool] # <<>>
    <3>1. block = Head(queue[pool])
      BY <2>1, <2>3
    <3>2. queue' = [queue EXCEPT ![pool] = Tail(queue[pool])]
      BY <2>1, <2>3 DEF MInv, TypeOK
    <3> QED
      BY <2>1, <2>3, <3>1, <3>2, PopBlock
  <2> QED
    BY <2>2, <2>3
<1> QED
  BY <1>1, <1>2

(* A block nobody else has, of the right pool: the user gets it.           *)
LEMMA TakenMInv ==
  ASSUME MInv, NEW t \in Threads, NEW b \in Blocks,
         NEW size \in Sizes, NEW pool \in PoolSizes,
         doing[t].step = "pop",
         AllocSize(size) <= MaxAllocSize, pool = PoolTable[AllocSize(size)],
         inUse[b] = 0,
         \A u \in Threads \ {t} : ~Holds(u, b),
         \A p \in PoolSizes :
           b \notin HandedOut(p) /\ \A i \in 1 .. Len(queue[p]) : queue[p][i] # b,
         capacity' = [capacity EXCEPT ![b] = pool],
         header' = [header EXCEPT ![b] = AllocSize(size)],
         inUse' = [inUse EXCEPT ![b] = size],
         allocCount' = [allocCount EXCEPT ![pool] = @ + 1],
         doing' = [doing EXCEPT ![t] = Idle],
         queue' = queue, crash' = crash
  PROVE  MInv'
<1>1. /\ capacity'[b] = pool /\ header'[b] = AllocSize(size) /\ inUse'[b] = size
      /\ \A c \in Blocks : c # b => /\ capacity'[c] = capacity[c]
                                 /\ header'[c] = header[c]
                                 /\ inUse'[c] = inUse[c]
  BY DEF MInv, TypeOK
<1>2. /\ doing'[t] = Idle /\ \A u \in Threads : u # t => doing'[u] = doing[u]
      /\ Idle \in Steps /\ Idle.step = "idle"
  BY DEF MInv, TypeOK, Steps, Idle
<1>3. pool \in Nat \ {0} /\ size # 0 /\ AllocSize(size) \in Nat \ {0}
  BY PoolsAreSizes, SizesAreSizes, MemoryAssumption
<1>4. /\ \A c : ~Holds(t, c)'
      /\ \A u \in Threads : \A c : u # t => (Holds(u, c)' <=> Holds(u, c))
  BY <1>2 DEF Holds
<1>5. \A u \in Threads : ~Holds(u, b)'
  BY <1>4
<1>6. /\ allocCount[pool] = Cardinality(HandedOut(pool)) /\ allocCount[pool] \in Nat
      /\ allocCount'[pool] = allocCount[pool] + 1
      /\ \A p \in PoolSizes : p # pool => allocCount'[p] = allocCount[p]
  BY CountsAreNumbers DEF MInv, TypeOK
<1>7. TypeOK'
  <2>1. capacity' \in [Blocks -> Nat] /\ header' \in [Blocks -> Int]
    BY <1>3 DEF MInv, TypeOK
  <2>2. inUse' \in [Blocks -> {0} \cup Sizes] /\ doing' \in [Threads -> Steps]
    BY <1>2 DEF MInv, TypeOK
  <2>3. allocCount' \in [PoolSizes -> Nat]
    BY <1>6 DEF MInv, TypeOK
  <2> QED
    BY <2>1, <2>2, <2>3 DEF MInv, TypeOK
<1>8. CallInv'
  <2>1. ASSUME NEW u \in Threads, doing'[u].step = "pop"
        PROVE  /\ AllocSize(doing'[u].size) <= MaxAllocSize
               /\ doing'[u].pool = PoolTable[AllocSize(doing'[u].size)]
               /\ doing'[u].block # NoBlock => header'[doing'[u].block] = 0
    <3>1. u # t /\ doing'[u] = doing[u]
      BY <1>2, <2>1
    <3>2. doing[u].block \in Blocks \cup {NoBlock}
      BY <2>1, <3>1 DEF MInv, TypeOK, Steps, Idle
    <3>3. doing[u].block # b
      BY <2>1, <3>1 DEF Holds
    <3> QED
      BY <1>1, <2>1, <3>1, <3>2, <3>3 DEF MInv, CallInv
  <2>2. ASSUME NEW u \in Threads, NEW c \in Blocks, Holds(u, c)'
        PROVE  /\ capacity'[c] = doing'[u].pool /\ inUse'[c] = 0
               /\ \A v \in Threads \ {u} : ~Holds(v, c)'
    <3>1. u # t /\ c # b /\ Holds(u, c)
      BY <1>4, <1>5, <2>2
    <3> QED
      BY <1>1, <1>2, <1>4, <3>1 DEF MInv, CallInv
  <2> QED
    BY <2>1, <2>2 DEF CallInv
<1>9. QueueInv'
  <2>1. ASSUME NEW p \in PoolSizes, NEW i \in 1 .. Len(queue[p])
        PROVE  /\ capacity'[queue[p][i]] = p
               /\ header'[queue[p][i]] = 0
               /\ inUse'[queue[p][i]] = 0
               /\ \A u \in Threads : ~Holds(u, queue[p][i])'
               /\ \A j \in 1 .. Len(queue[p]) : queue[p][i] = queue[p][j] => i = j
    <3>1. queue[p][i] \in Blocks
      BY ElementOfSeq DEF MInv, TypeOK
    <3>2. /\ capacity[queue[p][i]] = p
          /\ header[queue[p][i]] = 0
          /\ inUse[queue[p][i]] = 0
          /\ \A u \in Threads : ~Holds(u, queue[p][i])
          /\ \A j \in 1 .. Len(queue[p]) : queue[p][i] = queue[p][j] => i = j
      BY DEF MInv, QueueInv
    <3>3. queue[p][i] # b
      OBVIOUS
    <3>4. \A u \in Threads : ~Holds(u, queue[p][i])'
      BY <1>2, <3>2 DEF Holds
    <3> QED
      BY <1>1, <3>1, <3>2, <3>3, <3>4
  <2> QED
    BY <2>1 DEF QueueInv
<1>10. UserInv'
  <2>1. CameFrom(b)'
    BY <1>1 DEF CameFrom
  <2>2. \A c \in Blocks : c # b => (CameFrom(c)' <=> CameFrom(c))
    BY <1>1 DEF CameFrom
  <2> QED
    BY <1>1, <2>1, <2>2 DEF MInv, UserInv
<1>11. CountIsHandedOut'
  <2>1. \A c \in Blocks : (\E u \in Threads : doing[u].step = "push" /\ doing[u].block = c)
          <=> (\E u \in Threads : doing'[u].step = "push" /\ doing'[u].block = c)
    BY <1>2
  <2>2. \A p \in PoolSizes : \A c \in Blocks :
          c # b => (c \in HandedOut(p)' <=> c \in HandedOut(p))
    BY <1>1, <2>1 DEF HandedOut
  <2>3. \A p \in PoolSizes : HandedOut(p)' \subseteq Blocks /\ HandedOut(p) \subseteq Blocks
    BY DEF HandedOut
  <2>4. b \in HandedOut(pool)' /\ \A p \in PoolSizes : p # pool => b \notin HandedOut(p)'
    BY <1>1, <1>3 DEF HandedOut
  <2>5. HandedOut(pool)' = HandedOut(pool) \cup {b}
    <3>1. \A c \in Blocks : c \in HandedOut(pool)' <=> c \in HandedOut(pool) \cup {b}
      BY <2>2, <2>4
    <3>2. HandedOut(pool)' \subseteq Blocks /\ HandedOut(pool) \cup {b} \subseteq Blocks
      BY <2>3
    <3> QED
      BY <3>1, <3>2, Zenon
  <2>6. ASSUME NEW p \in PoolSizes, p # pool PROVE HandedOut(p)' = HandedOut(p)
    <3>1. \A c \in Blocks : c \in HandedOut(p)' <=> c \in HandedOut(p)
      BY <2>2, <2>4, <2>6
    <3> QED
      BY <2>3, <3>1, Zenon
  <2>7. Cardinality(HandedOut(pool) \cup {b}) = Cardinality(HandedOut(pool)) + 1
    <3>1. HandedOut(pool) \in SUBSET Blocks /\ b \notin HandedOut(pool)
      BY <2>3
    <3> QED
      BY <3>1, OneMoreBlock
  <2>8. ASSUME NEW p \in PoolSizes PROVE allocCount'[p] = Cardinality(HandedOut(p)')
    <3>1. CASE p = pool
      BY <1>6, <2>5, <2>7, <3>1
    <3>2. CASE p # pool
      BY <1>6, <2>6, <3>2 DEF MInv, CountIsHandedOut
    <3> QED
      BY <3>1, <3>2
  <2> QED
    BY <2>8 DEF CountIsHandedOut
<1> QED
  BY <1>7, <1>8, <1>9, <1>10, <1>11 DEF MInv

(* The block is a fresh one, or the one the queue gave.                    *)
LEMMA TakeBlockMInv ==
  ASSUME MInv, NEW t \in Threads, TakeBlock(t)
  PROVE  MInv'
<1> DEFINE pool == doing[t].pool
           size == doing[t].size
<1>1. doing[t].step = "pop"
  BY DEF TakeBlock
<1>2. pool \in PoolSizes /\ size \in Sizes /\ doing[t].block \in Blocks \cup {NoBlock}
  BY <1>1 DEF MInv, TypeOK, Steps, Idle
<1>3. /\ AllocSize(size) <= MaxAllocSize /\ pool = PoolTable[AllocSize(size)]
      /\ doing[t].block # NoBlock => header[doing[t].block] = 0
  BY <1>1 DEF MInv, CallInv
<1>4. PICK b \in Blocks :
        /\ IF doing[t].block = NoBlock THEN IsFresh(b) ELSE b = doing[t].block
        /\ capacity' = [capacity EXCEPT ![b] = IF @ = 0 THEN pool ELSE @]
        /\ header' = [header EXCEPT ![b] = AllocSize(size)]
        /\ inUse' = [inUse EXCEPT ![b] = size]
        /\ allocCount' = [allocCount EXCEPT ![pool] = @ + 1]
        /\ doing' = [doing EXCEPT ![t] = Idle]
        /\ queue' = queue /\ crash' = crash
  BY <1>3 DEF TakeBlock, AttachHeader, CountUp
<1>5. CASE doing[t].block = NoBlock
  <2>1. IsFresh(b) /\ capacity[b] = 0
    BY <1>4, <1>5 DEF IsFresh
  <2>2. /\ inUse[b] = 0
        /\ \A u \in Threads \ {t} : ~Holds(u, b)
        /\ \A p \in PoolSizes :
             b \notin HandedOut(p) /\ \A i \in 1 .. Len(queue[p]) : queue[p][i] # b
    BY <2>1, FreshIsNowhere
  <2>3. capacity' = [capacity EXCEPT ![b] = pool]
    BY <1>4, <2>1 DEF MInv, TypeOK
  <2> QED
    BY <1>1, <1>2, <1>3, <1>4, <2>2, <2>3, TakenMInv
<1>6. CASE doing[t].block # NoBlock
  <2>1. b = doing[t].block /\ Holds(t, b)
    BY <1>1, <1>4, <1>6 DEF Holds
  <2>2. /\ capacity[b] = pool /\ inUse[b] = 0
        /\ \A u \in Threads \ {t} : ~Holds(u, b)
    BY <2>1 DEF MInv, CallInv
  <2>3. ASSUME NEW p \in PoolSizes
        PROVE  b \notin HandedOut(p) /\ \A i \in 1 .. Len(queue[p]) : queue[p][i] # b
    <3>1. b \notin HandedOut(p)
      BY <1>1, <2>2 DEF HandedOut, Holds
    <3>2. \A i \in 1 .. Len(queue[p]) : queue[p][i] # b
      BY <2>1 DEF MInv, QueueInv
    <3> QED
      BY <3>1, <3>2
  <2>4. capacity' = [capacity EXCEPT ![b] = pool]
    BY <1>2, <1>4, <2>2, PoolsAreSizes DEF MInv, TypeOK
  <2> QED
    BY <1>1, <1>2, <1>3, <1>4, <2>2, <2>3, <2>4, TakenMInv
<1> QED
  BY <1>5, <1>6

-----------------------------------------------------------------------------
(* Release                                                                 *)

(* A block with a user is nowhere else.                                    *)
LEMMA UsedIsNowhereElse ==
  ASSUME MInv, NEW b \in Blocks, inUse[b] # 0
  PROVE  /\ \A u \in Threads : ~Holds(u, b)
         /\ \A p \in PoolSizes : \A i \in 1 .. Len(queue[p]) : queue[p][i] # b
  BY DEF MInv, CallInv, QueueInv

(* delete: the block is the system's again.                                *)
LEMMA ReleaseLargeMInv ==
  ASSUME MInv, NEW t \in Threads, NEW b \in Blocks,
         inUse[b] # 0, header[b] > MaxAllocSize,
         inUse' = [inUse EXCEPT ![b] = 0], capacity' = [capacity EXCEPT ![b] = 0],
         UNCHANGED <<header, queue, allocCount, doing, crash>>
  PROVE  MInv'
<1>1. /\ capacity'[b] = 0 /\ inUse'[b] = 0
      /\ \A c \in Blocks : c # b => capacity'[c] = capacity[c] /\ inUse'[c] = inUse[c]
  BY DEF MInv, TypeOK
<1>2. /\ \A u \in Threads : ~Holds(u, b)
      /\ \A p \in PoolSizes : \A i \in 1 .. Len(queue[p]) : queue[p][i] # b
  BY UsedIsNowhereElse
<1>3. capacity[b] = header[b] /\ \A p \in PoolSizes : capacity[b] # p
  <2>1. header[b] \in Int /\ CameFrom(b)
    BY DEF MInv, UserInv, TypeOK
  <2> QED
    BY <2>1, PoolsAreSizes DEF CameFrom
<1>4. TypeOK'
  BY DEF MInv, TypeOK
<1>5. CallInv'
  <2>1. \A u \in Threads : \A c \in Blocks : Holds(u, c)' <=> Holds(u, c)
    BY DEF Holds
  <2> QED
    BY <1>1, <1>2, <2>1 DEF MInv, CallInv
<1>6. QueueInv'
  <2>1. \A p \in PoolSizes : \A i \in 1 .. Len(queue[p]) : queue[p][i] \in Blocks
    BY ElementOfSeq DEF MInv, TypeOK
  <2> QED
    BY <1>1, <1>2, <2>1 DEF MInv, QueueInv, Holds
<1>7. UserInv'
  BY <1>1 DEF MInv, UserInv, CameFrom
<1>8. CountIsHandedOut'
  <2>1. ASSUME NEW p \in PoolSizes PROVE HandedOut(p)' = HandedOut(p)
    <3>1. b \notin HandedOut(p)' /\ b \notin HandedOut(p)
      BY <1>1, <1>3, PoolsAreSizes DEF HandedOut
    <3>2. \A c \in Blocks : c # b => (c \in HandedOut(p)' <=> c \in HandedOut(p))
      BY <1>1 DEF HandedOut
    <3>3. HandedOut(p)' \subseteq Blocks /\ HandedOut(p) \subseteq Blocks
      BY DEF HandedOut
    <3>4. \A c \in Blocks : c \in HandedOut(p)' <=> c \in HandedOut(p)
      BY <3>1, <3>2
    <3> QED
      BY <3>3, <3>4, Zenon
  <2> QED
    BY <2>1 DEF MInv, CountIsHandedOut
<1> QED
  BY <1>4, <1>5, <1>6, <1>7, <1>8 DEF MInv

(* The block goes from its user into the hands of the thread that pushes   *)
(* it.                                                                     *)
LEMMA ReleaseSmallMInv ==
  ASSUME MInv, NEW t \in Threads, NEW b \in Blocks,
         doing[t] = Idle, inUse[b] # 0, header[b] \in 1 .. MaxAllocSize,
         inUse' = [inUse EXCEPT ![b] = 0],
         doing' = [doing EXCEPT ![t] = [step |-> "push", block |-> b,
                                        pool |-> PoolTable[header[b]]]],
         UNCHANGED <<capacity, header, queue, allocCount, crash>>
  PROVE  MInv'
<1> DEFINE call == [step |-> "push", block |-> b, pool |-> PoolTable[header[b]]]
<1>1. PoolTable[header[b]] = capacity[b] /\ capacity[b] \in PoolSizes
  BY PoolsAreSizes DEF MInv, UserInv, CameFrom
<1>2. /\ doing'[t] = call /\ \A u \in Threads : u # t => doing'[u] = doing[u]
      /\ call \in Steps
      /\ call.step = "push" /\ call.pool = capacity[b] /\ call.block = b
  BY <1>1 DEF MInv, TypeOK, Steps
<1>3. doing[t].step = "idle"
  BY DEF Idle
<1> HIDE DEF call
<1>4. /\ inUse'[b] = 0
      /\ \A c \in Blocks : c # b => inUse'[c] = inUse[c]
  BY DEF MInv, TypeOK
<1>5. /\ \A u \in Threads : ~Holds(u, b)
      /\ \A p \in PoolSizes : \A i \in 1 .. Len(queue[p]) : queue[p][i] # b
  BY UsedIsNowhereElse
<1>6. /\ \A u \in Threads : \A c : u # t => (Holds(u, c)' <=> Holds(u, c))
      /\ \A c : ~Holds(t, c) /\ (Holds(t, c)' <=> c = b)
  BY <1>2, <1>3 DEF Holds
<1>7. TypeOK'
  <2>1. doing' \in [Threads -> Steps]
    BY <1>2 DEF MInv, TypeOK, call
  <2> QED
    BY <2>1 DEF MInv, TypeOK
<1>8. CallInv'
  <2>1. ASSUME NEW u \in Threads, doing'[u].step = "pop"
        PROVE  /\ AllocSize(doing'[u].size) <= MaxAllocSize
               /\ doing'[u].pool = PoolTable[AllocSize(doing'[u].size)]
               /\ doing'[u].block # NoBlock => header'[doing'[u].block] = 0
    BY <1>2, <2>1 DEF MInv, CallInv
  <2>2. ASSUME NEW u \in Threads, NEW c \in Blocks, Holds(u, c)'
        PROVE  /\ capacity'[c] = doing'[u].pool /\ inUse'[c] = 0
               /\ \A v \in Threads \ {u} : ~Holds(v, c)'
    <3>1. CASE u = t
      BY <1>2, <1>4, <1>5, <1>6, <2>2, <3>1
    <3>2. CASE u # t
      <4>1. Holds(u, c) /\ c # b
        BY <1>5, <1>6, <2>2, <3>2
      <4> QED
        BY <1>2, <1>4, <1>6, <3>2, <4>1 DEF MInv, CallInv
    <3> QED
      BY <3>1, <3>2
  <2> QED
    BY <2>1, <2>2 DEF CallInv
<1>9. QueueInv'
  <2>1. ASSUME NEW p \in PoolSizes, NEW i \in 1 .. Len(queue[p])
        PROVE  /\ capacity'[queue[p][i]] = p
               /\ header'[queue[p][i]] = 0
               /\ inUse'[queue[p][i]] = 0
               /\ \A u \in Threads : ~Holds(u, queue[p][i])'
               /\ \A j \in 1 .. Len(queue[p]) : queue[p][i] = queue[p][j] => i = j
    <3>1. queue[p][i] \in Blocks /\ queue[p][i] # b
      BY <1>5, ElementOfSeq DEF MInv, TypeOK
    <3>2. /\ capacity[queue[p][i]] = p
          /\ header[queue[p][i]] = 0
          /\ inUse[queue[p][i]] = 0
          /\ \A u \in Threads : ~Holds(u, queue[p][i])
          /\ \A j \in 1 .. Len(queue[p]) : queue[p][i] = queue[p][j] => i = j
      BY DEF MInv, QueueInv
    <3>3. \A u \in Threads : ~Holds(u, queue[p][i])'
      BY <1>2, <3>1, <3>2 DEF Holds
    <3> QED
      BY <1>4, <3>1, <3>2, <3>3
  <2> QED
    BY <2>1 DEF QueueInv
<1>10. UserInv'
  <2>1. \A c \in Blocks : CameFrom(c)' <=> CameFrom(c)
    BY DEF CameFrom
  <2> QED
    BY <1>4, <2>1 DEF MInv, UserInv
<1>11. CountIsHandedOut'
  <2>1. ASSUME NEW c \in Blocks, c # b
        PROVE  (\E u \in Threads : doing[u].step = "push" /\ doing[u].block = c)
          <=> (\E u \in Threads : doing'[u].step = "push" /\ doing'[u].block = c)
    BY <1>2, <1>3, <2>1
  <2>2. \E u \in Threads : doing'[u].step = "push" /\ doing'[u].block = b
    BY <1>2
  <2>3. ASSUME NEW p \in PoolSizes PROVE HandedOut(p)' = HandedOut(p)
    <3>1. b \in HandedOut(p)' <=> b \in HandedOut(p)
      BY <2>2 DEF HandedOut
    <3>2. \A c \in Blocks : c # b => (c \in HandedOut(p)' <=> c \in HandedOut(p))
      BY <1>4, <2>1 DEF HandedOut
    <3>3. HandedOut(p)' \subseteq Blocks /\ HandedOut(p) \subseteq Blocks
      BY DEF HandedOut
    <3>4. \A c \in Blocks : c \in HandedOut(p)' <=> c \in HandedOut(p)
      BY <3>1, <3>2
    <3> QED
      BY <3>3, <3>4, Zenon
  <2> QED
    BY <2>3 DEF MInv, CountIsHandedOut
<1> QED
  BY <1>7, <1>8, <1>9, <1>10, <1>11 DEF MInv

LEMMA ReleaseMInv ==
  ASSUME MInv, NEW t \in Threads, NEW b \in Blocks, Release(t, b)
  PROVE  MInv'
<1>1. inUse[b] # 0 /\ doing[t] = Idle /\ inUse' = [inUse EXCEPT ![b] = 0]
      /\ UNCHANGED <<header, queue, allocCount>>
  BY DEF Release
<1>2. header[b] \in Nat \ {0}
  <2>1. inUse[b] \in Sizes /\ header[b] = AllocSize(inUse[b])
    BY <1>1 DEF MInv, UserInv, TypeOK
  <2> QED
    BY <2>1, SizesAreSizes
<1>3. CASE header[b] > MaxAllocSize
  <2>1. ~(header[b] <= 0) /\ ~(header[b] \in 1 .. MaxAllocSize)
    BY <1>2, <1>3, PoolsAreSizes
  <2>2. capacity' = [capacity EXCEPT ![b] = 0] /\ UNCHANGED <<doing, crash>>
    BY <1>3, <2>1 DEF Release
  <2> QED
    BY <1>1, <1>3, <2>2, ReleaseLargeMInv
<1>4. CASE ~(header[b] > MaxAllocSize)
  <2>1. ~(header[b] <= 0) /\ header[b] \in 1 .. MaxAllocSize
    BY <1>2, <1>4, PoolsAreSizes
  <2>2. /\ doing' = [doing EXCEPT ![t] = [step |-> "push", block |-> b,
                                          pool |-> PoolTable[header[b]]]]
        /\ UNCHANGED <<capacity, crash>>
    BY <1>4, <2>1 DEF Release
  <2> QED
    BY <1>1, <2>1, <2>2, ReleaseSmallMInv
<1> QED
  BY <1>3, <1>4

(* The block goes from the thread's hands to the back of the queue.        *)
LEMMA PushMInv ==
  ASSUME MInv, NEW t \in Threads, PushBlock(t)
  PROVE  MInv'
<1>1. PICK b, pool : b = doing[t].block /\ pool = doing[t].pool
  OBVIOUS
<1>2. /\ doing[t].step = "push"
      /\ header' = [header EXCEPT ![b] = 0]
      /\ queue' = [queue EXCEPT ![pool] = Append(@, b)]
      /\ allocCount' = [allocCount EXCEPT ![pool] = @ - 1]
      /\ doing' = [doing EXCEPT ![t] = Idle]
      /\ UNCHANGED <<capacity, inUse, crash>>
  BY <1>1 DEF PushBlock
<1>3. b \in Blocks /\ pool \in PoolSizes
  BY <1>1, <1>2 DEF MInv, TypeOK, Steps, Idle
<1>4. /\ capacity[b] = pool /\ inUse[b] = 0
      /\ \A u \in Threads \ {t} : ~Holds(u, b)
      /\ \A p \in PoolSizes : \A i \in 1 .. Len(queue[p]) : queue[p][i] # b
  <2>1. Holds(t, b)
    BY <1>1, <1>2 DEF Holds
  <2> QED
    BY <1>1, <1>3, <2>1 DEF MInv, CallInv, QueueInv
<1>5. /\ header'[b] = 0
      /\ \A c \in Blocks : c # b => header'[c] = header[c]
  BY <1>2, <1>3 DEF MInv, TypeOK
<1>6. /\ doing'[t] = Idle /\ \A u \in Threads : u # t => doing'[u] = doing[u]
      /\ Idle \in Steps /\ Idle.step = "idle"
  BY <1>2 DEF MInv, TypeOK, Steps, Idle
<1>7. /\ \A c : ~Holds(t, c)'
      /\ \A u \in Threads : \A c : u # t => (Holds(u, c)' <=> Holds(u, c))
  BY <1>6 DEF Holds
<1>8. \A u \in Threads : ~Holds(u, b)'
  BY <1>4, <1>7
<1>9. /\ queue[pool] \in Seq(Blocks)
      /\ queue'[pool] = Append(queue[pool], b)
      /\ \A p \in PoolSizes : p # pool => queue'[p] = queue[p]
  BY <1>2, <1>3 DEF MInv, TypeOK
<1>10. /\ queue'[pool] \in Seq(Blocks)
       /\ Len(queue'[pool]) = Len(queue[pool]) + 1
       /\ \A i \in 1 .. Len(queue[pool]) : queue'[pool][i] = queue[pool][i]
       /\ queue'[pool][Len(queue[pool]) + 1] = b
  BY <1>3, <1>9, AppendProperties
<1>11. HandedOut(pool)' = HandedOut(pool) \ {b} /\ b \in HandedOut(pool)
  <2>1. ASSUME NEW c \in Blocks, c # b
        PROVE  (\E u \in Threads : doing[u].step = "push" /\ doing[u].block = c)
          <=> (\E u \in Threads : doing'[u].step = "push" /\ doing'[u].block = c)
    BY <1>1, <1>6, <2>1
  <2>2. \A c \in Blocks : c # b => (c \in HandedOut(pool)' <=> c \in HandedOut(pool))
    BY <1>2, <2>1 DEF HandedOut
  <2>3. b \in HandedOut(pool)
    BY <1>1, <1>2, <1>3, <1>4 DEF HandedOut
  <2>4. b \notin HandedOut(pool)'
    BY <1>2, <1>4, <1>8 DEF HandedOut, Holds
  <2>5. HandedOut(pool)' \subseteq Blocks /\ HandedOut(pool) \subseteq Blocks
    BY DEF HandedOut
  <2>6. \A c \in Blocks : c \in HandedOut(pool)' <=> c \in HandedOut(pool) \ {b}
    BY <2>2, <2>4
  <2>7. HandedOut(pool)' = HandedOut(pool) \ {b}
    BY <2>5, <2>6, Zenon
  <2> QED
    BY <2>3, <2>7
<1>12. ASSUME NEW p \in PoolSizes, p # pool PROVE HandedOut(p)' = HandedOut(p)
  <2>1. ASSUME NEW c \in Blocks, c # b
        PROVE  (\E u \in Threads : doing[u].step = "push" /\ doing[u].block = c)
          <=> (\E u \in Threads : doing'[u].step = "push" /\ doing'[u].block = c)
    BY <1>1, <1>6, <2>1
  <2>2. b \notin HandedOut(p)' /\ b \notin HandedOut(p)
    BY <1>2, <1>4, <1>12 DEF HandedOut
  <2>3. \A c \in Blocks : c # b => (c \in HandedOut(p)' <=> c \in HandedOut(p))
    BY <1>2, <2>1 DEF HandedOut
  <2>4. HandedOut(p)' \subseteq Blocks /\ HandedOut(p) \subseteq Blocks
    BY DEF HandedOut
  <2>5. \A c \in Blocks : c \in HandedOut(p)' <=> c \in HandedOut(p)
    BY <2>2, <2>3
  <2> QED
    BY <2>4, <2>5, Zenon
<1>13. Cardinality(HandedOut(pool)') = Cardinality(HandedOut(pool)) - 1
  <2>1. HandedOut(pool) \in SUBSET Blocks
    BY DEF HandedOut
  <2> QED
    BY <1>3, <1>11, <2>1, OneMoreBlock
<1>14. Cardinality(HandedOut(pool)') \in Nat
  <2>1. HandedOut(pool)' \in SUBSET Blocks
    BY <1>11 DEF HandedOut
  <2> QED
    BY <2>1, OneMoreBlock
<1>15. /\ allocCount[pool] = Cardinality(HandedOut(pool)) /\ allocCount[pool] \in Nat
       /\ allocCount'[pool] = allocCount[pool] - 1
       /\ \A p \in PoolSizes : p # pool => allocCount'[p] = allocCount[p]
  BY <1>2, <1>3, CountsAreNumbers DEF MInv, TypeOK
<1>16. TypeOK'
  <2>1. allocCount'[pool] \in Nat
    BY <1>13, <1>14, <1>15
  <2>2. allocCount' \in [PoolSizes -> Nat]
    BY <1>2, <1>3, <1>15, <2>1 DEF MInv, TypeOK
  <2>3. queue' \in [PoolSizes -> Seq(Blocks)]
    BY <1>2, <1>3, <1>9, <1>10 DEF MInv, TypeOK
  <2>4. header' \in [Blocks -> Int] /\ doing' \in [Threads -> Steps]
    BY <1>2, <1>3, <1>6 DEF MInv, TypeOK
  <2> QED
    BY <1>2, <2>2, <2>3, <2>4 DEF MInv, TypeOK
<1>17. CallInv'
  <2>1. ASSUME NEW u \in Threads, doing'[u].step = "pop"
        PROVE  /\ AllocSize(doing'[u].size) <= MaxAllocSize
               /\ doing'[u].pool = PoolTable[AllocSize(doing'[u].size)]
               /\ doing'[u].block # NoBlock => header'[doing'[u].block] = 0
    <3>1. u # t /\ doing'[u] = doing[u]
      BY <1>6, <2>1
    <3>2. doing[u].block \in Blocks \cup {NoBlock}
      BY <2>1, <3>1 DEF MInv, TypeOK, Steps, Idle
    <3> QED
      BY <1>5, <2>1, <3>1, <3>2 DEF MInv, CallInv
  <2>2. ASSUME NEW u \in Threads, NEW c \in Blocks, Holds(u, c)'
        PROVE  /\ capacity'[c] = doing'[u].pool /\ inUse'[c] = 0
               /\ \A v \in Threads \ {u} : ~Holds(v, c)'
    <3>1. u # t /\ Holds(u, c)
      BY <1>7, <2>2
    <3> QED
      BY <1>2, <1>6, <1>7, <3>1 DEF MInv, CallInv
  <2> QED
    BY <2>1, <2>2 DEF CallInv
<1>18. QueueInv'
  <2>1. ASSUME NEW p \in PoolSizes, NEW i \in 1 .. Len(queue[p])
        PROVE  /\ queue[p][i] \in Blocks /\ queue[p][i] # b
               /\ capacity'[queue[p][i]] = p
               /\ header'[queue[p][i]] = 0
               /\ inUse'[queue[p][i]] = 0
               /\ \A u \in Threads : ~(doing'[u].step \in {"pop", "push"}
                                       /\ doing'[u].block = queue[p][i])
               /\ \A j \in 1 .. Len(queue[p]) : queue[p][i] = queue[p][j] => i = j
    <3>1. queue[p][i] \in Blocks /\ queue[p][i] # b
      BY <1>4, ElementOfSeq DEF MInv, TypeOK
    <3>2. /\ capacity[queue[p][i]] = p
          /\ header[queue[p][i]] = 0
          /\ inUse[queue[p][i]] = 0
          /\ \A u \in Threads : ~Holds(u, queue[p][i])
          /\ \A j \in 1 .. Len(queue[p]) : queue[p][i] = queue[p][j] => i = j
      BY DEF MInv, QueueInv
    <3>3. \A u \in Threads : ~(doing'[u].step \in {"pop", "push"}
                               /\ doing'[u].block = queue[p][i])
      BY <1>6, <3>2 DEF Holds
    <3> QED
      BY <1>2, <1>5, <3>1, <3>2, <3>3
  <2>2. ASSUME NEW i \in 1 .. Len(queue'[pool])
        PROVE  /\ capacity'[queue'[pool][i]] = pool
               /\ header'[queue'[pool][i]] = 0
               /\ inUse'[queue'[pool][i]] = 0
               /\ \A u \in Threads : ~(doing'[u].step \in {"pop", "push"}
                                       /\ doing'[u].block = queue'[pool][i])
               /\ \A j \in 1 .. Len(queue'[pool]) :
                    queue'[pool][i] = queue'[pool][j] => i = j
    <3>1. Len(queue[pool]) \in Nat
      BY <1>9
    <3>2. \A j \in 1 .. Len(queue'[pool]) :
            j \in 1 .. Len(queue[pool]) \/ j = Len(queue[pool]) + 1
      BY <1>10, <3>1
    <3>3. CASE i \in 1 .. Len(queue[pool])
      <4>1. queue'[pool][i] = queue[pool][i]
        BY <1>10, <3>3
      <4>2. /\ capacity'[queue[pool][i]] = pool
            /\ header'[queue[pool][i]] = 0
            /\ inUse'[queue[pool][i]] = 0
            /\ \A u \in Threads : ~(doing'[u].step \in {"pop", "push"}
                                    /\ doing'[u].block = queue[pool][i])
        BY <1>3, <2>1, <3>3
      <4>3. ASSUME NEW j \in 1 .. Len(queue'[pool]), queue'[pool][i] = queue'[pool][j]
            PROVE  i = j
        <5>1. CASE j \in 1 .. Len(queue[pool])
          <6>1. queue[pool][i] = queue[pool][j]
            BY <1>10, <4>1, <4>3, <5>1
          <6> QED
            BY <1>3, <2>1, <3>3, <5>1, <6>1
        <5>2. CASE j = Len(queue[pool]) + 1
          BY <1>3, <1>10, <2>1, <3>3, <4>1, <4>3, <5>2
        <5> QED
          BY <3>2, <5>1, <5>2
      <4> QED
        BY <4>1, <4>2, <4>3
    <3>4. CASE i = Len(queue[pool]) + 1
      <4>1. queue'[pool][i] = b
        BY <1>10, <3>4
      <4>2. \A u \in Threads : ~(doing'[u].step \in {"pop", "push"} /\ doing'[u].block = b)
        BY <1>8 DEF Holds
      <4>3. ASSUME NEW j \in 1 .. Len(queue'[pool]), queue'[pool][i] = queue'[pool][j]
            PROVE  i = j
        <5>1. CASE j \in 1 .. Len(queue[pool])
          BY <1>3, <1>10, <2>1, <4>1, <4>3, <5>1
        <5> QED
          BY <3>2, <3>4, <5>1
      <4> QED
        BY <1>2, <1>4, <1>5, <4>1, <4>2, <4>3
    <3> QED
      BY <3>2, <3>3, <3>4
  <2>3. ASSUME NEW p \in PoolSizes, NEW i \in 1 .. Len(queue'[p])
        PROVE  /\ capacity'[queue'[p][i]] = p
               /\ header'[queue'[p][i]] = 0
               /\ inUse'[queue'[p][i]] = 0
               /\ \A u \in Threads : ~(doing'[u].step \in {"pop", "push"}
                                       /\ doing'[u].block = queue'[p][i])
               /\ \A j \in 1 .. Len(queue'[p]) : queue'[p][i] = queue'[p][j] => i = j
    <3>1. CASE p = pool
      BY <2>2, <3>1
    <3>2. CASE p # pool
      <4>1. queue'[p] = queue[p]
        BY <1>9, <3>2
      <4> QED
        BY <2>1, <4>1
    <3> QED
      BY <3>1, <3>2
  <2> QED
    BY <2>3 DEF QueueInv, Holds
<1>19. UserInv'
  <2>1. \A c \in Blocks : c # b => (CameFrom(c)' <=> CameFrom(c))
    BY <1>2, <1>5 DEF CameFrom
  <2> QED
    BY <1>2, <1>4, <1>5, <2>1 DEF MInv, UserInv
<1>20. CountIsHandedOut'
  <2>1. ASSUME NEW p \in PoolSizes PROVE allocCount'[p] = Cardinality(HandedOut(p)')
    <3>1. CASE p = pool
      BY <1>13, <1>15, <3>1
    <3>2. CASE p # pool
      BY <1>12, <1>15, <3>2 DEF MInv, CountIsHandedOut
    <3> QED
      BY <3>1, <3>2
  <2> QED
    BY <2>1 DEF CountIsHandedOut
<1> QED
  BY <1>2, <1>16, <1>17, <1>18, <1>19, <1>20 DEF MInv

-----------------------------------------------------------------------------
LEMMA NextMInv == MInv /\ [Next]_vars => MInv'
<1> SUFFICES ASSUME MInv, [Next]_vars PROVE MInv'
  OBVIOUS
<1>1. ASSUME NEW t \in Threads, NEW size \in Sizes, AllocateLarge(t, size)
      PROVE  MInv'
  BY <1>1, AllocateLargeMInv
<1>2. ASSUME NEW t \in Threads, NEW size \in Sizes, Pop(t, size) PROVE MInv'
  BY <1>2, PopMInv
<1>3. ASSUME NEW t \in Threads, TakeBlock(t) PROVE MInv'
  BY <1>3, TakeBlockMInv
<1>4. ASSUME NEW t \in Threads, NEW b \in Blocks, Release(t, b) PROVE MInv'
  BY <1>4, ReleaseMInv
<1>5. ASSUME NEW t \in Threads, PushBlock(t) PROVE MInv'
  BY <1>5, PushMInv
<1>6. CASE UNCHANGED vars
  <2>1. TypeOK' /\ crash' # "ASSERT"
    BY <1>6 DEF vars, MInv, TypeOK
  <2>2. CallInv'
    BY <1>6 DEF vars, MInv, CallInv, Holds
  <2>3. QueueInv'
    BY <1>6 DEF vars, MInv, QueueInv, Holds
  <2>4. UserInv'
    BY <1>6 DEF vars, MInv, UserInv, CameFrom
  <2>5. CountIsHandedOut'
    BY <1>6 DEF vars, MInv, CountIsHandedOut, HandedOut
  <2> QED
    BY <2>1, <2>2, <2>3, <2>4, <2>5 DEF MInv
<1> QED
  BY <1>1, <1>2, <1>3, <1>4, <1>5, <1>6 DEF Next

(* The invariant of Memory: what a block's header, its place, its user and *)
(* the counts of the pools have to do with each other.                     *)
THEOREM Invariance == Spec => []MInv
<1>1. Init => MInv
  BY InitMInv
<1>2. MInv /\ [Next]_vars => MInv'
  BY NextMInv
<1> QED
  BY <1>1, <1>2, PTL DEF Spec

(* No count and no size is ever negative (_allocCount and the headers of   *)
(* Memory.cpp and MemoryPool.cpp).                                         *)
THEOREM TypeCorrect == Spec => []TypeOK
<1>1. MInv => TypeOK
  BY DEF MInv
<1> QED
  BY <1>1, Invariance, PTL

(* MemoryPool::Pop and Push never let two users or two threads have the    *)
(* same memory.                                                            *)
THEOREM OnePlaceHolds == Spec => []OnePlace
<1>1. MInv => OnePlace
  <2> SUFFICES ASSUME MInv, NEW b \in Blocks PROVE Cardinality(Places(b)) <= 1
    BY DEF OnePlace
  <2>1. ASSUME NEW x \in Places(b)
        PROVE  \/ x = <<"user">> /\ inUse[b] # 0
               \/ \E t \in Threads : x = <<"thread", t>> /\ Holds(t, b)
               \/ \E p \in PoolSizes : \E i \in 1 .. Len(queue[p]) :
                    x = <<"queue", p, i>> /\ queue[p][i] = b
    BY <2>1 DEF Places, Holds
  <2>2. ASSUME NEW p \in PoolSizes, NEW i \in 1 .. Len(queue[p]), queue[p][i] = b
        PROVE  /\ inUse[b] = 0 /\ capacity[b] = p
               /\ \A t \in Threads : ~Holds(t, b)
               /\ \A j \in 1 .. Len(queue[p]) : queue[p][j] = b => i = j
    BY <2>2 DEF MInv, QueueInv
  <2>3. ASSUME NEW t \in Threads, Holds(t, b)
        PROVE  inUse[b] = 0 /\ \A u \in Threads : Holds(u, b) => u = t
    BY <2>3 DEF MInv, CallInv
  <2>4. ASSUME NEW x \in Places(b), NEW y \in Places(b) PROVE x = y
    <3>1. CASE x = <<"user">> /\ inUse[b] # 0
      BY <2>1, <2>2, <2>3, <3>1
    <3>2. ASSUME NEW t \in Threads, x = <<"thread", t>>, Holds(t, b) PROVE x = y
      BY <2>1, <2>2, <2>3, <3>2
    <3>3. ASSUME NEW p \in PoolSizes, NEW i \in 1 .. Len(queue[p]),
                 x = <<"queue", p, i>>, queue[p][i] = b
          PROVE  x = y
      <4>1. PICK q \in PoolSizes : \E j \in 1 .. Len(queue[q]) :
              y = <<"queue", q, j>> /\ queue[q][j] = b
        BY <2>1, <2>2, <3>3
      <4>2. PICK j \in 1 .. Len(queue[q]) : y = <<"queue", q, j>> /\ queue[q][j] = b
        BY <4>1
      <4>3. p = q
        BY <2>2, <3>3, <4>2
      <4>4. i = j
        BY <2>2, <3>3, <4>2, <4>3
      <4> QED
        BY <3>3, <4>2, <4>3, <4>4
    <3> QED
      BY <2>1, <3>1, <3>2, <3>3
  <2>5. CASE Places(b) = {}
    BY <2>5, FS_EmptySet
  <2>6. CASE Places(b) # {}
    <3>1. PICK x : x \in Places(b)
      BY <2>6
    <3>2. Places(b) = {x}
      BY <2>4, <3>1, Zenon
    <3> QED
      BY <3>2, FS_Singleton
  <2> QED
    BY <2>5, <2>6
<1> QED
  BY <1>1, Invariance, PTL

(* The header leads a block back to its pool, its memory is large enough,  *)
(* and no assertion of Memory.cpp or MemoryPool.cpp fails.                 *)
THEOREM BackToItsPoolHolds == Spec => []BackToItsPool
<1>1. MInv => BackToItsPool
  <2> SUFFICES ASSUME MInv PROVE BackToItsPool
    OBVIOUS
  <2>1. ASSUME NEW b \in Blocks, inUse[b] # 0 PROVE capacity[b] >= AllocSize(inUse[b])
    <3>1. inUse[b] \in Sizes /\ header[b] = AllocSize(inUse[b]) /\ CameFrom(b)
      BY <2>1 DEF MInv, UserInv, TypeOK
    <3>2. header[b] \in Nat \ {0}
      BY <3>1, SizesAreSizes
    <3>3. CASE header[b] > MaxAllocSize
      BY <3>1, <3>2, <3>3, PoolsAreSizes DEF CameFrom
    <3>4. CASE ~(header[b] > MaxAllocSize)
      <4>1. header[b] \in 0 .. MaxAllocSize /\ header[b] <= MaxAllocSize
        BY <3>2, <3>4, PoolsAreSizes
      <4>2. capacity[b] = PoolTable[header[b]] /\ capacity[b] \in PoolSizes
        BY <3>1, <4>1 DEF CameFrom
      <4>3. PoolTable[header[b]] # NoPool
        BY <4>2, PoolsAreSizes DEF NoPool
      <4>4. header[b] <= PoolTable[header[b]]
        BY <4>1, <4>3, TableIsRight
      <4> QED
        BY <3>1, <3>2, <4>2, <4>4, PoolsAreSizes
    <3> QED
      BY <3>3, <3>4
  <2> QED
    BY <2>1 DEF MInv, QueueInv, BackToItsPool
<1> QED
  BY <1>1, Invariance, PTL

(* _allocCount, decremented under the pool's lock and incremented outside  *)
(* it, counts the blocks handed out.                                       *)
THEOREM CountIsHandedOutHolds == Spec => []CountIsHandedOut
<1>1. MInv => CountIsHandedOut
  BY DEF MInv
<1> QED
  BY <1>1, Invariance, PTL

(* With the loops of the source no call goes through an entry of           *)
(* _poolTable that was never written, unless somebody asks for one of the  *)
(* 224 sizes that have no pool: to them alone the comment at Memory.cpp:72 *)
(* does not apply.                                                         *)
THEOREM OnlyLastSizesHaveNoPool ==
  ASSUME SourceTable
  PROVE  Spec => [](EverySizeHasAPool \/ \E size \in Sizes : size \in 3869 .. 4092)
<1> DEFINE LastSize == \E size \in Sizes : size \in 3869 .. 4092
           Fine == EverySizeHasAPool \/ LastSize
<1>1. ASSUME ~ LastSize, NEW size \in Sizes, AllocSize(size) <= MaxAllocSize
      PROVE  PoolTable[AllocSize(size)] # NoPool
  BY <1>1, SizesAreSizes, SourceTableEndsEarly
<1>2. Init => Fine
  BY DEF Init, EverySizeHasAPool
<1>3. MInv /\ Fine /\ [Next]_vars => Fine'
  <2> SUFFICES ASSUME MInv, EverySizeHasAPool, ~ LastSize, [Next]_vars
               PROVE  crash' # "NO_POOL"
    BY DEF EverySizeHasAPool
  <2> HIDE DEF LastSize
  <2>1. CASE UNCHANGED vars
    BY <2>1 DEF vars, EverySizeHasAPool
  <2>2. ASSUME NEW t \in Threads, NEW size \in Sizes, AllocateLarge(t, size)
        PROVE  crash' # "NO_POOL"
    BY <2>2 DEF AllocateLarge, EverySizeHasAPool
  <2>3. ASSUME NEW t \in Threads, NEW size \in Sizes, Pop(t, size)
        PROVE  crash' # "NO_POOL"
    BY <1>1, <2>3 DEF Pop, EverySizeHasAPool
  <2>4. ASSUME NEW t \in Threads, TakeBlock(t)
        PROVE  crash' # "NO_POOL"
    BY <2>4 DEF TakeBlock, EverySizeHasAPool
  <2>5. ASSUME NEW t \in Threads, NEW b \in Blocks, Release(t, b)
        PROVE  crash' # "NO_POOL"
    <3>1. header[b] \in Int /\ MaxAllocSize \in Nat
      BY PoolsAreSizes DEF MInv, TypeOK
    <3>2. \/ header[b] <= 0
          \/ header[b] > MaxAllocSize
          \/ header[b] \in 1 .. MaxAllocSize
      BY <3>1
    <3>3. crash' = "ASSERT" \/ UNCHANGED crash
      BY <2>5, <3>1, <3>2 DEF Release
    <3> QED
      BY <3>3 DEF EverySizeHasAPool
  <2>6. ASSUME NEW t \in Threads, PushBlock(t)
        PROVE  crash' # "NO_POOL"
    BY <2>6 DEF PushBlock, EverySizeHasAPool
  <2> QED
    BY <2>1, <2>2, <2>3, <2>4, <2>5, <2>6 DEF Next
<1> QED
  BY <1>2, <1>3, Invariance, PTL DEF Spec
=============================================================================
