------------------------- MODULE CycleSearchProofs -------------------------
(***************************************************************************)
(* CheckCycle finds every cycle, for any number of locks and any history.  *)
(* DFS is a recursive function, so the first half shows that the function  *)
(* exists (every call it makes is lighter than the call that makes it) and *)
(* the second half what it computes, by induction over the weight.         *)
(***************************************************************************)
EXTENDS CycleSearch, FiniteSetTheorems, WellFoundedInduction, TLAPS

LockMax == Cardinality(Names)

LEMMA LockMaxIsNat == LockMax \in Nat
  BY NamesAssumption, FS_CardinalityType DEF LockMax

LEMMA IdsAre == /\ Ids \subseteq Nat
                /\ NoId \notin Ids
                /\ IsFiniteSet(Ids)
                /\ Cardinality(Ids) = LockMax
                /\ \A i : i \in Ids <=> i \in Nat /\ i < LockMax
<1>1. Ids = 0 .. LockMax - 1
  BY DEF Ids, LockMax
<1>2. IsFiniteSet(Ids) /\ Cardinality(Ids) = LockMax
  <2>1. 0 \in Int /\ LockMax - 1 \in Int
    BY LockMaxIsNat
  <2>2. /\ IsFiniteSet(0 .. LockMax - 1)
        /\ Cardinality(0 .. LockMax - 1) =
             IF 0 > LockMax - 1 THEN 0 ELSE (LockMax - 1) - 0 + 1
    BY <2>1, FS_Interval
  <2> QED
    BY <1>1, <2>2, LockMaxIsNat
<1> QED
  BY <1>1, <1>2, LockMaxIsNat DEF NoId

(* Induction over the numbers, with a set for what is to be shown.         *)
LEMMA StrongInduction ==
  ASSUME NEW S, \A n \in Nat : (\A m \in Nat : m < n => m \in S) => n \in S
  PROVE  Nat \subseteq S
<1> SUFFICES ASSUME Nat \ S # {} PROVE FALSE
  OBVIOUS
<1> DEFINE T == Nat \ S
<1>1. T \subseteq Nat /\ T # {}
  OBVIOUS
<1>2. PICK x \in T : \A y \in T : ~ (<<y, x>> \in OpToRel(<, Nat))
  <2> HIDE DEF T
  <2> QED
    BY <1>1, WFMin, NatLessThanWellFounded
<1>3. \A m \in Nat : m < x => m \in S
  <2> SUFFICES ASSUME NEW m \in Nat, m < x, m \notin S PROVE FALSE
    OBVIOUS
  <2>1. m \in T /\ x \in Nat
    OBVIOUS
  <2>2. <<m, x>> \in OpToRel(<, Nat)
    BY <2>1 DEF OpToRel
  <2> QED
    BY <1>2, <2>1, <2>2
<1> QED
  BY <1>3

LEMMA NatSetInduction ==
  ASSUME NEW S, 0 \in S, \A n \in Nat : n \in S => n + 1 \in S
  PROVE  Nat \subseteq S
<1>1. ASSUME NEW n \in Nat, \A m \in Nat : m < n => m \in S
      PROVE  n \in S
  <2>1. CASE n = 0
    BY <2>1
  <2>2. CASE n # 0
    <3>1. n - 1 \in Nat /\ n - 1 < n /\ (n - 1) + 1 = n
      BY <2>2
    <3> QED
      BY <1>1, <3>1
  <2> QED
    BY <2>1, <2>2
<1> QED
  BY <1>1, StrongInduction

-----------------------------------------------------------------------------
(* The weight of a call: the locks not yet discovered, then its successors *)
(* not yet looked at.                                                      *)
Unseen(s) == {i \in Ids : s.order[i] = NoId}

Weight(c) == (LockMax + 1) * Cardinality(Unseen(c.search)) + Cardinality(c.todo)

LEMMA UnseenIsFinite ==
  ASSUME NEW s
  PROVE  IsFiniteSet(Unseen(s)) /\ Cardinality(Unseen(s)) \in 0 .. LockMax
<1>1. Unseen(s) \subseteq Ids
  BY DEF Unseen
<1>2. IsFiniteSet(Unseen(s)) /\ Cardinality(Unseen(s)) <= LockMax
  BY <1>1, IdsAre, FS_Subset
<1> QED
  BY <1>2, FS_CardinalityType, LockMaxIsNat

LEMMA TodoIsFinite ==
  ASSUME NEW todo \in SUBSET Ids
  PROVE  IsFiniteSet(todo) /\ Cardinality(todo) \in 0 .. LockMax
<1>1. IsFiniteSet(todo) /\ Cardinality(todo) <= LockMax
  BY IdsAre, FS_Subset
<1> QED
  BY <1>1, FS_CardinalityType, LockMaxIsNat

LEMMA Times ==
  ASSUME NEW k \in Nat, NEW a \in Nat, NEW b \in Nat
  PROVE  /\ k * a \in Nat
         /\ a <= b => k * a <= k * b
         /\ a < b => k * a + k <= k * b
<1>1. k * a \in Nat /\ k * b \in Nat
  OBVIOUS
<1>2. ASSUME a <= b PROVE k * a <= k * b
  <2>1. b - a \in Nat /\ k * (b - a) \in Nat
    BY <1>2
  <2>2. k * b = k * a + k * (b - a)
    BY <1>2
  <2> QED
    BY <1>1, <2>1, <2>2
<1>3. ASSUME a < b PROVE k * a + k <= k * b
  <2>1. b - a - 1 \in Nat /\ k * (b - a - 1) \in Nat
    BY <1>3
  <2>2. k * b = k * a + k + k * (b - a - 1)
    BY <1>3
  <2> QED
    BY <1>1, <2>1, <2>2
<1> QED
  BY <1>1, <1>2, <1>3

LEMMA WeightIsNat ==
  ASSUME NEW c \in Calls
  PROVE  /\ Weight(c) \in Nat
         /\ Weight(c) <= (LockMax + 1) * LockMax + LockMax
<1>1. /\ Cardinality(Unseen(c.search)) \in Nat
      /\ Cardinality(Unseen(c.search)) <= LockMax
  BY UnseenIsFinite, LockMaxIsNat
<1>2. Cardinality(c.todo) \in Nat /\ Cardinality(c.todo) <= LockMax
  BY TodoIsFinite, LockMaxIsNat DEF Calls
<1> DEFINE k == LockMax + 1
           u == Cardinality(Unseen(c.search))
           t == Cardinality(c.todo)
<1>3. k \in Nat /\ LockMax \in Nat
  BY LockMaxIsNat
<1>4. Weight(c) = k * u + t
  BY DEF Weight
<1> HIDE DEF k, u, t
<1>5. k * u \in Nat /\ k * u <= k * LockMax /\ k * LockMax \in Nat
  BY <1>1, <1>3, Times DEF u
<1>6. Weight(c) \in Nat /\ Weight(c) <= k * LockMax + LockMax
  BY <1>2, <1>3, <1>4, <1>5 DEF t
<1> QED
  BY <1>6 DEF k

(* The call that goes on with the rest of the successors is lighter, ...   *)
LEMMA ResumeIsLighter ==
  ASSUME NEW c \in Calls, NEW there \in c.todo, NEW s \in Searches,
         Unseen(s) \subseteq Unseen(c.search)
  PROVE  /\ Call(c.here, c.todo \ {there}, s) \in Calls
         /\ Weight(Call(c.here, c.todo \ {there}, s)) < Weight(c)
<1> DEFINE d == Call(c.here, c.todo \ {there}, s)
           k == LockMax + 1
           a == Cardinality(Unseen(s))
           b == Cardinality(Unseen(c.search))
           t == Cardinality(c.todo)
<1>1. d \in Calls
  BY DEF Calls, Call
<1>2. a \in Nat /\ b \in Nat /\ a <= b
  BY UnseenIsFinite, FS_Subset, LockMaxIsNat
<1>3. t \in Nat /\ Cardinality(c.todo \ {there}) = t - 1
  BY TodoIsFinite, FS_RemoveElement, LockMaxIsNat DEF Calls
<1>4. Weight(d) = k * a + (t - 1) /\ Weight(c) = k * b + t
  BY <1>3 DEF Weight, Call
<1>5. k \in Nat
  BY LockMaxIsNat
<1> HIDE DEF d, k, a, b, t
<1>6. k * a \in Nat /\ k * b \in Nat /\ k * a <= k * b
  BY <1>2, <1>5, Times
<1>7. Weight(d) < Weight(c)
  BY <1>3, <1>4, <1>6
<1> QED
  BY <1>1, <1>7 DEF d

(* ... and so is the call for a successor discovered just now.             *)
LEMMA EnterIsLighter ==
  ASSUME NEW c \in Calls, NEW there \in Ids, NEW todo \in SUBSET Ids,
         NEW s \in Searches,
         Unseen(s) \subseteq Unseen(c.search), Unseen(s) # Unseen(c.search)
  PROVE  /\ Call(there, todo, s) \in Calls
         /\ Weight(Call(there, todo, s)) < Weight(c)
<1> DEFINE d == Call(there, todo, s)
           k == LockMax + 1
           a == Cardinality(Unseen(s))
           b == Cardinality(Unseen(c.search))
           t == Cardinality(c.todo)
           r == Cardinality(todo)
<1>1. d \in Calls
  BY DEF Calls, Call
<1>2. a \in Nat /\ b \in Nat /\ a < b
  BY UnseenIsFinite, FS_Subset, LockMaxIsNat
<1>3. t \in Nat /\ r \in Nat /\ r <= LockMax
  BY TodoIsFinite, LockMaxIsNat DEF Calls
<1>4. Weight(d) = k * a + r /\ Weight(c) = k * b + t
  BY DEF Weight, Call
<1>5. k \in Nat /\ r < k
  BY <1>3, LockMaxIsNat
<1> HIDE DEF d, k, a, b, t, r
<1>6. k * a \in Nat /\ k * b \in Nat /\ k * a + k <= k * b
  BY <1>2, <1>5, Times
<1>7. Weight(d) < Weight(c)
  BY <1>3, <1>4, <1>5, <1>6
<1> QED
  BY <1>1, <1>7 DEF d

-----------------------------------------------------------------------------
(* What the steps of a search return.                                      *)

LEMMA MinIsIn ==
  ASSUME NEW S \in SUBSET Ids, S # {}
  PROVE  Min(S) \in S
<1>1. S \subseteq Nat
  BY IdsAre
<1>2. \E x \in S : \A y \in S : x <= y
  <2> SUFFICES ASSUME \A x \in S : \E y \in S : y < x PROVE FALSE
    BY <1>1
  <2> DEFINE T == {n \in Nat : n \notin S}
  <2>1. ASSUME NEW n \in Nat, \A m \in Nat : m < n => m \in T PROVE n \in T
    BY <1>1, <2>1
  <2>2. Nat \subseteq T
    <3> HIDE DEF T
    <3> QED
      BY <2>1, StrongInduction
  <2> QED
    BY <1>1, <2>2
<1> QED
  BY <1>2 DEF Min

LEMMA DiscoverReturns ==
  ASSUME NEW s \in Searches, NEW here \in Ids, NEW from \in Ids \cup {NoId},
         s.order[here] = NoId
  PROVE  /\ Discover(s, here, from) \in Searches
         /\ Discover(s, here, from).order[here] = s.count
         /\ \A i \in Ids : i # here => Discover(s, here, from).order[i] = s.order[i]
         /\ Discover(s, here, from).count = s.count + 1
         /\ Discover(s, here, from).finished = s.finished
         /\ Discover(s, here, from).parent[here] = from
         /\ \A i \in Ids : i # here => Discover(s, here, from).parent[i] = s.parent[i]
         /\ Discover(s, here, from).alarm = s.alarm
         /\ Unseen(Discover(s, here, from)) \subseteq Unseen(s)
         /\ Unseen(Discover(s, here, from)) # Unseen(s)
<1> DEFINE r == Discover(s, here, from)
<1>1. /\ r.order = [s.order EXCEPT ![here] = s.count]
      /\ r.count = s.count + 1
      /\ r.finished = s.finished
      /\ r.parent = [s.parent EXCEPT ![here] = from]
      /\ r.alarm = s.alarm
  BY DEF Discover, Searches
<1>2. r \in Searches
  <2> DEFINE s1 == [s EXCEPT !.order = [s.order EXCEPT ![here] = s.count]]
             s2 == [s1 EXCEPT !.count = s.count + 1]
             s3 == [s2 EXCEPT !.parent = [s.parent EXCEPT ![here] = from]]
  <2>1. s1 \in Searches /\ s1.parent = s.parent
    BY DEF Searches
  <2> HIDE DEF s1
  <2>2. s2 \in Searches /\ s2.parent = s.parent
    BY <2>1 DEF Searches
  <2> HIDE DEF s2
  <2>3. s3 \in Searches
    BY <2>2 DEF Searches
  <2>4. r = s3
    BY <2>1, <2>2 DEF Discover, Searches, s1, s2
  <2> QED
    BY <2>3, <2>4
<1>3. s.count # NoId
  BY DEF Searches, NoId
<1>4. Unseen(r) \subseteq Unseen(s) /\ here \in Unseen(s) /\ here \notin Unseen(r)
  BY <1>1, <1>3 DEF Unseen, Searches
<1>5. /\ s.order \in [Ids -> {NoId} \cup Nat]
      /\ s.parent \in [Ids -> {NoId} \cup Ids]
  BY DEF Searches
<1>6. /\ r.order[here] = s.count
      /\ \A i \in Ids : i # here => r.order[i] = s.order[i]
      /\ r.parent[here] = from
      /\ \A i \in Ids : i # here => r.parent[i] = s.parent[i]
  BY <1>1, <1>5
<1> QED
  BY <1>1, <1>2, <1>4, <1>6

LEMMA FinishReturns ==
  ASSUME NEW s \in Searches, NEW here \in Ids
  PROVE  /\ Finish(s, here) \in Searches
         /\ Finish(s, here).order = s.order
         /\ Finish(s, here).count = s.count
         /\ Finish(s, here).finished = [s.finished EXCEPT ![here] = TRUE]
         /\ Finish(s, here).parent = s.parent
         /\ Finish(s, here).alarm = s.alarm
         /\ Unseen(Finish(s, here)) = Unseen(s)
  BY DEF Finish, Searches, Unseen

LEMMA RaiseAlarmReturns ==
  ASSUME NEW s \in Searches, NEW here, NEW there
  PROVE  /\ RaiseAlarm(s, here, there) \in Searches
         /\ RaiseAlarm(s, here, there).alarm \in Alarms \ {"none"}
         /\ RaiseAlarm(s, here, there).alarm = "DEADLOCK_DETECTED"
              => PrintsCycle(s, here, there)
         /\ Unseen(RaiseAlarm(s, here, there)) = Unseen(s)
<1>1. CASE PrintsCycle(s, here, there)
  BY <1>1 DEF RaiseAlarm, Searches, Unseen, Alarms
<1>2. CASE ~ PrintsCycle(s, here, there)
  BY <1>2 DEF RaiseAlarm, Searches, Unseen, Alarms
<1> QED
  BY <1>1, <1>2

-----------------------------------------------------------------------------
(* DFS is the function its definition describes.                           *)

(* What a call returns when Visit is what the calls it makes return.       *)
Round(history, Visit, c) ==
  LET here  == c.here
      s     == c.search
      there == Min(c.todo)
      found == Discover(s, there, here)
      below == IF history[there] = {}
               THEN FinishLeaf(found, there)
               ELSE Visit[Call(there, history[there], found)]
      rest  == c.todo \ {there}
  IN  IF s.alarm # "none" THEN s
      ELSE IF c.todo = {} THEN Finish(s, here)
      ELSE IF s.order[there] = NoId THEN Visit[Call(here, rest, below)]
      ELSE IF IsBackEdge(s, here, there) THEN RaiseAlarm(s, here, there)
      ELSE Visit[Call(here, rest, s)]

Lighter(n) == {c \in Calls : Weight(c) < n}

(* Visit gives every call of S a search that has forgotten no lock.        *)
Returns(Visit, S) ==
  \A c \in S : /\ Visit[c] \in Searches
               /\ Unseen(Visit[c]) \subseteq Unseen(c.search)

LEMMA RoundByLighterCalls ==
  ASSUME NEW history \in Histories, NEW c \in Calls, NEW n \in Nat,
         Weight(c) <= n, NEW Visit, Returns(Visit, Lighter(n))
  PROVE  /\ Round(history, Visit, c) \in Searches
         /\ Unseen(Round(history, Visit, c)) \subseteq Unseen(c.search)
         /\ \A V : (\A d \in Lighter(n) : V[d] = Visit[d])
                     => Round(history, V, c) = Round(history, Visit, c)
<1> DEFINE here  == c.here
           s     == c.search
           there == Min(c.todo)
           found == Discover(s, there, here)
           rest  == c.todo \ {there}
           Below(V) == IF history[there] = {} THEN FinishLeaf(found, there)
                       ELSE V[Call(there, history[there], found)]
<1>1. here \in Ids /\ c.todo \in SUBSET Ids /\ s \in Searches
  BY DEF Calls
<1>2. CASE s.alarm # "none"
  BY <1>1, <1>2 DEF Round
<1>3. CASE s.alarm = "none" /\ c.todo = {}
  BY <1>1, <1>3, FinishReturns DEF Round
<1>4. CASE s.alarm = "none" /\ c.todo # {}
  <2>1. there \in c.todo /\ there \in Ids
    BY <1>1, <1>4, MinIsIn
  <2>2. ASSUME NEW t \in Searches, Unseen(t) \subseteq Unseen(s)
        PROVE  Call(here, rest, t) \in Lighter(n)
    <3>1. /\ Call(here, rest, t) \in Calls
          /\ Weight(Call(here, rest, t)) < Weight(c)
      BY <2>1, <2>2, ResumeIsLighter
    <3> QED
      BY <3>1, WeightIsNat DEF Lighter
  <2>3. ASSUME NEW t \in Searches, Unseen(t) \subseteq Unseen(s)
        PROVE  /\ Visit[Call(here, rest, t)] \in Searches
               /\ Unseen(Visit[Call(here, rest, t)]) \subseteq Unseen(s)
    <3>1. Call(here, rest, t).search = t
      BY DEF Call
    <3> QED
      BY <2>2, <2>3, <3>1 DEF Returns
  <2>4. CASE s.order[there] = NoId
    <3>1. /\ found \in Searches
          /\ Unseen(found) \subseteq Unseen(s)
          /\ Unseen(found) # Unseen(s)
      <4>1. here \in Ids \cup {NoId}
        BY <1>1
      <4> HIDE DEF here, s, there
      <4> QED
        BY <1>1, <2>1, <2>4, <4>1, DiscoverReturns
    <3>2. history[there] \in SUBSET Ids
      BY <2>1 DEF Histories
    <3>3. Call(there, history[there], found) \in Lighter(n)
      BY <2>1, <3>1, <3>2, EnterIsLighter, WeightIsNat DEF Lighter
    <3>4. Call(there, history[there], found).search = found
      BY DEF Call
    <3>5. Below(Visit) \in Searches /\ Unseen(Below(Visit)) \subseteq Unseen(s)
      BY <3>1, <3>3, <3>4 DEF Returns, FinishLeaf
    <3>6. \A V : Round(history, V, c) = V[Call(here, rest, Below(V))]
      BY <1>4, <2>4 DEF Round
    <3>7. ASSUME NEW V, \A d \in Lighter(n) : V[d] = Visit[d]
          PROVE  Round(history, V, c) = Round(history, Visit, c)
      <4>1. Below(V) = Below(Visit)
        BY <3>3, <3>7
      <4> HIDE DEF Below
      <4>2. V[Call(here, rest, Below(Visit))] = Visit[Call(here, rest, Below(Visit))]
        BY <2>2, <3>5, <3>7
      <4> QED
        BY <3>6, <4>1, <4>2
    <3> HIDE DEF Below
    <3>8. /\ Round(history, Visit, c) \in Searches
          /\ Unseen(Round(history, Visit, c)) \subseteq Unseen(s)
      BY <2>3, <3>5, <3>6
    <3> QED
      BY <3>7, <3>8
  <2>5. CASE s.order[there] # NoId /\ IsBackEdge(s, here, there)
    BY <1>1, <1>4, <2>5, RaiseAlarmReturns DEF Round
  <2>6. CASE s.order[there] # NoId /\ ~ IsBackEdge(s, here, there)
    <3>1. \A V : Round(history, V, c) = V[Call(here, rest, s)]
      BY <1>4, <2>6 DEF Round
    <3> QED
      BY <1>1, <2>2, <2>3, <3>1
  <2> QED
    BY <2>4, <2>5, <2>6
<1> QED
  BY <1>2, <1>3, <1>4

LEMMA SearchesExist ==
  ASSUME NEW history \in Histories
  PROVE  \E Visit : Visit = [c \in Calls |-> Round(history, Visit, c)]
<1> DEFINE IsDFS(Visit, n) ==
             /\ Visit = [c \in Lighter(n) |-> Round(history, Visit, c)]
             /\ Returns(Visit, Lighter(n))
           Lengths == {n \in Nat : \E Visit : IsDFS(Visit, n)}
<1>1. 0 \in Lengths
  <2>1. Lighter(0) = {}
    BY WeightIsNat DEF Lighter
  <2>2. IsDFS([c \in {} |-> Round(history, <<>>, c)], 0)
    BY <2>1 DEF Returns
  <2> HIDE DEF IsDFS
  <2> QED
    BY <2>2
<1>2. ASSUME NEW n \in Nat, n \in Lengths PROVE n + 1 \in Lengths
  <2>1. PICK Visit : IsDFS(Visit, n)
    BY <1>2
  <2>2. DEFINE more == [c \in Lighter(n + 1) |-> Round(history, Visit, c)]
  <2>3. ASSUME NEW c \in Lighter(n + 1)
        PROVE  c \in Calls /\ Weight(c) <= n
    BY WeightIsNat DEF Lighter
  <2>4. Lighter(n) \subseteq Lighter(n + 1)
    BY WeightIsNat DEF Lighter
  <2>5. \A d \in Lighter(n) : more[d] = Visit[d]
    BY <2>1, <2>4
  <2>6. ASSUME NEW c \in Lighter(n + 1)
        PROVE  /\ more[c] = Round(history, more, c)
               /\ more[c] \in Searches
               /\ Unseen(more[c]) \subseteq Unseen(c.search)
    <3>1. more[c] = Round(history, Visit, c)
      OBVIOUS
    <3>2. Returns(Visit, Lighter(n))
      BY <2>1
    <3> HIDE DEF more
    <3> QED
      BY <2>3, <2>5, <3>1, <3>2, RoundByLighterCalls
  <2>7. more = [c \in Lighter(n + 1) |-> Round(history, more, c)]
    <3>1. DOMAIN more = Lighter(n + 1) /\ more = [c \in DOMAIN more |-> more[c]]
      OBVIOUS
    <3> HIDE DEF more
    <3> QED
      BY <2>6, <3>1
  <2>8. IsDFS(more, n + 1)
    <3> HIDE DEF more
    <3> QED
      BY <2>6, <2>7 DEF Returns
  <2> HIDE DEF IsDFS, more
  <2> QED
    BY <2>8
<1>3. Nat \subseteq Lengths
  <2> HIDE DEF Lengths
  <2> QED
    BY <1>1, <1>2, NatSetInduction
<1> DEFINE top == (LockMax + 1) * LockMax + LockMax + 1
<1>4. top \in Nat /\ Lighter(top) = Calls
  <2>1. (LockMax + 1) * LockMax \in Nat
    BY LockMaxIsNat, Times
  <2> QED
    BY <2>1, LockMaxIsNat, WeightIsNat DEF Lighter
<1> HIDE DEF top
<1>5. \E Visit : IsDFS(Visit, top)
  BY <1>3, <1>4
<1> QED
  BY <1>4, <1>5

LEMMA DFSIsRound ==
  ASSUME NEW history \in Histories
  PROVE  DFS(history) = [c \in Calls |-> Round(history, DFS(history), c)]
<1> DEFINE P(Visit) == Visit = [c \in Calls |-> Round(history, Visit, c)]
<1>1. \E Visit : P(Visit)
  BY SearchesExist
<1>2. P(CHOOSE Visit : P(Visit))
  <2> HIDE DEF P
  <2> QED
    BY <1>1
<1>3. DFS(history) = CHOOSE Visit : P(Visit)
  BY DEF DFS, Round
<1> QED
  BY <1>2, <1>3

LEMMA DFSReturns ==
  ASSUME NEW history \in Histories
  PROVE  Returns(DFS(history), Calls)
<1> DEFINE Done == {n \in Nat : Returns(DFS(history), Lighter(n + 1))}
<1>1. ASSUME NEW n \in Nat, \A m \in Nat : m < n => m \in Done
      PROVE  n \in Done
  <2>1. Returns(DFS(history), Lighter(n))
    <3> SUFFICES ASSUME NEW c \in Lighter(n)
                 PROVE  c \in Lighter(Weight(c) + 1) /\ Weight(c) \in Done
      BY DEF Returns
    <3> QED
      BY <1>1, WeightIsNat DEF Lighter
  <2> SUFFICES ASSUME NEW c \in Lighter(n + 1)
               PROVE  /\ DFS(history)[c] \in Searches
                      /\ Unseen(DFS(history)[c]) \subseteq Unseen(c.search)
    BY DEF Returns
  <2>2. c \in Calls /\ Weight(c) <= n
    BY WeightIsNat DEF Lighter
  <2>3. DFS(history)[c] = Round(history, DFS(history), c)
    BY <2>2, DFSIsRound
  <2> QED
    BY <2>1, <2>2, <2>3, RoundByLighterCalls
<1>2. Nat \subseteq Done
  <2> HIDE DEF Done
  <2> QED
    BY <1>1, StrongInduction
<1> SUFFICES ASSUME NEW c \in Calls
             PROVE  /\ DFS(history)[c] \in Searches
                    /\ Unseen(DFS(history)[c]) \subseteq Unseen(c.search)
  BY DEF Returns
<1>3. Weight(c) \in Done /\ c \in Lighter(Weight(c) + 1)
  BY <1>2, WeightIsNat DEF Lighter
<1> QED
  BY <1>3 DEF Returns

-----------------------------------------------------------------------------
(* The loop that prints the cycle.                                         *)

(* Each lock with a _parent was discovered after it and is a successor.    *)
ParentsFirst(history, s) ==
  \A i \in Ids : s.parent[i] # NoId =>
    /\ s.order[s.parent[i]] # NoId
    /\ s.order[s.parent[i]] < s.order[i]
    /\ i \in history[s.parent[i]]

UpRule(s, there, Up, now) ==
  s.parent[now] = there \/ (s.parent[now] # NoId /\ Up[s.parent[now]])

LEMMA UpExists ==
  ASSUME NEW s \in Searches, NEW there \in Ids
  PROVE  \E Up : Up = [now \in Ids |-> UpRule(s, there, Up, now)]
<1> DEFINE Closed(T) ==
             \A i \in Ids : s.parent[i] = there \/ (s.parent[i] # NoId /\ s.parent[i] \in T)
                              => i \in T
           Least == [now \in Ids |-> \A T \in SUBSET Ids : Closed(T) => now \in T]
           T0 == {i \in Ids : UpRule(s, there, Least, i)}
<1>1. \A i \in Ids : s.parent[i] # NoId => s.parent[i] \in Ids
  BY DEF Searches
<1>2. ASSUME NEW now \in Ids, UpRule(s, there, Least, now) PROVE Least[now]
  <2> SUFFICES ASSUME NEW T \in SUBSET Ids, Closed(T) PROVE now \in T
    OBVIOUS
  <2>1. CASE s.parent[now] = there
    BY <2>1
  <2>2. CASE s.parent[now] # NoId /\ Least[s.parent[now]]
    <3>1. s.parent[now] \in T
      BY <1>1, <2>2
    <3> QED
      BY <2>2, <3>1
  <2> QED
    BY <1>2, <2>1, <2>2 DEF UpRule
<1>3. Closed(T0)
  <2> SUFFICES ASSUME NEW i \in Ids,
                      s.parent[i] = there \/ (s.parent[i] # NoId /\ s.parent[i] \in T0)
               PROVE  UpRule(s, there, Least, i)
    OBVIOUS
  <2>1. s.parent[i] \in T0 => Least[s.parent[i]]
    BY <1>2
  <2> HIDE DEF Least, T0
  <2> QED
    BY <2>1 DEF UpRule
<1>4. ASSUME NEW now \in Ids, Least[now] PROVE UpRule(s, there, Least, now)
  <2>1. T0 \in SUBSET Ids
    OBVIOUS
  <2>2. now \in T0
    <3> HIDE DEF T0
    <3> QED
      BY <1>3, <1>4, <2>1
  <2> QED
    BY <2>2
<1>5. \A now \in Ids : Least[now] \in BOOLEAN
  OBVIOUS
<1>6. \A now \in Ids : UpRule(s, there, Least, now) \in BOOLEAN
  <2> HIDE DEF Least
  <2> QED
    BY <1>1, <1>5 DEF UpRule
<1>7. \A now \in Ids : Least[now] = UpRule(s, there, Least, now)
  <2> HIDE DEF Least
  <2> QED
    BY <1>2, <1>4, <1>5, <1>6
<1>8. Least = [now \in Ids |-> UpRule(s, there, Least, now)]
  <2>1. DOMAIN Least = Ids /\ Least = [now \in Ids |-> Least[now]]
    OBVIOUS
  <2> HIDE DEF Least
  <2> QED
    BY <1>7, <2>1
<1> HIDE DEF Least
<1> QED
  BY <1>8

(* When the loop comes to its end, the locks it has printed lie on a cycle.*)
LEMMA PrintedIsCycle ==
  ASSUME NEW history \in Histories, NEW s \in Searches, ParentsFirst(history, s),
         NEW here \in Ids, NEW there \in Ids, there \in history[here],
         PrintsCycle(s, here, there)
  PROVE  Cyclic(history)
<1> DEFINE P(Up) == Up = [now \in Ids |-> UpRule(s, there, Up, now)]
           Up == CHOOSE U : P(U)
           (* Some locks that lead from now down to there and back.        *)
           Path(now, S) ==
             /\ now \in S /\ there \in S
             /\ \A i \in S : i = now \/ history[i] \cap S # {}
           Found == {n \in Nat : \A now \in Ids :
                       s.order[now] = n /\ Up[now] => \E S \in SUBSET Ids : Path(now, S)}
<1>1. P(Up)
  <2>1. \E U : P(U)
    BY UpExists
  <2> HIDE DEF P
  <2> QED
    BY <2>1
<1>2. PrintsCycle(s, here, there) = Up[here]
  BY DEF PrintsCycle, UpRule
<1>3. \A now \in Ids : Up[now] = UpRule(s, there, Up, now)
  <2> HIDE DEF Up
  <2> QED
    BY <1>1
<1> HIDE DEF Up
<1>4. ASSUME NEW now \in Ids, Up[now]
      PROVE  /\ s.parent[now] \in Ids
             /\ s.order[s.parent[now]] \in Nat /\ s.order[now] \in Nat
             /\ s.order[s.parent[now]] < s.order[now]
             /\ now \in history[s.parent[now]]
             /\ s.parent[now] = there \/ Up[s.parent[now]]
  <2>1. s.parent[now] # NoId
    BY <1>3, <1>4, IdsAre DEF UpRule
  <2>2. s.parent[now] \in Ids
    BY <2>1 DEF Searches
  <2>3. /\ s.order[s.parent[now]] # NoId
        /\ s.order[s.parent[now]] < s.order[now]
        /\ now \in history[s.parent[now]]
    BY <2>1 DEF ParentsFirst
  <2>4. s.order[s.parent[now]] \in Nat /\ s.order[now] \in Nat
    BY <2>2, <2>3 DEF Searches, NoId
  <2>5. s.parent[now] = there \/ Up[s.parent[now]]
    BY <1>3, <1>4 DEF UpRule
  <2> QED
    BY <2>2, <2>3, <2>4, <2>5
<1>5. ASSUME NEW n \in Nat, \A m \in Nat : m < n => m \in Found
      PROVE  n \in Found
  <2> SUFFICES ASSUME NEW now \in Ids, s.order[now] = n, Up[now]
               PROVE  \E S \in SUBSET Ids : Path(now, S)
    OBVIOUS
  <2> DEFINE up == s.parent[now]
  <2>1. up \in Ids /\ now \in history[up] /\ s.order[up] \in Nat /\ s.order[up] < n
    BY <1>4
  <2>2. CASE up = there
    <3>1. Path(now, {now, there})
      BY <2>1, <2>2
    <3> HIDE DEF Path
    <3> QED
      BY <3>1
  <2>3. CASE Up[up]
    <3>1. \E S \in SUBSET Ids : Path(up, S)
      BY <1>5, <2>1, <2>3
    <3>2. PICK S \in SUBSET Ids : Path(up, S)
      BY <3>1
    <3>3. Path(now, S \cup {now})
      BY <2>1, <3>2
    <3> HIDE DEF Path
    <3> QED
      BY <3>3
  <2> QED
    BY <1>4, <2>2, <2>3
<1>6. Nat \subseteq Found
  <2> HIDE DEF Found
  <2> QED
    BY <1>5, StrongInduction
<1>7. s.order[here] \in Found /\ Up[here]
  BY <1>2, <1>4, <1>6
<1>8. PICK S \in SUBSET Ids : Path(here, S)
  <2> HIDE DEF Path
  <2> QED
    BY <1>7
<1>9. S # {} /\ \A i \in S : history[i] \cap S # {}
  BY <1>8
<1> QED
  BY <1>9 DEF Cyclic

-----------------------------------------------------------------------------
(* What a search that has raised no alarm knows.                           *)

(* A lock is done with when it is finished, or when it is discovered and   *)
(* has no successor: such a lock is never marked as finished.              *)
DoneWith(history, s) ==
  {i \in Ids : s.finished[i] \/ (s.order[i] # NoId /\ history[i] = {})}

HasCycleIn(history, T) ==
  \E S \in SUBSET T : S # {} /\ \A i \in S : history[i] \cap S # {}

(* What is done with has its successors done with, and no cycle.           *)
Sound(history, s) ==
  /\ s \in Searches
  /\ s.alarm = "none"
  /\ \A i \in Ids : s.order[i] < s.count
  /\ \A i \in Ids : s.finished[i] => s.order[i] # NoId
  /\ \A i \in DoneWith(history, s) : history[i] \subseteq DoneWith(history, s)
  /\ ~ HasCycleIn(history, DoneWith(history, s))
  /\ ParentsFirst(history, s)

(* A call is made for a lock with successors: those not in todo are done   *)
(* with, and so is all that was discovered after it.                       *)
Ready(history, c) ==
  LET s == c.search
  IN  /\ c \in Calls
      /\ Sound(history, s)
      /\ s.order[c.here] # NoId /\ ~ s.finished[c.here]
      /\ history[c.here] # {} /\ c.todo \subseteq history[c.here]
      /\ history[c.here] \ c.todo \subseteq DoneWith(history, s)
      /\ \A i \in Ids : s.order[i] > s.order[c.here] => i \in DoneWith(history, s)

(* What a call without an alarm has done: its lock and all that it has     *)
(* discovered are done with, and no other lock is touched.                 *)
Visited(history, c, r) ==
  LET s == c.search
  IN  /\ Sound(history, r)
      /\ c.here \in DoneWith(history, r)
      /\ \A i \in Ids : s.order[i] # NoId => r.order[i] = s.order[i]
      /\ \A i \in Ids : s.order[i] # NoId /\ i # c.here
                          => (i \in DoneWith(history, r) <=> i \in DoneWith(history, s))
      /\ \A i \in Ids : s.order[i] = NoId /\ r.order[i] # NoId
                          => i \in DoneWith(history, r)

(* An alarm of a cycle is right.                                           *)
AlarmIsRight(history, r) == r.alarm = "DEADLOCK_DETECTED" => Cyclic(history)

Answers(history, c, r) ==
  /\ r.alarm = "none" => Visited(history, c, r)
  /\ AlarmIsRight(history, r)

(* A lock discovered after all others, without a successor or unfinished.  *)
LEMMA DiscoverKeepsSound ==
  ASSUME NEW history \in Histories, NEW s, Sound(history, s),
         NEW here \in Ids, s.order[here] = NoId,
         NEW from \in Ids \cup {NoId},
         from # NoId => s.order[from] # NoId /\ here \in history[from]
  PROVE  /\ Sound(history, Discover(s, here, from))
         /\ DoneWith(history, Discover(s, here, from))
              = DoneWith(history, s) \cup (IF history[here] = {} THEN {here} ELSE {})
         /\ here \notin DoneWith(history, s)
<1> DEFINE r == Discover(s, here, from)
           D == DoneWith(history, s)
           E == DoneWith(history, r)
<1>1. s \in Searches
  BY DEF Sound
<1>2. /\ r \in Searches
      /\ r.order[here] = s.count
      /\ \A i \in Ids : i # here => r.order[i] = s.order[i]
      /\ r.count = s.count + 1
      /\ r.finished = s.finished
      /\ r.parent[here] = from
      /\ \A i \in Ids : i # here => r.parent[i] = s.parent[i]
      /\ r.alarm = s.alarm
  BY <1>1, DiscoverReturns
<1> HIDE DEF r
<1>3. /\ s.order \in [Ids -> {NoId} \cup Nat] /\ s.count \in Nat
      /\ s.finished \in [Ids -> BOOLEAN]
      /\ s.parent \in [Ids -> {NoId} \cup Ids]
  BY <1>1 DEF Searches
<1>4. /\ s.alarm = "none"
      /\ \A i \in Ids : s.order[i] < s.count
      /\ \A i \in Ids : s.finished[i] => s.order[i] # NoId
      /\ \A i \in D : history[i] \subseteq D
      /\ ~ HasCycleIn(history, D)
      /\ ParentsFirst(history, s)
  BY DEF Sound
<1>5. /\ r.order[here] = s.count /\ s.count # NoId
      /\ \A i \in Ids \ {here} : r.order[i] = s.order[i]
      /\ r.parent[here] = from
      /\ \A i \in Ids \ {here} : r.parent[i] = s.parent[i]
  BY <1>2, <1>3 DEF NoId
<1>6. ~ s.finished[here]
  BY <1>4
<1>7. here \notin D
  BY <1>6 DEF DoneWith
<1>8. E = D \cup (IF history[here] = {} THEN {here} ELSE {})
  <2>1. \A i \in Ids : i \in E <=> i \in D \cup (IF history[here] = {} THEN {here} ELSE {})
    BY <1>2, <1>5, <1>6 DEF DoneWith
  <2>2. E \subseteq Ids /\ D \cup (IF history[here] = {} THEN {here} ELSE {}) \subseteq Ids
    BY DEF DoneWith
  <2> QED
    BY <2>1, <2>2
<1>9. \A i \in Ids : r.order[i] < r.count
  BY <1>2, <1>3, <1>4, <1>5 DEF NoId
<1>10. \A i \in Ids : r.finished[i] => r.order[i] # NoId
  BY <1>2, <1>4, <1>5
<1>11. \A i \in E : history[i] \subseteq E
  BY <1>4, <1>8
<1>12. ~ HasCycleIn(history, E)
  <2> SUFFICES ASSUME NEW S \in SUBSET E, S # {}, \A i \in S : history[i] \cap S # {}
               PROVE  FALSE
    BY DEF HasCycleIn
  <2>1. S \in SUBSET D
    BY <1>8
  <2> QED
    BY <1>4, <2>1 DEF HasCycleIn
<1>13. ParentsFirst(history, r)
  <2> SUFFICES ASSUME NEW i \in Ids, r.parent[i] # NoId
               PROVE  /\ r.order[r.parent[i]] # NoId
                      /\ r.order[r.parent[i]] < r.order[i]
                      /\ i \in history[r.parent[i]]
    BY DEF ParentsFirst
  <2>1. CASE i = here
    <3>1. r.parent[i] = from /\ from \in Ids
      BY <1>5, <2>1
    <3>2. from # here
      BY <3>1, <2>1
    <3>3. r.order[from] = s.order[from]
      BY <1>5, <3>1, <3>2
    <3> QED
      BY <1>4, <1>5, <2>1, <3>1, <3>3
  <2>2. CASE i # here
    <3>1. r.parent[i] = s.parent[i] /\ s.parent[i] \in Ids
      BY <1>3, <1>5, <2>2
    <3>2. /\ s.order[s.parent[i]] # NoId
          /\ s.order[s.parent[i]] < s.order[i]
          /\ i \in history[s.parent[i]]
      BY <1>4, <3>1 DEF ParentsFirst
    <3>3. s.parent[i] # here
      BY <3>2
    <3> QED
      BY <1>5, <2>2, <3>1, <3>2, <3>3
  <2> QED
    BY <2>1, <2>2
<1>14. Sound(history, r)
  BY <1>2, <1>4, <1>9, <1>10, <1>11, <1>12, <1>13 DEF Sound
<1> QED
  BY <1>7, <1>8, <1>14 DEF r

LEMMA FinishVisits ==
  ASSUME NEW history \in Histories, NEW c, Ready(history, c), c.todo = {}
  PROVE  Answers(history, c, Finish(c.search, c.here))
<1> DEFINE s == c.search
           here == c.here
           r == Finish(s, here)
           D == DoneWith(history, s)
           E == DoneWith(history, r)
<1>1. here \in Ids /\ s \in Searches /\ Sound(history, s)
  BY DEF Ready, Calls
<1>2. /\ r \in Searches
      /\ r.order = s.order
      /\ r.count = s.count
      /\ r.finished = [s.finished EXCEPT ![here] = TRUE]
      /\ r.parent = s.parent
      /\ r.alarm = s.alarm
  BY <1>1, FinishReturns
<1> HIDE DEF r
<1>3. s.finished \in [Ids -> BOOLEAN]
  BY <1>1 DEF Searches
<1>4. /\ s.order[here] # NoId /\ ~ s.finished[here]
      /\ history[here] # {} /\ history[here] \subseteq D
  BY DEF Ready
<1>5. here \notin D
  BY <1>4 DEF DoneWith
<1>6. E = D \cup {here}
  <2>1. \A i \in Ids : i \in E <=> i \in D \cup {here}
    BY <1>1, <1>2, <1>3 DEF DoneWith
  <2>2. E \subseteq Ids /\ D \cup {here} \subseteq Ids
    BY <1>1 DEF DoneWith
  <2> QED
    BY <2>1, <2>2
<1>7. /\ s.alarm = "none"
      /\ \A i \in Ids : s.order[i] < s.count
      /\ \A i \in Ids : s.finished[i] => s.order[i] # NoId
      /\ \A i \in D : history[i] \subseteq D
      /\ ~ HasCycleIn(history, D)
      /\ ParentsFirst(history, s)
  BY <1>1 DEF Sound
<1>8. \A i \in E : history[i] \subseteq E
  BY <1>4, <1>6, <1>7
<1>9. ~ HasCycleIn(history, E)
  <2> SUFFICES ASSUME NEW S \in SUBSET E, S # {}, \A i \in S : history[i] \cap S # {}
               PROVE  FALSE
    BY DEF HasCycleIn
  <2> DEFINE T == S \ {here}
  <2>1. T \in SUBSET D
    BY <1>6
  <2>2. \A i \in S : history[i] \cap S \subseteq D
    BY <1>4, <1>6, <1>7
  <2>3. \A i \in S : history[i] \cap T # {}
    BY <1>5, <2>2
  <2>4. T # {}
    BY <2>3
  <2> QED
    BY <1>7, <2>1, <2>3, <2>4 DEF HasCycleIn
<1>10. ParentsFirst(history, r)
  BY <1>2, <1>7 DEF ParentsFirst
<1>11. \A i \in Ids : r.finished[i] => r.order[i] # NoId
  BY <1>2, <1>3, <1>4, <1>7
<1>12. Sound(history, r)
  BY <1>2, <1>7, <1>8, <1>9, <1>10, <1>11 DEF Sound
<1>13. Visited(history, c, r)
  BY <1>2, <1>6, <1>12 DEF Visited
<1>14. r.alarm = "none"
  BY <1>2, <1>7
<1> QED
  BY <1>13, <1>14 DEF Answers, AlarmIsRight, r

(* What was done with before the call for the lock there was made is done  *)
(* with after it, and so is all that was discovered in it.                 *)
LEMMA VisitedOneMore ==
  ASSUME NEW history \in Histories, NEW c, Ready(history, c),
         NEW there \in c.todo, NEW t, Sound(history, t), there \in DoneWith(history, t),
         \A i \in Ids : c.search.order[i] # NoId => t.order[i] = c.search.order[i],
         \A i \in Ids : c.search.order[i] # NoId
            => (i \in DoneWith(history, t) <=> i \in DoneWith(history, c.search)),
         \A i \in Ids : c.search.order[i] = NoId /\ t.order[i] # NoId
            => i \in DoneWith(history, t)
  PROVE  /\ Ready(history, Call(c.here, c.todo \ {there}, t))
         /\ \A r : Answers(history, Call(c.here, c.todo \ {there}, t), r)
                     => Answers(history, c, r)
<1> DEFINE s == c.search
           here == c.here
           d == Call(here, c.todo \ {there}, t)
           D == DoneWith(history, s)
           E == DoneWith(history, t)
<1>1. here \in Ids /\ s \in Searches /\ c.todo \subseteq Ids /\ Sound(history, s)
  BY DEF Ready, Calls
<1>2. t \in Searches
  BY DEF Sound
<1>3. /\ s.order[here] # NoId /\ ~ s.finished[here]
      /\ history[here] # {} /\ c.todo \subseteq history[here]
      /\ history[here] \ c.todo \subseteq D
      /\ \A i \in Ids : s.order[i] > s.order[here] => i \in D
  BY DEF Ready
<1>4. d.here = here /\ d.todo = c.todo \ {there} /\ d.search = t /\ d \in Calls
  BY <1>1, <1>2 DEF Call, Calls
<1> HIDE DEF d
<1>5. D \subseteq E
  <2>1. \A i \in D : i \in Ids /\ s.order[i] # NoId
    BY <1>1 DEF DoneWith, Sound
  <2> QED
    BY <2>1
<1>6. t.order[here] = s.order[here] /\ ~ t.finished[here]
  <2>1. here \notin D
    BY <1>3 DEF DoneWith
  <2>2. here \notin E
    BY <1>1, <1>3, <2>1
  <2> QED
    BY <1>1, <1>3, <2>2 DEF DoneWith
<1>7. history[here] \ (c.todo \ {there}) \subseteq E
  BY <1>3, <1>5
<1>8. ASSUME NEW i \in Ids, t.order[i] > t.order[here] PROVE i \in E
  <2>1. CASE s.order[i] # NoId
    BY <1>3, <1>5, <1>6, <1>8, <2>1
  <2>2. CASE s.order[i] = NoId
    <3>1. t.order[i] # NoId
      BY <1>1, <1>2, <1>3, <1>6, <1>8 DEF Searches, NoId
    <3> QED
      BY <2>2, <3>1
  <2> QED
    BY <2>1, <2>2
<1>9. Ready(history, d)
  BY <1>3, <1>4, <1>6, <1>7, <1>8 DEF Ready
<1>10. ASSUME NEW r, Answers(history, d, r) PROVE Answers(history, c, r)
  <2> SUFFICES ASSUME r.alarm = "none" PROVE Visited(history, c, r)
    BY <1>10 DEF Answers
  <2>1. Visited(history, d, r)
    BY <1>10 DEF Answers
  <2>2. /\ Sound(history, r)
        /\ here \in DoneWith(history, r)
        /\ \A i \in Ids : t.order[i] # NoId => r.order[i] = t.order[i]
        /\ \A i \in Ids : t.order[i] # NoId /\ i # here
                            => (i \in DoneWith(history, r) <=> i \in E)
        /\ \A i \in Ids : t.order[i] = NoId /\ r.order[i] # NoId
                            => i \in DoneWith(history, r)
    BY <1>4, <2>1 DEF Visited
  <2>3. \A i \in Ids : s.order[i] # NoId => r.order[i] = s.order[i]
    BY <2>2
  <2>4. \A i \in Ids : s.order[i] # NoId /\ i # here
                         => (i \in DoneWith(history, r) <=> i \in D)
    BY <2>2
  <2>5. \A i \in Ids : s.order[i] = NoId /\ r.order[i] # NoId
                         => i \in DoneWith(history, r)
    BY <2>2
  <2> QED
    BY <2>2, <2>3, <2>4, <2>5 DEF Visited
<1> QED
  BY <1>9, <1>10 DEF d

(* One round is right when all lighter calls are.                          *)
LEMMA RoundAnswers ==
  ASSUME NEW history \in Histories, NEW c, Ready(history, c),
         NEW n \in Nat, Weight(c) <= n,
         \A d \in Lighter(n) :
           Ready(history, d) => Answers(history, d, DFS(history)[d])
  PROVE  Answers(history, c, DFS(history)[c])
<1> DEFINE here  == c.here
           s     == c.search
           there == Min(c.todo)
           found == Discover(s, there, here)
           rest  == c.todo \ {there}
           enter == Call(there, history[there], found)
           below == IF history[there] = {} THEN FinishLeaf(found, there)
                    ELSE DFS(history)[enter]
           r     == DFS(history)[c]
           D     == DoneWith(history, s)
<1>1. /\ c \in Calls /\ here \in Ids /\ c.todo \in SUBSET Ids /\ s \in Searches
      /\ Sound(history, s) /\ s.alarm = "none"
  BY DEF Ready, Calls, Sound
<1>2. r = Round(history, DFS(history), c)
  BY <1>1, DFSIsRound
<1>3. CASE c.todo = {}
  BY <1>1, <1>2, <1>3, FinishVisits DEF Round
<1>4. CASE c.todo # {}
  <2>1. there \in c.todo /\ there \in Ids /\ there \in history[here]
    BY <1>1, <1>4, MinIsIn DEF Ready
  <2>2. ASSUME NEW t \in Searches, Unseen(t) \subseteq Unseen(s)
        PROVE  Call(here, rest, t) \in Lighter(n)
    <3>1. /\ Call(here, rest, t) \in Calls
          /\ Weight(Call(here, rest, t)) < Weight(c)
      BY <1>1, <2>1, <2>2, ResumeIsLighter
    <3> QED
      BY <1>1, <3>1, WeightIsNat DEF Lighter
  <2>3. ASSUME NEW t, Sound(history, t), Unseen(t) \subseteq Unseen(s),
               there \in DoneWith(history, t),
               \A i \in Ids : s.order[i] # NoId => t.order[i] = s.order[i],
               \A i \in Ids : s.order[i] # NoId => (i \in DoneWith(history, t) <=> i \in D),
               \A i \in Ids : s.order[i] = NoId /\ t.order[i] # NoId
                                => i \in DoneWith(history, t)
        PROVE  Answers(history, c, DFS(history)[Call(here, rest, t)])
    <3>1. /\ Ready(history, Call(here, rest, t))
          /\ \A q : Answers(history, Call(here, rest, t), q) => Answers(history, c, q)
      <4> HIDE DEF there
      <4> QED
        BY <2>1, <2>3, VisitedOneMore
    <3>2. Call(here, rest, t) \in Lighter(n)
      BY <2>2, <2>3 DEF Sound
    <3>3. Answers(history, Call(here, rest, t), DFS(history)[Call(here, rest, t)])
      BY <3>1, <3>2
    <3> QED
      BY <3>1, <3>3
  <2>4. CASE s.order[there] = NoId
    <3>1. r = DFS(history)[Call(here, rest, below)]
      BY <1>1, <1>2, <1>4, <2>4 DEF Round
    <3>2. /\ Sound(history, found)
          /\ DoneWith(history, found)
               = D \cup (IF history[there] = {} THEN {there} ELSE {})
          /\ there \notin D
      <4>1. here \in Ids \cup {NoId} /\ s.order[here] # NoId
        BY <1>1 DEF Ready
      <4> HIDE DEF here, there, s
      <4> QED
        BY <1>1, <2>1, <2>4, <4>1, DiscoverKeepsSound
    <3>3. /\ found \in Searches
          /\ Unseen(found) \subseteq Unseen(s)
          /\ Unseen(found) # Unseen(s)
          /\ found.finished = s.finished
      <4>1. here \in Ids \cup {NoId} /\ s \in Searches /\ there \in Ids
        BY <1>1, <2>1
      <4> HIDE DEF here, there, s, D, r
      <4> QED
        BY <2>4, <4>1, DiscoverReturns
    <3>4. /\ s.order \in [Ids -> {NoId} \cup Nat] /\ s.count \in Nat
          /\ found.order[there] = s.count /\ s.count # NoId
          /\ \A i \in Ids : i # there => found.order[i] = s.order[i]
      <4>1. /\ s.order \in [Ids -> {NoId} \cup Nat] /\ s.count \in Nat
            /\ s \in Searches /\ here \in Ids \cup {NoId}
        BY <1>1 DEF Searches
      <4> HIDE DEF here, there, s
      <4>2. /\ found.order[there] = s.count
            /\ \A i \in Ids : i # there => found.order[i] = s.order[i]
        BY <2>1, <2>4, <4>1, DiscoverReturns
      <4> QED
        BY <4>1, <4>2 DEF NoId
    <3> HIDE DEF there, found
    <3>5. CASE history[there] = {}
      <4>1. below = found
        BY <3>5 DEF FinishLeaf
      <4>2. there \in DoneWith(history, found)
        BY <3>2, <3>5
      <4>3. \A i \in Ids : s.order[i] # NoId => found.order[i] = s.order[i]
        BY <2>4, <3>4
      <4>4. \A i \in Ids : s.order[i] # NoId => (i \in DoneWith(history, found) <=> i \in D)
        BY <2>4, <3>2
      <4>5. \A i \in Ids : s.order[i] = NoId /\ found.order[i] # NoId
                             => i \in DoneWith(history, found)
        BY <3>4, <4>2
      <4> HIDE DEF below, s
      <4> QED
        BY <2>3, <3>1, <3>2, <3>3, <4>1, <4>2, <4>3, <4>4, <4>5
    <3>6. CASE history[there] # {}
      <4>1. below = DFS(history)[enter]
        BY <3>6
      <4>2. DoneWith(history, found) = D
        BY <3>2, <3>6
      <4>3. enter \in Calls /\ enter \in Lighter(n)
        <5>1. history[there] \in SUBSET Ids
          BY <2>1 DEF Histories
        <5>2. enter \in Calls /\ Weight(enter) < Weight(c)
          BY <1>1, <2>1, <3>3, <5>1, EnterIsLighter
        <5> QED
          BY <1>1, <5>2, WeightIsNat DEF Lighter
      <4>4. enter.here = there /\ enter.todo = history[there] /\ enter.search = found
        BY DEF Call
      <4>5. Ready(history, enter)
        <5>1. found.order[there] # NoId /\ ~ found.finished[there]
          BY <2>1, <3>2, <3>3, <3>4 DEF DoneWith
        <5>2. \A i \in Ids : ~ (found.order[i] > found.order[there])
          <6>1. \A i \in Ids : s.order[i] < s.count
            BY <1>1 DEF Sound
          <6>2. \A i \in Ids : s.order[i] \in Int
            BY <3>4 DEF NoId
          <6> QED
            BY <3>4, <6>1, <6>2
        <5> HIDE DEF enter
        <5> QED
          BY <3>2, <3>6, <4>3, <4>4, <5>1, <5>2 DEF Ready
      <4>6. Answers(history, enter, below)
        BY <4>1, <4>3, <4>5
      <4>7. below \in Searches /\ Unseen(below) \subseteq Unseen(s)
        <5>1. below \in Searches /\ Unseen(below) \subseteq Unseen(found)
          BY <4>1, <4>3, <4>4, DFSReturns DEF Returns
        <5> QED
          BY <3>3, <5>1
      <4>8. CASE below.alarm # "none"
        <5> DEFINE d == Call(here, rest, below)
        <5>1. d \in Calls /\ d.search = below
          BY <2>2, <4>7 DEF Lighter, Call
        <5>2. DFS(history)[d] = below
          <6> HIDE DEF d
          <6>1. DFS(history)[d] = Round(history, DFS(history), d)
            BY <5>1, DFSIsRound
          <6> QED
            BY <4>8, <5>1, <6>1 DEF Round
        <5> QED
          BY <3>1, <4>6, <4>8, <5>2 DEF Answers
      <4>9. CASE below.alarm = "none"
        <5>1. /\ Sound(history, below)
              /\ there \in DoneWith(history, below)
              /\ \A i \in Ids : found.order[i] # NoId => below.order[i] = found.order[i]
              /\ \A i \in Ids : found.order[i] # NoId /\ i # there
                   => (i \in DoneWith(history, below) <=> i \in DoneWith(history, found))
              /\ \A i \in Ids : found.order[i] = NoId /\ below.order[i] # NoId
                   => i \in DoneWith(history, below)
          <6> HIDE DEF enter, below
          <6> QED
            BY <4>4, <4>6, <4>9 DEF Answers, Visited
        <5>2. \A i \in Ids : s.order[i] # NoId => below.order[i] = s.order[i]
          BY <2>4, <3>4, <5>1
        <5>3. \A i \in Ids : s.order[i] # NoId => (i \in DoneWith(history, below) <=> i \in D)
          BY <2>4, <3>4, <4>2, <5>1
        <5>4. \A i \in Ids : s.order[i] = NoId /\ below.order[i] # NoId
                               => i \in DoneWith(history, below)
          BY <3>4, <5>1
        <5> HIDE DEF below, s
        <5> QED
          BY <2>3, <3>1, <4>7, <5>1, <5>2, <5>3, <5>4
      <4> QED
        BY <4>8, <4>9
    <3> QED
      BY <3>5, <3>6
  <2>5. CASE s.order[there] # NoId /\ IsBackEdge(s, here, there)
    <3>1. r = RaiseAlarm(s, here, there)
      BY <1>1, <1>2, <1>4, <2>5 DEF Round
    <3>2. /\ r.alarm # "none"
          /\ r.alarm = "DEADLOCK_DETECTED" => PrintsCycle(s, here, there)
      BY <1>1, <3>1, RaiseAlarmReturns
    <3>3. PrintsCycle(s, here, there) => Cyclic(history)
      BY <1>1, <2>1, PrintedIsCycle DEF Sound
    <3> QED
      BY <3>2, <3>3 DEF Answers, AlarmIsRight
  <2>6. CASE s.order[there] # NoId /\ ~ IsBackEdge(s, here, there)
    <3>1. r = DFS(history)[Call(here, rest, s)]
      BY <1>1, <1>2, <1>4, <2>6 DEF Round
    <3>2. there \in D
      <4>1. s.finished[there] \/ s.order[there] > s.order[here]
        <5>1. s.order[there] \in Int /\ s.order[here] \in Int
          BY <1>1, <2>1 DEF Searches, NoId
        <5>2. s.finished[there] \in BOOLEAN
          BY <1>1, <2>1 DEF Searches
        <5> HIDE DEF here, there, s
        <5> QED
          BY <2>6, <5>1, <5>2 DEF IsBackEdge
      <4>2. CASE s.finished[there]
        BY <2>1, <4>2 DEF DoneWith
      <4>3. CASE s.order[there] > s.order[here]
        BY <2>1, <4>3 DEF Ready
      <4> QED
        BY <4>1, <4>2, <4>3
    <3> QED
      BY <1>1, <2>3, <3>1, <3>2
  <2> QED
    BY <2>4, <2>5, <2>6
<1> QED
  BY <1>3, <1>4

LEMMA DFSAnswers ==
  ASSUME NEW history \in Histories, NEW c, Ready(history, c)
  PROVE  Answers(history, c, DFS(history)[c])
<1> DEFINE Right == {n \in Nat : \A d \in Lighter(n + 1) :
                       Ready(history, d) => Answers(history, d, DFS(history)[d])}
<1>1. ASSUME NEW n \in Nat, \A m \in Nat : m < n => m \in Right
      PROVE  n \in Right
  <2>1. \A d \in Lighter(n) : Ready(history, d) => Answers(history, d, DFS(history)[d])
    <3> SUFFICES ASSUME NEW d \in Lighter(n)
                 PROVE  d \in Lighter(Weight(d) + 1) /\ Weight(d) \in Right
      OBVIOUS
    <3> QED
      BY <1>1, WeightIsNat DEF Lighter
  <2> SUFFICES ASSUME NEW d \in Lighter(n + 1), Ready(history, d)
               PROVE  Answers(history, d, DFS(history)[d])
    OBVIOUS
  <2>2. Weight(d) <= n
    BY WeightIsNat DEF Lighter
  <2> HIDE DEF Right
  <2> QED
    BY <2>1, <2>2, RoundAnswers
<1>2. Nat \subseteq Right
  <2> HIDE DEF Right
  <2> QED
    BY <1>1, StrongInduction
<1>3. c \in Calls
  BY DEF Ready
<1>4. Weight(c) \in Right /\ c \in Lighter(Weight(c) + 1)
  BY <1>2, <1>3, WeightIsNat DEF Lighter
<1> QED
  BY <1>4

-----------------------------------------------------------------------------
(* CheckCycle                                                              *)

AfterRule(history, After, n) ==
  LET s      == After[n - 1]
      lockID == n - 1
      found  == Discover(s, lockID, NoId)
  IN  IF n = 0 THEN NewSearch
      ELSE IF s.alarm # "none" \/ s.order[lockID] # NoId THEN s
      ELSE IF history[lockID] = {} THEN FinishLeaf(found, lockID)
      ELSE DFS(history)[Call(lockID, history[lockID], found)]

LEMMA AfterExists ==
  ASSUME NEW history, NEW lockCount \in Nat
  PROVE  \E After : After = [n \in 0 .. lockCount |-> AfterRule(history, After, n)]
<1> DEFINE IsAfter(After, m) == After = [n \in 0 .. m |-> AfterRule(history, After, n)]
           Lengths == {m \in Nat : \E After : IsAfter(After, m)}
<1>1. 0 \in Lengths
  <2> DEFINE first == [n \in 0 .. 0 |-> NewSearch]
  <2>1. \A n \in 0 .. 0 : n = 0
    OBVIOUS
  <2>2. \A n \in 0 .. 0 : AfterRule(history, first, n) = NewSearch
    BY <2>1 DEF AfterRule
  <2>3. IsAfter(first, 0)
    BY <2>2
  <2> HIDE DEF first, IsAfter
  <2> QED
    BY <2>3
<1>2. ASSUME NEW m \in Nat, m \in Lengths PROVE m + 1 \in Lengths
  <2>1. PICK After : IsAfter(After, m)
    BY <1>2
  <2> DEFINE more == [n \in 0 .. m + 1 |-> AfterRule(history, After, n)]
  <2>2. ASSUME NEW n \in 0 .. m PROVE more[n] = After[n]
    BY <2>1
  <2>3. ASSUME NEW n \in 0 .. m + 1
        PROVE  more[n] = AfterRule(history, more, n)
    <3>1. more[n] = AfterRule(history, After, n)
      OBVIOUS
    <3>2. CASE n = 0
      <4> HIDE DEF more
      <4> QED
        BY <3>1, <3>2 DEF AfterRule
    <3>3. CASE n # 0
      <4>1. n - 1 \in 0 .. m
        BY <3>3
      <4>2. more[n - 1] = After[n - 1]
        BY <2>2, <4>1
      <4> HIDE DEF more
      <4> QED
        BY <3>1, <3>3, <4>2 DEF AfterRule
    <3> QED
      BY <3>2, <3>3
  <2>4. IsAfter(more, m + 1)
    <3>1. DOMAIN more = 0 .. m + 1 /\ more = [n \in DOMAIN more |-> more[n]]
      OBVIOUS
    <3> HIDE DEF more
    <3> QED
      BY <2>3, <3>1
  <2> HIDE DEF more, IsAfter
  <2> QED
    BY <2>4
<1>3. Nat \subseteq Lengths
  <2> HIDE DEF Lengths
  <2> QED
    BY <1>1, <1>2, NatSetInduction
<1> QED
  BY <1>3

(* Between the searches from two locks all that is discovered is done with.*)
AfterAll(history, s, n) ==
  /\ s \in Searches
  /\ AlarmIsRight(history, s)
  /\ s.alarm = "none" =>
       /\ Sound(history, s)
       /\ \A i \in Ids : s.order[i] # NoId => i \in DoneWith(history, s)
       /\ \A i \in Ids : i < n => s.order[i] # NoId

LEMMA NewSearchIsSound ==
  ASSUME NEW history \in Histories
  PROVE  AfterAll(history, NewSearch, 0)
<1>1. /\ NewSearch.order = [i \in Ids |-> NoId]
      /\ NewSearch.count = 0
      /\ NewSearch.finished = [i \in Ids |-> FALSE]
      /\ NewSearch.parent = [i \in Ids |-> NoId]
      /\ NewSearch.alarm = "none"
  BY DEF NewSearch
<1>2. NewSearch \in Searches
  BY DEF NewSearch, Searches, Alarms
<1>3. \A i \in Ids : i \notin DoneWith(history, NewSearch)
  BY <1>1 DEF DoneWith
<1>4. ~ HasCycleIn(history, DoneWith(history, NewSearch))
  BY <1>3 DEF HasCycleIn, DoneWith
<1>5. ParentsFirst(history, NewSearch)
  BY <1>1 DEF ParentsFirst
<1>6. \A i \in DoneWith(history, NewSearch) : i \in Ids
  BY DEF DoneWith
<1>7. \A i \in Ids : NewSearch.order[i] < NewSearch.count
  BY <1>1 DEF NoId
<1>8. Sound(history, NewSearch)
  BY <1>1, <1>2, <1>3, <1>4, <1>5, <1>6, <1>7 DEF Sound
<1> QED
  BY <1>1, <1>2, <1>8, IdsAre DEF AfterAll, AlarmIsRight

(* The search from one more lock.                                          *)
LEMMA SearchFromOneMore ==
  ASSUME NEW history \in Histories, NEW After, NEW n \in Nat, n + 1 <= LockMax,
         AfterAll(history, After[n], n)
  PROVE  AfterAll(history, AfterRule(history, After, n + 1), n + 1)
<1> DEFINE s     == After[n]
           found == Discover(s, n, NoId)
           call  == Call(n, history[n], found)
           r     == AfterRule(history, After, n + 1)
<1>1. n \in Ids /\ NoId \in Ids \cup {NoId} /\ s \in Searches
  BY IdsAre, LockMaxIsNat DEF AfterAll
<1>2. /\ (n + 1) - 1 = n /\ n + 1 # 0
      /\ \A i \in Ids : i < n + 1 => i = n \/ i < n
  BY IdsAre
<1>3. r = IF s.alarm # "none" \/ s.order[n] # NoId THEN s
          ELSE IF history[n] = {} THEN found
          ELSE DFS(history)[call]
  BY <1>2 DEF AfterRule, FinishLeaf
<1> SUFFICES AfterAll(history, r, n + 1)
  OBVIOUS
<1> HIDE DEF r
<1>4. CASE s.alarm # "none"
  BY <1>3, <1>4 DEF AfterAll
<1>5. CASE s.alarm = "none" /\ s.order[n] # NoId
  BY <1>2, <1>3, <1>5 DEF AfterAll
<1>6. CASE s.alarm = "none" /\ s.order[n] = NoId
  <2>1. /\ Sound(history, s)
        /\ \A i \in Ids : s.order[i] # NoId => i \in DoneWith(history, s)
        /\ \A i \in Ids : i < n => s.order[i] # NoId
    BY <1>6 DEF AfterAll
  <2>2. /\ found \in Searches
        /\ found.order[n] = s.count
        /\ \A i \in Ids : i # n => found.order[i] = s.order[i]
        /\ found.finished = s.finished
        /\ found.alarm = s.alarm
    <3>1. s.order[n] = NoId
      BY <1>6
    <3>2. \A t \in Searches, from \in Ids \cup {NoId} : t.order[n] = NoId =>
            /\ Discover(t, n, from) \in Searches
            /\ Discover(t, n, from).order[n] = t.count
            /\ \A i \in Ids : i # n => Discover(t, n, from).order[i] = t.order[i]
            /\ Discover(t, n, from).finished = t.finished
            /\ Discover(t, n, from).alarm = t.alarm
      BY <1>1, DiscoverReturns
    <3> HIDE DEF s
    <3> QED
      BY <1>1, <3>1, <3>2, Zenon
  <2>3. /\ Sound(history, found)
        /\ DoneWith(history, found)
             = DoneWith(history, s) \cup (IF history[n] = {} THEN {n} ELSE {})
        /\ n \notin DoneWith(history, s)
    <3> HIDE DEF s
    <3> QED
      BY <1>1, <1>6, <2>1, DiscoverKeepsSound
  <2>4. s.count \in Nat /\ s.count # NoId
    BY <1>1 DEF Searches, NoId
  <2> HIDE DEF found, s
  <2>5. CASE history[n] = {}
    <3>1. r = found
      BY <1>3, <1>6, <2>5
    <3>2. \A i \in Ids : found.order[i] # NoId => i \in DoneWith(history, found)
      BY <2>1, <2>2, <2>3, <2>5
    <3>3. \A i \in Ids : i < n + 1 => found.order[i] # NoId
      BY <1>2, <2>1, <2>2, <2>4
    <3> QED
      BY <1>6, <2>2, <2>3, <3>1, <3>2, <3>3 DEF AfterAll, AlarmIsRight
  <2>6. CASE history[n] # {}
    <3>1. r = DFS(history)[call]
      BY <1>3, <1>6, <2>6
    <3>2. call.here = n /\ call.todo = history[n] /\ call.search = found
      BY DEF Call
    <3>3. call \in Calls
      BY <1>1, <2>2 DEF Call, Calls, Histories
    <3> HIDE DEF call
    <3>4. Ready(history, call)
      <4>1. found.order[n] # NoId /\ ~ found.finished[n]
        BY <1>1, <2>2, <2>3, <2>4 DEF DoneWith
      <4>2. \A i \in Ids : ~ (found.order[i] > found.order[n])
        <5>1. \A i \in Ids : s.order[i] < s.count /\ s.order[i] \in Int
          BY <1>1, <2>1 DEF Sound, Searches, NoId
        <5> QED
          BY <2>2, <2>4, <5>1
      <4> QED
        BY <2>3, <2>6, <3>2, <3>3, <4>1, <4>2 DEF Ready
    <3>5. Answers(history, call, r)
      BY <3>1, <3>4, DFSAnswers
    <3>6. r \in Searches
      BY <3>1, <3>3, DFSReturns DEF Returns
    <3>7. AlarmIsRight(history, r)
      BY <3>5 DEF Answers
    <3>8. ASSUME r.alarm = "none"
          PROVE  /\ Sound(history, r)
                 /\ \A i \in Ids : r.order[i] # NoId => i \in DoneWith(history, r)
                 /\ \A i \in Ids : i < n + 1 => r.order[i] # NoId
      <4>1. /\ Sound(history, r)
            /\ n \in DoneWith(history, r)
            /\ \A i \in Ids : found.order[i] # NoId => r.order[i] = found.order[i]
            /\ \A i \in Ids : found.order[i] # NoId /\ i # n
                 => (i \in DoneWith(history, r) <=> i \in DoneWith(history, found))
            /\ \A i \in Ids : found.order[i] = NoId /\ r.order[i] # NoId
                 => i \in DoneWith(history, r)
        BY <3>2, <3>5, <3>8 DEF Answers, Visited
      <4>2. \A i \in Ids : r.order[i] # NoId => i \in DoneWith(history, r)
        BY <2>1, <2>2, <2>3, <4>1
      <4>3. \A i \in Ids : i < n + 1 => r.order[i] # NoId
        BY <1>2, <2>1, <2>2, <2>4, <4>1
      <4> QED
        BY <4>1, <4>2, <4>3
    <3> QED
      BY <3>6, <3>7, <3>8 DEF AfterAll
  <2> QED
    BY <2>5, <2>6
<1> QED
  BY <1>4, <1>5, <1>6

(* CheckCycle misses no cycle among the locks it is given, and when it     *)
(* prints a cycle there is one (DeadLockProfiler.cpp:61-136).              *)
THEOREM CheckCycleFindsCycles ==
  ASSUME NEW history \in Histories, NEW lockCount \in 0 .. LockMax,
         \A i \in Ids : i >= lockCount => history[i] = {}
  PROVE  /\ CheckCycle(history, lockCount) \in Alarms
         /\ Cyclic(history) => CheckCycle(history, lockCount) # "none"
         /\ CheckCycle(history, lockCount) = "DEADLOCK_DETECTED" => Cyclic(history)
<1> DEFINE P(After) == After = [n \in 0 .. lockCount |-> AfterRule(history, After, n)]
           After == CHOOSE A : P(A)
           Right == {n \in Nat : n <= lockCount => AfterAll(history, After[n], n)}
<1>1. lockCount \in Nat /\ lockCount <= LockMax
  BY LockMaxIsNat
<1>2. P(After)
  <2>1. \E A : P(A)
    BY <1>1, AfterExists
  <2> HIDE DEF P
  <2> QED
    BY <2>1
<1>3. CheckCycle(history, lockCount) = After[lockCount].alarm
  BY DEF CheckCycle, AfterRule
<1>4. \A n \in 0 .. lockCount : After[n] = AfterRule(history, After, n)
  <2> HIDE DEF After
  <2> QED
    BY <1>2
<1> HIDE DEF After
<1>5. 0 \in Right
  <2>1. After[0] = NewSearch
    BY <1>1, <1>4 DEF AfterRule
  <2> QED
    BY <2>1, NewSearchIsSound
<1>6. ASSUME NEW n \in Nat, n \in Right PROVE n + 1 \in Right
  <2> SUFFICES ASSUME n + 1 <= lockCount PROVE AfterAll(history, After[n + 1], n + 1)
    OBVIOUS
  <2>1. AfterAll(history, After[n], n) /\ n + 1 <= LockMax /\ n + 1 \in 0 .. lockCount
    BY <1>1, <1>6, LockMaxIsNat
  <2>2. After[n + 1] = AfterRule(history, After, n + 1)
    BY <1>4, <2>1
  <2> QED
    BY <2>1, <2>2, SearchFromOneMore
<1>7. Nat \subseteq Right
  <2> HIDE DEF Right
  <2> QED
    BY <1>5, <1>6, NatSetInduction
<1>8. AfterAll(history, After[lockCount], lockCount)
  BY <1>1, <1>7
<1> DEFINE s == After[lockCount]
<1>9. s.alarm \in Alarms /\ (s.alarm = "DEADLOCK_DETECTED" => Cyclic(history))
  BY <1>8 DEF AfterAll, AlarmIsRight, Searches
<1>10. ASSUME s.alarm = "none" PROVE ~ Cyclic(history)
  <2>1. /\ Sound(history, s)
        /\ \A i \in Ids : s.order[i] # NoId => i \in DoneWith(history, s)
        /\ \A i \in Ids : i < lockCount => s.order[i] # NoId
    BY <1>8, <1>10 DEF AfterAll
  <2> SUFFICES ASSUME NEW S \in SUBSET Ids, S # {}, \A i \in S : history[i] \cap S # {}
               PROVE  FALSE
    BY DEF Cyclic
  <2>2. \A i \in S : i < lockCount
    BY <1>1, IdsAre
  <2>3. S \in SUBSET DoneWith(history, s)
    BY <2>1, <2>2
  <2> QED
    BY <2>1, <2>3 DEF Sound, HasCycleIn
<1> QED
  BY <1>3, <1>9, <1>10
=============================================================================
