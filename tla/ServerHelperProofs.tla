------------------------- MODULE ServerHelperProofs -------------------------
(***************************************************************************)
(* What the select server keeps, for any number of listeners, clients and  *)
(* guests, any naming of them and any number of bytes.                     *)
(***************************************************************************)
EXTENDS ServerHelper, FiniteSetTheorems, SequenceTheorems, WellFoundedInduction,
        TLAPS

(* Induction over the numbers, with a set for what is to be shown.         *)
LEMMA NatSetInduction ==
  ASSUME NEW S, 0 \in S, \A n \in Nat : n \in S => n + 1 \in S
  PROVE  Nat \subseteq S
<1> SUFFICES ASSUME Nat \ S # {} PROVE FALSE
  OBVIOUS
<1> DEFINE T == Nat \ S
<1>1. T \subseteq Nat /\ T # {}
  OBVIOUS
<1>2. PICK x \in T : \A y \in T : ~ (<<y, x>> \in OpToRel(<, Nat))
  <2> HIDE DEF T
  <2> QED
    BY <1>1, WFMin, NatLessThanWellFounded
<1>a. x \in Nat /\ x \notin S
  OBVIOUS
<1>3. x - 1 \in Nat /\ x - 1 < x /\ (x - 1) + 1 = x
  <2>1. x # 0
    BY <1>a
  <2> QED
    BY <1>a, <2>1
<1>4. x - 1 \in T
  BY <1>a, <1>3
<1>5. <<x - 1, x>> \in OpToRel(<, Nat)
  BY <1>a, <1>3 DEF OpToRel
<1> QED
  BY <1>2, <1>4, <1>5

-----------------------------------------------------------------------------
(* Total is a sum: none of its streams is longer.                          *)

(* The recursive function that Total is computed with.                     *)
SumRule(f, g, s) ==
  IF s = {} THEN 0 ELSE f[CHOOSE x \in s : TRUE] + g[s \ {CHOOSE x \in s : TRUE}]

IsSum(f, S, g) == g = [s \in SUBSET S |-> SumRule(f, g, s)]

LEMMA SumsExist ==
  ASSUME NEW S, IsFiniteSet(S), NEW f
  PROVE  \E g : IsSum(f, S, g)
<1> DEFINE Sub(n) == {s \in SUBSET S : Cardinality(s) <= n}
           Good == {n \in Nat : \E g : g = [s \in Sub(n) |-> SumRule(f, g, s)]}
<1>0. \A s \in SUBSET S : IsFiniteSet(s) /\ Cardinality(s) \in Nat
  BY FS_Subset, FS_CardinalityType
<1>1. 0 \in Good
  <2>1. \A s \in Sub(0) : s = {}
    BY <1>0, FS_EmptySet
  <2> DEFINE g == [s \in Sub(0) |-> 0]
  <2>2. g = [s \in Sub(0) |-> SumRule(f, g, s)]
    BY <2>1 DEF SumRule
  <2> QED
    BY <2>2
<1>2. ASSUME NEW n \in Nat, n \in Good PROVE n + 1 \in Good
  <2>1. PICK g : g = [s \in Sub(n) |-> SumRule(f, g, s)]
    BY <1>2
  <2> DEFINE h == [s \in Sub(n + 1) |-> SumRule(f, g, s)]
  <2>2. \A s \in Sub(n) : s \in Sub(n + 1) /\ h[s] = g[s]
    <3> SUFFICES ASSUME NEW s \in Sub(n) PROVE s \in Sub(n + 1) /\ h[s] = g[s]
      OBVIOUS
    <3>1. s \in Sub(n + 1)
      BY <1>0
    <3> QED
      BY <2>1, <3>1
  <2>3. ASSUME NEW s \in Sub(n + 1), s # {}
        PROVE  s \ {CHOOSE x \in s : TRUE} \in Sub(n)
    <3> DEFINE x == CHOOSE y \in s : TRUE
    <3>1. x \in s
      BY <2>3
    <3> HIDE DEF x
    <3>2. Cardinality(s \ {x}) = Cardinality(s) - 1
      BY <1>0, <3>1, FS_RemoveElement
    <3>3. s \ {x} \in Sub(n)
      BY <1>0, <3>2
    <3> QED
      BY <3>3 DEF x
  <2>4. \A s \in Sub(n + 1) : SumRule(f, h, s) = SumRule(f, g, s)
    <3> HIDE DEF h
    <3> QED
      BY <2>2, <2>3 DEF SumRule
  <2>5. h = [s \in Sub(n + 1) |-> SumRule(f, h, s)]
    <3>1. \A s \in Sub(n + 1) : h[s] = SumRule(f, h, s)
      BY <2>4
    <3>2. DOMAIN h = Sub(n + 1) /\ h = [s \in DOMAIN h |-> h[s]]
      OBVIOUS
    <3> HIDE DEF h
    <3> QED
      BY <3>1, <3>2
  <2> HIDE DEF h
  <2>6. \E k : k = [s \in Sub(n + 1) |-> SumRule(f, k, s)]
    BY <2>5
  <2>7. n + 1 \in Nat
    OBVIOUS
  <2> QED
    BY <2>6, <2>7, Zenon
<1>3. Nat \subseteq Good
  <2> HIDE DEF Good
  <2> QED
    BY <1>1, <1>2, NatSetInduction
<1>4. Sub(Cardinality(S)) = SUBSET S
  BY <1>0, FS_Subset
<1>5. Cardinality(S) \in Good
  BY <1>0, <1>3
<1> QED
  BY <1>4, <1>5 DEF IsSum

LEMMA TotalIsSum ==
  ASSUME NEW S, IsFiniteSet(S), NEW f \in [S -> Nat]
  PROVE  Total(f) \in Nat /\ \A x \in S : f[x] <= Total(f)
<1> DEFINE iter == CHOOSE g : IsSum(f, S, g)
<1>1. IsSum(f, S, iter)
  BY SumsExist
<1>2. Total(f) = iter[S]
  <2>1. DOMAIN f = S
    OBVIOUS
  <2> QED
    BY <2>1 DEF Total, FoldFunction, FoldFunctionOnSet, MapThenFoldSet, SumRule, IsSum
<1> HIDE DEF iter
<1>3. \A s \in SUBSET S : iter[s] = SumRule(f, iter, s)
  BY <1>1 DEF IsSum
<1> DEFINE Bounds(s) == iter[s] \in Nat /\ \A x \in s : f[x] <= iter[s]
           Good == {n \in Nat : \A s \in SUBSET S : Cardinality(s) = n => Bounds(s)}
<1>4. \A s \in SUBSET S : IsFiniteSet(s) /\ Cardinality(s) \in Nat
  BY FS_Subset, FS_CardinalityType
<1>5. 0 \in Good
  <2> SUFFICES ASSUME NEW s \in SUBSET S, Cardinality(s) = 0 PROVE Bounds(s)
    OBVIOUS
  <2>1. s = {}
    BY <1>4, FS_EmptySet
  <2>2. iter[s] = 0
    BY <1>3, <2>1 DEF SumRule
  <2> QED
    BY <2>1, <2>2
<1>6. ASSUME NEW n \in Nat, n \in Good PROVE n + 1 \in Good
  <2> SUFFICES ASSUME NEW s \in SUBSET S, Cardinality(s) = n + 1 PROVE Bounds(s)
    OBVIOUS
  <2> DEFINE x == CHOOSE y \in s : TRUE
  <2>1. s # {}
    BY FS_EmptySet
  <2>2. x \in s /\ iter[s] = f[x] + iter[s \ {x}]
    <3>1. x \in s
      BY <2>1
    <3> QED
      BY <1>3, <2>1, <3>1 DEF SumRule
  <2> HIDE DEF x
  <2>3. Cardinality(s \ {x}) = n
    <3>1. IsFiniteSet(s)
      BY <1>4
    <3>2. Cardinality(s \ {x}) = Cardinality(s) - 1
      BY <2>2, <3>1, FS_RemoveElement
    <3> QED
      BY <3>2
  <2>4. Bounds(s \ {x})
    BY <1>6, <2>3
  <2>5. f[x] \in Nat /\ iter[s \ {x}] \in Nat
    BY <2>2, <2>4
  <2>6. ASSUME NEW y \in s PROVE f[y] <= iter[s]
    <3>1. CASE y = x
      BY <2>2, <2>5, <3>1
    <3>2. CASE y # x
      <4>1. y \in s \ {x} /\ f[y] \in Nat
        BY <3>2
      <4>2. f[y] <= iter[s \ {x}]
        BY <2>4, <4>1
      <4> QED
        BY <2>2, <2>5, <4>1, <4>2
    <3> QED
      BY <3>1, <3>2
  <2> QED
    BY <2>2, <2>5, <2>6
<1>7. Nat \subseteq Good
  <2> HIDE DEF Good
  <2> QED
    BY <1>5, <1>6, NatSetInduction
<1>8. Bounds(S)
  BY <1>4, <1>7
<1> QED
  BY <1>2, <1>8

-----------------------------------------------------------------------------
(* Sequences: bytes that move from one to the next, and runs of bytes.     *)

LEMMA FrontIs ==
  ASSUME NEW S, NEW b \in Seq(S), NEW n \in 0 .. Len(b)
  PROVE  /\ SubSeq(b, 1, n) \in Seq(S) /\ Len(SubSeq(b, 1, n)) = n
         /\ SubSeq(b, n + 1, Len(b)) \in Seq(S)
         /\ Len(SubSeq(b, n + 1, Len(b))) = Len(b) - n
<1>0. Len(b) \in Nat /\ n \in Nat /\ n <= Len(b) /\ n + 1 \in Int /\ 1 \in Int
  BY LenProperties
<1>1. \A i \in 1 .. Len(b) : b[i] \in S
  BY ElementOfSeq
<1>2. SubSeq(b, 1, n) \in Seq(S) /\ Len(SubSeq(b, 1, n)) = n
  <2>1. \A i \in 1 .. n : b[i] \in S
    BY <1>0, <1>1
  <2>2. /\ SubSeq(b, 1, n) \in Seq(S)
        /\ Len(SubSeq(b, 1, n)) = IF 1 <= n THEN n - 1 + 1 ELSE 0
    BY <1>0, <2>1, SubSeqProperties
  <2> QED
    BY <1>0, <2>2
<1>3. /\ SubSeq(b, n + 1, Len(b)) \in Seq(S)
      /\ Len(SubSeq(b, n + 1, Len(b))) = Len(b) - n
  <2>1. \A i \in n + 1 .. Len(b) : b[i] \in S
    BY <1>0, <1>1
  <2>2. /\ SubSeq(b, n + 1, Len(b)) \in Seq(S)
        /\ Len(SubSeq(b, n + 1, Len(b))) =
             IF n + 1 <= Len(b) THEN Len(b) - (n + 1) + 1 ELSE 0
    BY <1>0, <2>1, SubSeqProperties
  <2> QED
    BY <1>0, <2>2
<1> QED
  BY <1>2, <1>3

LEMMA FrontAndRest ==
  ASSUME NEW S, NEW b \in Seq(S), NEW n \in 0 .. Len(b)
  PROVE  SubSeq(b, 1, n) \o SubSeq(b, n + 1, Len(b)) = b
<1>1. Len(b) \in Nat /\ n \in Nat /\ n <= Len(b)
  BY LenProperties
<1>2. /\ 1 \in 1 .. Len(b) + 1 /\ n \in 1 - 1 .. Len(b)
      /\ Len(b) \in n .. Len(b)
  BY <1>1
<1>3. SubSeq(b, 1, n) \o SubSeq(b, n + 1, Len(b)) = SubSeq(b, 1, Len(b))
  BY <1>2, ConcatAdjacentSubSeq
<1> QED
  BY <1>3, SubSeqFull

LEMMA MoveFront ==
  ASSUME NEW S, NEW a \in Seq(S), NEW b \in Seq(S), NEW n \in 0 .. Len(b)
  PROVE  (a \o SubSeq(b, 1, n)) \o SubSeq(b, n + 1, Len(b)) = a \o b
<1>2. SubSeq(b, 1, n) \o SubSeq(b, n + 1, Len(b)) = b
  BY FrontAndRest
<1>3. (a \o SubSeq(b, 1, n)) \o SubSeq(b, n + 1, Len(b))
        = a \o (SubSeq(b, 1, n) \o SubSeq(b, n + 1, Len(b)))
  <2> DEFINE front == SubSeq(b, 1, n)
             rest  == SubSeq(b, n + 1, Len(b))
  <2>1. front \in Seq(S) /\ rest \in Seq(S)
    BY FrontIs
  <2> HIDE DEF front, rest
  <2>2. (a \o front) \o rest = a \o (front \o rest)
    BY <2>1, ConcatAssociative
  <2> QED
    BY <2>2 DEF front, rest
<1> QED
  BY <1>2, <1>3

LEMMA ConcatAppend ==
  ASSUME NEW S, NEW a \in Seq(S), NEW b \in Seq(S), NEW e \in S
  PROVE  a \o Append(b, e) = Append(a \o b, e)
<1>1. Append(b, e) = b \o <<e>> /\ Append(a \o b, e) = (a \o b) \o <<e>>
  BY ConcatProperties, AppendIsConcat
<1>2. <<e>> \in Seq(S)
  OBVIOUS
<1> QED
  BY <1>1, <1>2, ConcatAssociative

(* The bytes that end with the k-th.                                       *)
EndsAt(q, k) == q = [i \in 1 .. Len(q) |-> k - Len(q) + i]

LEMMA EndGrows ==
  ASSUME NEW S, NEW q \in Seq(S), NEW k \in Nat, EndsAt(q, k), k + 1 \in S
  PROVE  EndsAt(Append(q, k + 1), k + 1)
<1> DEFINE r == Append(q, k + 1)
<1>1. /\ r \in Seq(S) /\ Len(r) = Len(q) + 1 /\ r[Len(q) + 1] = k + 1
      /\ \A i \in 1 .. Len(q) : r[i] = q[i]
  BY AppendProperties
<1>2. Len(q) \in Nat /\ \A i \in 1 .. Len(q) : q[i] = k - Len(q) + i
  BY LenProperties DEF EndsAt
<1>3. DOMAIN r = 1 .. Len(r) /\ r = [i \in DOMAIN r |-> r[i]]
  BY <1>1, LenProperties
<1> HIDE DEF r
<1>4. \A i \in 1 .. Len(r) : r[i] = (k + 1) - Len(r) + i
  BY <1>1, <1>2
<1> QED
  BY <1>3, <1>4 DEF EndsAt, r

LEMMA RunGrows ==
  ASSUME NEW S, NEW n \in Nat, NEW q \in Seq(S), q = [i \in 1 .. n |-> i], n + 1 \in S
  PROVE  Append(q, n + 1) = [i \in 1 .. n + 1 |-> i]
<1>1. Len(q) = n
  <2>1. DOMAIN q = 1 .. n /\ DOMAIN q = 1 .. Len(q) /\ Len(q) \in Nat
    BY LenProperties
  <2> DEFINE m == Len(q)
  <2>2. m \in Nat /\ 1 .. m = 1 .. n
    BY <2>1
  <2> HIDE DEF m
  <2>3. m = n
    BY <2>2
  <2> QED
    BY <2>3 DEF m
<1>2. EndsAt(q, n)
  BY <1>1 DEF EndsAt
<1>3. EndsAt(Append(q, n + 1), n + 1)
  BY <1>2, EndGrows, Zenon
<1>4. Len(Append(q, n + 1)) = n + 1
  BY <1>1, AppendProperties
<1> DEFINE r == Append(q, n + 1)
<1>5. r = [i \in 1 .. n + 1 |-> (n + 1) - (n + 1) + i]
  BY <1>3, <1>4 DEF EndsAt
<1> QED
  BY <1>5

LEMMA RangeOfConcat ==
  ASSUME NEW S, NEW a \in Seq(S), NEW b \in Seq(S)
  PROVE  Range(a \o b) = Range(a) \cup Range(b)
<1> DEFINE c == a \o b
<1>1. /\ c \in Seq(S) /\ Len(c) = Len(a) + Len(b)
      /\ \A i \in 1 .. Len(a) + Len(b) :
           c[i] = IF i <= Len(a) THEN a[i] ELSE b[i - Len(a)]
  BY ConcatProperties
<1>2. /\ DOMAIN a = 1 .. Len(a) /\ DOMAIN b = 1 .. Len(b) /\ DOMAIN c = 1 .. Len(c)
      /\ Len(a) \in Nat /\ Len(b) \in Nat
  BY <1>1, LenProperties
<1> HIDE DEF c
<1>3. ASSUME NEW i \in 1 .. Len(a) PROVE i \in 1 .. Len(c) /\ c[i] = a[i]
  BY <1>1, <1>2
<1>4. ASSUME NEW i \in 1 .. Len(b)
      PROVE  i + Len(a) \in 1 .. Len(c) /\ c[i + Len(a)] = b[i]
  <2>1. i + Len(a) \in 1 .. Len(a) + Len(b) /\ ~ (i + Len(a) <= Len(a))
        /\ (i + Len(a)) - Len(a) = i
    BY <1>2
  <2> QED
    BY <1>1, <2>1
<1>5. ASSUME NEW i \in 1 .. Len(c) PROVE c[i] \in Range(a) \cup Range(b)
  <2>1. CASE i <= Len(a)
    <3>1. i \in DOMAIN a /\ c[i] = a[i]
      BY <1>1, <1>2, <2>1
    <3> QED
      BY <3>1 DEF Range
  <2>2. CASE ~ (i <= Len(a))
    <3>1. i - Len(a) \in 1 .. Len(b)
      BY <1>1, <1>2, <2>2
    <3> QED
      BY <1>1, <1>2, <2>2, <3>1 DEF Range
  <2> QED
    BY <2>1, <2>2
<1>6. Range(c) \subseteq Range(a) \cup Range(b)
  BY <1>2, <1>5 DEF Range
<1>7. Range(a) \subseteq Range(c)
  BY <1>2, <1>3 DEF Range
<1>8. Range(b) \subseteq Range(c)
  BY <1>2, <1>4 DEF Range
<1> QED
  BY <1>6, <1>7, <1>8 DEF c

LEMMA ConcatIsInjective ==
  ASSUME NEW S, NEW a \in Seq(S), NEW b \in Seq(S), IsInjective(a), IsInjective(b),
         Range(a) \cap Range(b) = {}
  PROVE  IsInjective(a \o b)
<1> DEFINE c == a \o b
<1>1. /\ c \in Seq(S) /\ Len(c) = Len(a) + Len(b)
      /\ \A i \in 1 .. Len(a) + Len(b) :
           c[i] = IF i <= Len(a) THEN a[i] ELSE b[i - Len(a)]
  BY ConcatProperties
<1>2. /\ DOMAIN a = 1 .. Len(a) /\ DOMAIN b = 1 .. Len(b) /\ DOMAIN c = 1 .. Len(c)
      /\ Len(a) \in Nat /\ Len(b) \in Nat
  BY <1>1, LenProperties
<1> HIDE DEF c
<1>3. ASSUME NEW i \in 1 .. Len(c), i <= Len(a)
      PROVE  c[i] = a[i] /\ i \in DOMAIN a /\ c[i] \in Range(a)
  BY <1>1, <1>2, <1>3 DEF Range
<1>4. ASSUME NEW i \in 1 .. Len(c), ~ (i <= Len(a))
      PROVE  /\ c[i] = b[i - Len(a)] /\ i - Len(a) \in DOMAIN b /\ c[i] \in Range(b)
  <2>1. i - Len(a) \in 1 .. Len(b) /\ c[i] = b[i - Len(a)]
    BY <1>1, <1>2, <1>4
  <2> QED
    BY <1>2, <2>1 DEF Range
<1>5. ASSUME NEW i \in 1 .. Len(c), NEW j \in 1 .. Len(c), c[i] = c[j]
      PROVE  i = j
  <2>1. CASE i <= Len(a) /\ j <= Len(a)
    BY <1>3, <1>5, <2>1 DEF IsInjective
  <2>2. CASE ~ (i <= Len(a)) /\ ~ (j <= Len(a))
    <3>1. i - Len(a) = j - Len(a)
      BY <1>4, <1>5, <2>2 DEF IsInjective
    <3> QED
      BY <1>2, <3>1
  <2>3. CASE (i <= Len(a)) # (j <= Len(a))
    BY <1>3, <1>4, <1>5, <2>3
  <2> QED
    BY <2>1, <2>2, <2>3
<1> QED
  BY <1>2, <1>5 DEF IsInjective, c

(* An order of a finite set has each of its elements once.                 *)
LEMMA OrderHasAll ==
  ASSUME NEW S, IsFiniteSet(S), NEW order \in SetToSeqs(S)
  PROVE  order \in Seq(S) /\ IsInjective(order) /\ Range(order) = S
<1> DEFINE n == Cardinality(S)
<1>1. n \in Nat
  BY FS_CardinalityType
<1>2. /\ order \in [1 .. n -> S]
      /\ \A i, j \in 1 .. n : i # j => order[i] # order[j]
  BY DEF SetToSeqs
<1>3. IsInjective(order) /\ order \in Injection(1 .. n, S)
  BY <1>2 DEF IsInjective, Injection
<1>4. IsFiniteSet(1 .. n) /\ Cardinality(1 .. n) = Cardinality(S)
  <2> HIDE DEF n
  <2>1. /\ IsFiniteSet(1 .. n)
        /\ Cardinality(1 .. n) = IF 1 > n THEN 0 ELSE n - 1 + 1
    BY <1>1, FS_Interval
  <2> QED
    BY <1>1, <2>1 DEF n
<1> HIDE DEF n
<1>5. order \in Surjection(1 .. n, S)
  BY <1>3, <1>4, FS_Injection
<1>6. order \in Seq(S)
  BY <1>1, <1>2, SeqDef
<1> QED
  BY <1>2, <1>3, <1>5, <1>6 DEF Surjection, Range

-----------------------------------------------------------------------------
(* The inductive invariant                                                 *)

Values == 1 .. MaxBytes
Bytes  == Seq(Values)

Types ==
  /\ symbol \in Namings
  /\ listening \subseteq Listeners /\ accepted \subseteq listening
  /\ sessions \in Seq(Sockets) /\ IsInjective(sessions)
  /\ connected \subseteq InVector
  /\ recvBuff \in [Sockets -> Bytes] /\ sendBuff \in [Sockets -> Bytes]
  /\ mapRecv \in [Symbols -> Bytes] /\ mapSend \in [Symbols -> Bytes]
  /\ selector \in [at     : {"off", "top", "select", "serve"},
                   reads  : SUBSET (Listeners \cup Sockets),
                   writes : SUBSET Sockets]
  /\ link \in [Sockets -> {"down", "waiting", "up", "closed", "gone"}]
  /\ wire \in [Sockets -> Bytes] /\ got \in [Sockets -> Bytes]
  /\ sent \in [Sockets -> 0 .. MaxBytes]
  /\ readBy \in [Symbols -> Bytes] /\ written \in [Symbols -> 0 .. MaxBytes]

(* A guest becomes a session when it is accepted, and stays connected.     *)
Links ==
  /\ \A c \in Clients : link[c] \in {"down", "up", "closed"}
  /\ \A g \in Guests : g \in InVector => link[g] \in {"up", "closed"}

(* No buffer holds more than was sent or written.                          *)
Bounds ==
  \A s \in Sockets :
    /\ Len(recvBuff[s]) + Len(wire[s]) <= sent[s]
    /\ Len(got[s]) + Len(sendBuff[s]) + Len(mapSend[SymbolOf(s)])
         <= written[SymbolOf(s)]

(* What Update has not yet taken is the end of what was written.           *)
Pending ==
  \A y \in Symbols :
    EndsAt(mapSend[y], written[y]) /\ Len(mapSend[y]) <= written[y]

(* A socket that is no session was not read from.                          *)
Fresh ==
  \A s \in Sockets :
    s \notin InVector =>
      /\ recvBuff[s] = <<>>
      /\ link[s] # "gone" => wire[s] = [i \in 1 .. sent[s] |-> i]

(* Only a connected session, the first of its symbol, is written to.       *)
OnlyFirst ==
  \A s \in Sockets :
    (s \notin connected \/ ~ IsFirst(s)) => got[s] = <<>> /\ sendBuff[s] = <<>>

(* Nothing is read for a symbol that no session has.                       *)
Unnamed ==
  \A y \in Symbols : ~ HasSession(y) => readBy[y] = <<>> /\ mapRecv[y] = <<>>

(* The two streams of a session, from the one end to the other.            *)
Incoming(s) == readBy[SymbolOf(s)] \o mapRecv[SymbolOf(s)] \o recvBuff[s] \o wire[s]
Outgoing(s) == got[s] \o sendBuff[s] \o mapSend[SymbolOf(s)]

InOrder ==
  \A s \in Sockets :
    (s \in InVector /\ IsOnly(s)) => Incoming(s) = [i \in 1 .. sent[s] |-> i]

OutOrder ==
  \A s \in Sockets :
    (s \in InVector /\ IsOnly(s)) => EndsAt(Outgoing(s), written[SymbolOf(s)])

Inv ==
  /\ Types /\ Links /\ Bounds /\ Pending /\ Fresh /\ OnlyFirst /\ Unnamed
  /\ InOrder /\ OutOrder

LEMMA InVectorIs ==
  ASSUME Types
  PROVE  /\ Len(sessions) \in Nat
         /\ \A i \in 1 .. Len(sessions) : sessions[i] \in InVector
         /\ \A s \in InVector : \E i \in 1 .. Len(sessions) : sessions[i] = s
         /\ InVector \subseteq Sockets /\ connected \subseteq Sockets
<1>1. /\ sessions \in [1 .. Len(sessions) -> Sockets]
      /\ DOMAIN sessions = 1 .. Len(sessions) /\ Len(sessions) \in Nat
  BY LenProperties DEF Types
<1> QED
  BY <1>1 DEF InVector, Range, Types

LEMMA SymbolIs ==
  ASSUME Types, NEW s \in Sockets
  PROVE  SymbolOf(s) \in Symbols
<1>1. Origin(s) \in Listeners \cup Clients
  BY ServerHelperAssumption DEF Origin, Sockets
<1>2. DOMAIN symbol = Listeners \cup Clients /\ symbol \in Namings
  BY ServerHelperAssumption DEF Types
<1> QED
  BY <1>1, <1>2 DEF SymbolOf, Symbols, Range

-----------------------------------------------------------------------------
(* What Update collects for a symbol.                                      *)

CollectRule(y, f, i) ==
  IF i = 0 THEN mapRecv[y]
  ELSE IF SymbolOf(sessions[i]) = y THEN f[i - 1] \o recvBuff[sessions[i]]
  ELSE f[i - 1]

IsUpto(y, n, f) == f = [i \in 0 .. n |-> CollectRule(y, f, i)]

LEMMA UptoExists ==
  ASSUME NEW y, NEW n \in Nat
  PROVE  \E f : IsUpto(y, n, f)
<1> DEFINE Good == {k \in Nat : \E f : IsUpto(y, k, f)}
<1>1. 0 \in Good
  <2> DEFINE f == [i \in 0 .. 0 |-> mapRecv[y]]
  <2>1. f = [i \in 0 .. 0 |-> CollectRule(y, f, i)]
    BY DEF CollectRule
  <2>2. IsUpto(y, 0, f)
    BY <2>1 DEF IsUpto
  <2> QED
    BY <2>2
<1>2. ASSUME NEW k \in Nat, k \in Good PROVE k + 1 \in Good
  <2>1. PICK g : IsUpto(y, k, g)
    BY <1>2
  <2> DEFINE h == [i \in 0 .. k + 1 |-> CollectRule(y, g, i)]
  <2>2. \A i \in 0 .. k : g[i] = CollectRule(y, g, i)
    BY <2>1 DEF IsUpto
  <2>3. \A i \in 0 .. k : h[i] = g[i]
    BY <2>2
  <2>4. \A i \in 0 .. k + 1 : h[i] = CollectRule(y, g, i)
    OBVIOUS
  <2>5. DOMAIN h = 0 .. k + 1 /\ h = [i \in DOMAIN h |-> h[i]]
    OBVIOUS
  <2> HIDE DEF h
  <2>6. \A i \in 0 .. k + 1 : CollectRule(y, h, i) = CollectRule(y, g, i)
    <3> SUFFICES ASSUME NEW i \in 0 .. k + 1
                 PROVE  CollectRule(y, h, i) = CollectRule(y, g, i)
      OBVIOUS
    <3>1. CASE i = 0
      BY <3>1 DEF CollectRule
    <3>2. CASE i # 0
      <4>1. i - 1 \in 0 .. k
        BY <3>2
      <4>2. h[i - 1] = g[i - 1]
        BY <2>3, <4>1
      <4> QED
        BY <4>2 DEF CollectRule
    <3> QED
      BY <3>1, <3>2
  <2>7. IsUpto(y, k + 1, h)
    BY <2>4, <2>5, <2>6 DEF IsUpto
  <2>8. k + 1 \in Nat
    OBVIOUS
  <2> QED
    BY <2>7, <2>8
<1> HIDE DEF Good
<1>3. Nat \subseteq Good
  BY <1>1, <1>2, NatSetInduction
<1> QED
  BY <1>3 DEF Good

LEMMA CollectedIsUpto ==
  ASSUME NEW y, Types
  PROVE  \E f : IsUpto(y, Len(sessions), f) /\ Collected(y) = f[Len(sessions)]
<1> DEFINE f == CHOOSE g : IsUpto(y, Len(sessions), g)
<1>1. Len(sessions) \in Nat
  BY InVectorIs
<1>2. IsUpto(y, Len(sessions), f)
  BY <1>1, UptoExists
<1>3. Collected(y) = f[Len(sessions)]
  BY DEF Collected, IsUpto, CollectRule
<1> QED
  BY <1>2, <1>3

LEMMA CollectedType ==
  ASSUME Types, NEW y \in Symbols
  PROVE  Collected(y) \in Bytes
<1> DEFINE n == Len(sessions)
<1>1. PICK f : IsUpto(y, n, f) /\ Collected(y) = f[n]
  BY CollectedIsUpto
<1>2. n \in Nat /\ \A i \in 1 .. n : sessions[i] \in Sockets
  BY InVectorIs
<1> HIDE DEF n
<1>3. \A i \in 0 .. n : f[i] = CollectRule(y, f, i)
  BY <1>1 DEF IsUpto
<1> DEFINE Good == {k \in Nat : k <= n => f[k] \in Bytes}
<1>4. 0 \in Good
  BY <1>2, <1>3 DEF CollectRule, Types
<1>5. ASSUME NEW k \in Nat, k \in Good PROVE k + 1 \in Good
  <2> SUFFICES ASSUME k + 1 <= n PROVE f[k + 1] \in Bytes
    OBVIOUS
  <2>1. k + 1 \in 0 .. n /\ k + 1 # 0 /\ (k + 1) - 1 = k /\ k + 1 \in 1 .. n /\ k <= n
    BY <1>2
  <2>2. f[k] \in Bytes
    BY <1>5, <2>1
  <2>3. recvBuff[sessions[k + 1]] \in Bytes
    BY <1>2, <2>1 DEF Types
  <2>4. f[k] \o recvBuff[sessions[k + 1]] \in Bytes
    BY <2>2, <2>3, ConcatProperties DEF Bytes
  <2>5. f[k + 1] \in {f[k] \o recvBuff[sessions[k + 1]], f[k]}
    BY <1>3, <2>1 DEF CollectRule
  <2> QED
    BY <2>2, <2>4, <2>5
<1> HIDE DEF Good
<1>6. Nat \subseteq Good
  BY <1>4, <1>5, NatSetInduction
<1> QED
  BY <1>1, <1>2, <1>6 DEF Good

(* No session, or one only, adds to what Update collects for y.            *)
LEMMA CollectedUpto ==
  ASSUME Types, NEW y \in Symbols, NEW i \in 0 .. Len(sessions),
         \A j \in 1 .. Len(sessions) : j # i => SymbolOf(sessions[j]) # y,
         i = 0 \/ SymbolOf(sessions[i]) = y
  PROVE  Collected(y) = IF i = 0 THEN mapRecv[y]
                        ELSE mapRecv[y] \o recvBuff[sessions[i]]
<1> DEFINE n == Len(sessions)
           Upto(k) == IF i = 0 \/ k < i THEN mapRecv[y]
                      ELSE mapRecv[y] \o recvBuff[sessions[i]]
<1>1. PICK f : IsUpto(y, n, f) /\ Collected(y) = f[n]
  BY CollectedIsUpto
<1>2. n \in Nat /\ i \in 0 .. n
  BY InVectorIs
<1>a. \A j \in 1 .. n : j # i => SymbolOf(sessions[j]) # y
  OBVIOUS
<1> HIDE DEF n
<1>3. \A j \in 0 .. n : f[j] = CollectRule(y, f, j)
  BY <1>1 DEF IsUpto
<1> DEFINE Good == {k \in Nat : k <= n => f[k] = Upto(k)}
<1>4. 0 \in Good
  <2>1. f[0] = mapRecv[y]
    BY <1>2, <1>3 DEF CollectRule
  <2>2. Upto(0) = mapRecv[y]
    BY <1>2
  <2> QED
    BY <2>1, <2>2
<1>5. ASSUME NEW k \in Nat, k \in Good PROVE k + 1 \in Good
  <2> SUFFICES ASSUME k + 1 <= n PROVE f[k + 1] = Upto(k + 1)
    OBVIOUS
  <2>1. k + 1 \in 0 .. n /\ k + 1 # 0 /\ (k + 1) - 1 = k /\ k + 1 \in 1 .. n /\ k <= n
    BY <1>2
  <2>2. f[k] = Upto(k)
    BY <1>5, <2>1
  <2>3. f[k + 1] = IF SymbolOf(sessions[k + 1]) = y THEN f[k] \o recvBuff[sessions[k + 1]]
                   ELSE f[k]
    BY <1>3, <2>1 DEF CollectRule
  <2>4. CASE k + 1 = i
    <3>1. SymbolOf(sessions[k + 1]) = y /\ i # 0 /\ k < i /\ ~ (i < i)
      BY <1>2, <2>1, <2>4
    <3>2. f[k] = mapRecv[y]
      BY <2>2, <3>1
    <3>3. f[k + 1] = mapRecv[y] \o recvBuff[sessions[i]]
      BY <2>3, <2>4, <3>1, <3>2
    <3>4. Upto(i) = mapRecv[y] \o recvBuff[sessions[i]]
      BY <3>1
    <3> QED
      BY <2>4, <3>3, <3>4
  <2>5. CASE k + 1 # i
    <3>1. f[k + 1] = f[k]
      BY <1>a, <2>1, <2>3, <2>5
    <3>2. k < i <=> k + 1 < i
      BY <1>2, <2>5
    <3> QED
      BY <2>2, <3>1, <3>2
  <2> QED
    BY <2>4, <2>5
<1>6. Nat \subseteq Good
  <2> HIDE DEF Good
  <2> QED
    BY <1>4, <1>5, NatSetInduction
<1>7. f[n] = Upto(n)
  BY <1>2, <1>6
<1>8. n < i <=> FALSE
  BY <1>2
<1> QED
  BY <1>1, <1>7, <1>8

LEMMA CollectedNone ==
  ASSUME Types, NEW y \in Symbols, ~ HasSession(y)
  PROVE  Collected(y) = mapRecv[y]
<1>1. 0 \in 0 .. Len(sessions)
  BY InVectorIs
<1>2. \A j \in 1 .. Len(sessions) : SymbolOf(sessions[j]) # y
  BY InVectorIs DEF HasSession
<1> QED
  BY <1>1, <1>2, CollectedUpto

LEMMA CollectedOnly ==
  ASSUME Types, NEW s \in InVector, IsOnly(s)
  PROVE  Collected(SymbolOf(s)) = mapRecv[SymbolOf(s)] \o recvBuff[s]
<1>1. PICK i \in 1 .. Len(sessions) : sessions[i] = s
  BY InVectorIs
<1>2. i \in 0 .. Len(sessions) /\ i # 0 /\ SymbolOf(s) \in Symbols
  BY InVectorIs, SymbolIs
<1>3. ASSUME NEW j \in 1 .. Len(sessions), j # i
      PROVE  SymbolOf(sessions[j]) # SymbolOf(s)
  <2>1. sessions[j] # s
    <3>1. DOMAIN sessions = 1 .. Len(sessions)
      BY LenProperties DEF Types
    <3> QED
      BY <1>1, <1>3, <3>1 DEF Types, IsInjective
  <2> QED
    BY <2>1, InVectorIs DEF IsOnly
<1> QED
  BY <1>1, <1>2, <1>3, CollectedUpto

LEMMA OnlyIsFirst ==
  ASSUME Types, NEW s \in InVector, IsOnly(s)
  PROVE  IsFirst(s)
<1>1. PICK i \in 1 .. Len(sessions) : sessions[i] = s
  BY InVectorIs
<1>2. ASSUME NEW j \in 1 .. i - 1 PROVE SymbolOf(sessions[j]) # SymbolOf(s)
  <2>1. j \in 1 .. Len(sessions) /\ j # i
    BY <1>1, InVectorIs
  <2>2. sessions[j] # s
    <3>1. DOMAIN sessions = 1 .. Len(sessions)
      BY LenProperties DEF Types
    <3> QED
      BY <1>1, <2>1, <3>1 DEF Types, IsInjective
  <2> QED
    BY <2>1, <2>2, InVectorIs DEF IsOnly
<1> QED
  BY <1>1, <1>2 DEF IsFirst

(* Two sessions of a symbol are not both the first.                        *)
LEMMA OneIsFirst ==
  ASSUME Types, NEW s \in InVector, NEW u \in InVector, IsFirst(s), IsFirst(u),
         SymbolOf(s) = SymbolOf(u)
  PROVE  s = u
<1>1. PICK i \in 1 .. Len(sessions) :
        sessions[i] = s /\ \A k \in 1 .. i - 1 : SymbolOf(sessions[k]) # SymbolOf(s)
  BY DEF IsFirst
<1>2. PICK j \in 1 .. Len(sessions) :
        sessions[j] = u /\ \A k \in 1 .. j - 1 : SymbolOf(sessions[k]) # SymbolOf(u)
  BY DEF IsFirst
<1>3. i \in Nat /\ j \in Nat
  BY InVectorIs
<1>4. ~ (i < j)
  <2> SUFFICES ASSUME i < j PROVE FALSE
    OBVIOUS
  <2>1. i \in 1 .. j - 1
    BY <1>3
  <2> QED
    BY <1>1, <1>2, <2>1
<1>5. ~ (j < i)
  <2> SUFFICES ASSUME j < i PROVE FALSE
    OBVIOUS
  <2>1. j \in 1 .. i - 1
    BY <1>3
  <2> QED
    BY <1>1, <1>2, <2>1
<1>6. i = j
  BY <1>3, <1>4, <1>5
<1> QED
  BY <1>1, <1>2, <1>6

-----------------------------------------------------------------------------
(* A part of the invariant stays as it is when its variables do.           *)

LEMMA SymbolSame ==
  ASSUME UNCHANGED symbol
  PROVE  \A s : SymbolOf(s)' = SymbolOf(s)
  BY DEF SymbolOf, Origin

LEMMA SessionsSame ==
  ASSUME UNCHANGED <<symbol, sessions>>
  PROVE  /\ InVector' = InVector
         /\ \A s : IsFirst(s)' = IsFirst(s)
         /\ \A y : HasSession(y)' = HasSession(y)
         /\ \A s : IsOnly(s)' = IsOnly(s)
<1>1. InVector' = InVector
  BY DEF InVector
<1>2. \A s : SymbolOf(s)' = SymbolOf(s)
  BY SymbolSame
<1>3. \A s : IsFirst(s)' = IsFirst(s)
  BY <1>2 DEF IsFirst
<1>4. \A y : HasSession(y)' = HasSession(y)
  BY <1>1, <1>2 DEF HasSession
<1>5. \A s : IsOnly(s)' = IsOnly(s)
  BY <1>1, <1>2 DEF IsOnly
<1> QED
  BY <1>1, <1>3, <1>4, <1>5

LEMMA LinksSame ==
  ASSUME Links, UNCHANGED <<link, sessions>>
  PROVE  Links'
  BY DEF Links, InVector

LEMMA BoundsSame ==
  ASSUME Bounds, UNCHANGED <<symbol, recvBuff, wire, sent, got, sendBuff, mapSend, written>>
  PROVE  Bounds'
  BY SymbolSame DEF Bounds

LEMMA PendingSame ==
  ASSUME Pending, UNCHANGED <<mapSend, written>>
  PROVE  Pending'
  BY DEF Pending, EndsAt

LEMMA FreshSame ==
  ASSUME Fresh, UNCHANGED <<sessions, recvBuff, link, wire, sent>>
  PROVE  Fresh'
  BY DEF Fresh, InVector

LEMMA OnlyFirstSame ==
  ASSUME OnlyFirst, UNCHANGED <<symbol, sessions, connected, got, sendBuff>>
  PROVE  OnlyFirst'
  BY SessionsSame DEF OnlyFirst

LEMMA UnnamedSame ==
  ASSUME Unnamed, UNCHANGED <<symbol, sessions, readBy, mapRecv>>
  PROVE  Unnamed'
  BY SessionsSame DEF Unnamed

LEMMA InOrderSame ==
  ASSUME InOrder, UNCHANGED <<symbol, sessions, sent>>,
         \A s \in Sockets : s \in InVector => Incoming(s)' = Incoming(s)
  PROVE  InOrder'
  BY SessionsSame DEF InOrder

LEMMA OutOrderSame ==
  ASSUME OutOrder, UNCHANGED <<symbol, sessions, written>>,
         \A s \in Sockets : s \in InVector => Outgoing(s)' = Outgoing(s)
  PROVE  OutOrder'
<1>1. \A s : SymbolOf(s)' = SymbolOf(s)
  BY SymbolSame
<1> QED
  BY <1>1, SessionsSame DEF OutOrder, EndsAt

LEMMA IncomingSame ==
  ASSUME UNCHANGED <<symbol, readBy, mapRecv, recvBuff, wire>>
  PROVE  \A s : Incoming(s)' = Incoming(s)
  BY SymbolSame DEF Incoming

LEMMA OutgoingSame ==
  ASSUME UNCHANGED <<symbol, got, sendBuff, mapSend>>
  PROVE  \A s : Outgoing(s)' = Outgoing(s)
  BY SymbolSame DEF Outgoing

(* Bytes that are erased in front have gone to the end of another buffer.  *)
LEMMA FrontErased ==
  ASSUME NEW a \in Bytes, NEW b \in Bytes, NEW n \in 0 .. Len(b)
  PROVE  /\ SubSeq(b, 1, n) \in Bytes /\ Len(SubSeq(b, 1, n)) = n
         /\ Erase(b, n) \in Bytes /\ Len(Erase(b, n)) = Len(b) - n
         /\ (a \o SubSeq(b, 1, n)) \o Erase(b, n) = a \o b
<1>1. a \in Seq(Values) /\ b \in Seq(Values)
  BY DEF Bytes
<1>2. SubSeq(b, 1, n) \in Seq(Values) /\ Len(SubSeq(b, 1, n)) = n
  BY <1>1, FrontIs
<1>3. /\ SubSeq(b, n + 1, Len(b)) \in Seq(Values)
      /\ Len(SubSeq(b, n + 1, Len(b))) = Len(b) - n
  BY <1>1, FrontIs
<1>4. (a \o SubSeq(b, 1, n)) \o SubSeq(b, n + 1, Len(b)) = a \o b
  BY <1>1, MoveFront, Zenon
<1> QED
  BY <1>2, <1>3, <1>4 DEF Erase, Bytes

(* The types of the streams of a socket.                                   *)
LEMMA StreamsAre ==
  ASSUME Types, NEW s \in Sockets
  PROVE  /\ SymbolOf(s) \in Symbols
         /\ recvBuff[s] \in Bytes /\ wire[s] \in Bytes
         /\ got[s] \in Bytes /\ sendBuff[s] \in Bytes
         /\ mapRecv[SymbolOf(s)] \in Bytes /\ mapSend[SymbolOf(s)] \in Bytes
         /\ readBy[SymbolOf(s)] \in Bytes
         /\ readBy[SymbolOf(s)] \o mapRecv[SymbolOf(s)] \in Bytes
         /\ readBy[SymbolOf(s)] \o mapRecv[SymbolOf(s)] \o recvBuff[s] \in Bytes
         /\ got[s] \o sendBuff[s] \in Bytes
         /\ Incoming(s) \in Bytes /\ Outgoing(s) \in Bytes
<1>1. SymbolOf(s) \in Symbols
  BY SymbolIs
<1>2. /\ recvBuff[s] \in Bytes /\ wire[s] \in Bytes
      /\ got[s] \in Bytes /\ sendBuff[s] \in Bytes
  BY DEF Types
<1>3. /\ mapRecv[SymbolOf(s)] \in Bytes /\ mapSend[SymbolOf(s)] \in Bytes
      /\ readBy[SymbolOf(s)] \in Bytes
  BY <1>1 DEF Types
<1>4. readBy[SymbolOf(s)] \o mapRecv[SymbolOf(s)] \in Bytes
  BY <1>3, ConcatProperties DEF Bytes
<1>5. readBy[SymbolOf(s)] \o mapRecv[SymbolOf(s)] \o recvBuff[s] \in Bytes
  BY <1>2, <1>4, ConcatProperties DEF Bytes
<1>6. got[s] \o sendBuff[s] \in Bytes
  BY <1>2, ConcatProperties DEF Bytes
<1>7. Incoming(s) \in Bytes
  BY <1>2, <1>5, ConcatProperties DEF Bytes, Incoming
<1>8. Outgoing(s) \in Bytes
  BY <1>3, <1>6, ConcatProperties DEF Bytes, Outgoing
<1> QED
  BY <1>1, <1>2, <1>3, <1>4, <1>5, <1>6, <1>7, <1>8

(* Lengths are numbers.                                                    *)
LEMMA LengthsAre ==
  ASSUME Types, NEW s \in Sockets
  PROVE  /\ Len(recvBuff[s]) \in Nat /\ Len(wire[s]) \in Nat
         /\ Len(got[s]) \in Nat /\ Len(sendBuff[s]) \in Nat
         /\ Len(mapSend[SymbolOf(s)]) \in Nat
  BY StreamsAre, LenProperties DEF Bytes

-----------------------------------------------------------------------------
(* Every step keeps the invariant.                                         *)

LEMMA InitKeeps ==
  ASSUME Init
  PROVE  Inv
<1>1. <<>> \in Bytes /\ Len(<<>>) = 0 /\ <<>> = [i \in 1 .. 0 |-> i]
  BY EmptySeq DEF Bytes
<1>2. /\ InVector = {} /\ DOMAIN sessions = {} /\ sessions \in Seq(Sockets)
      /\ Len(sessions) = 0
  BY EmptySeq DEF Init, InVector, Range
<1>3. Types
  BY <1>1, <1>2, ServerHelperAssumption DEF Init, Types, IsInjective
<1>4. Links
  BY <1>2 DEF Init, Links, Sockets
<1>5. Bounds
  BY <1>1, <1>3, SymbolIs DEF Init, Bounds
<1>6. Pending
  <2>1. \A k \in Nat : EndsAt(<<>>, k)
    BY <1>1 DEF EndsAt
  <2> QED
    BY <1>1, <2>1 DEF Init, Pending
<1>7. Fresh
  BY <1>1 DEF Init, Fresh
<1>8. OnlyFirst
  BY DEF Init, OnlyFirst
<1>9. Unnamed
  BY DEF Init, Unnamed
<1>10. InOrder /\ OutOrder
  BY <1>2 DEF InOrder, OutOrder
<1> QED
  BY <1>3, <1>4, <1>5, <1>6, <1>7, <1>8, <1>9, <1>10 DEF Inv

(* The steps that change where selectUpdate is, or the listeners only.     *)
LEMMA SelectorKeeps ==
  ASSUME Inv, Types',
         UNCHANGED <<symbol, sessions, connected, recvBuff, sendBuff, mapRecv, mapSend,
                     network, user>>
  PROVE  Inv'
<1> USE DEF network, user
<1>1. Links' /\ Bounds' /\ Pending' /\ Fresh' /\ OnlyFirst' /\ Unnamed'
  BY LinksSame, BoundsSame, PendingSame, FreshSame, OnlyFirstSame, UnnamedSame DEF Inv
<1>2. InOrder'
  BY IncomingSame, InOrderSame DEF Inv
<1>3. OutOrder'
  BY OutgoingSame, OutOrderSame DEF Inv
<1> QED
  BY <1>1, <1>2, <1>3 DEF Inv

LEMMA StartThreadKeeps ==
  ASSUME Inv, StartThread
  PROVE  Inv'
<1>1. Types'
  BY DEF Inv, Types, StartThread, helper, network, user, InVector
<1> QED
  BY <1>1, SelectorKeeps DEF StartThread, helper

LEMMA SnapshotKeeps ==
  ASSUME Inv, Snapshot
  PROVE  Inv'
<1>1. connected \subseteq Sockets /\ listening \subseteq Listeners
  BY InVectorIs DEF Inv, Types
<1>2. selector' \in [at     : {"off", "top", "select", "serve"},
                     reads  : SUBSET (Listeners \cup Sockets),
                     writes : SUBSET Sockets]
  BY <1>1 DEF Snapshot
<1>3. Types'
  BY <1>2 DEF Inv, Types, Snapshot, helper, network, user, InVector
<1> QED
  BY <1>3, SelectorKeeps DEF Snapshot, helper

LEMMA SelectKeeps ==
  ASSUME Inv, Select
  PROVE  Inv'
<1>1. selector.reads \subseteq Listeners \cup Sockets /\ selector.writes \subseteq Sockets
  BY DEF Inv, Types
<1>2. selector' \in [at     : {"off", "top", "select", "serve"},
                     reads  : SUBSET (Listeners \cup Sockets),
                     writes : SUBSET Sockets]
  BY <1>1 DEF Select
<1>3. Types'
  BY <1>2 DEF Inv, Types, Select, helper, network, user, InVector
<1> QED
  BY <1>3, SelectorKeeps DEF Select, helper

LEMMA AddLitenerKeeps ==
  ASSUME Inv, NEW l \in Listeners, AddLitener(l)
  PROVE  Inv'
<1>1. Types'
  BY DEF Inv, Types, AddLitener, network, user, InVector
<1> QED
  BY <1>1, SelectorKeeps DEF AddLitener

LEMMA ReadKeeps ==
  ASSUME Inv, NEW y \in Symbols, Read(y)
  PROVE  Inv'
<1> USE DEF network
<1>1. PICK n \in 1 .. Len(mapRecv[y]) :
        /\ readBy' = [readBy EXCEPT ![y] = @ \o SubSeq(mapRecv[y], 1, n)]
        /\ mapRecv' = [mapRecv EXCEPT ![y] = Erase(@, n)]
  BY DEF Read
<1>2. readBy[y] \in Bytes /\ mapRecv[y] \in Bytes /\ Len(mapRecv[y]) \in Nat
  BY LenProperties DEF Inv, Types, Bytes
<1>3. n \in 0 .. Len(mapRecv[y])
  BY <1>2
<1>4. /\ SubSeq(mapRecv[y], 1, n) \in Bytes /\ Erase(mapRecv[y], n) \in Bytes
      /\ (readBy[y] \o SubSeq(mapRecv[y], 1, n)) \o Erase(mapRecv[y], n)
           = readBy[y] \o mapRecv[y]
  BY <1>2, <1>3, FrontErased
<1>5. readBy[y] \o SubSeq(mapRecv[y], 1, n) \in Bytes
  BY <1>2, <1>4, ConcatProperties DEF Bytes
<1>6. /\ readBy' \in [Symbols -> Bytes] /\ mapRecv' \in [Symbols -> Bytes]
      /\ \A z \in Symbols : readBy'[z] \o mapRecv'[z] = readBy[z] \o mapRecv[z]
      /\ \A z \in Symbols : z # y => readBy'[z] = readBy[z] /\ mapRecv'[z] = mapRecv[z]
  BY <1>1, <1>4, <1>5 DEF Inv, Types
<1>7. Types'
  BY <1>6 DEF Inv, Types, Read, InVector
<1>8. Links' /\ Bounds' /\ Pending' /\ Fresh' /\ OnlyFirst'
  BY LinksSame, BoundsSame, PendingSame, FreshSame, OnlyFirstSame DEF Inv, Read
<1>9. Unnamed'
  <2>1. UNCHANGED <<symbol, sessions>>
    BY DEF Read
  <2>2. HasSession(y)
    <3> SUFFICES ASSUME ~ HasSession(y) PROVE FALSE
      OBVIOUS
    <3>1. mapRecv[y] = <<>>
      BY DEF Inv, Unnamed
    <3> QED
      BY <1>1, <3>1
  <2>3. ASSUME NEW z \in Symbols, ~ HasSession(z)'
        PROVE  readBy'[z] = <<>> /\ mapRecv'[z] = <<>>
    <3>1. ~ HasSession(z)
      BY <2>1, <2>3, SessionsSame
    <3>2. z # y /\ readBy[z] = <<>> /\ mapRecv[z] = <<>>
      BY <2>2, <3>1 DEF Inv, Unnamed
    <3> QED
      BY <1>6, <3>2
  <2> QED
    BY <2>3 DEF Unnamed
<1>10. InOrder'
  <2>1. ASSUME NEW s \in Sockets PROVE Incoming(s)' = Incoming(s)
    <3>1. SymbolOf(s) \in Symbols /\ SymbolOf(s)' = SymbolOf(s)
      BY SymbolIs, SymbolSame DEF Inv, Read
    <3> QED
      BY <1>6, <3>1 DEF Incoming, Read
  <2> QED
    BY <2>1, InOrderSame DEF Inv, Read
<1>11. OutOrder'
  BY OutgoingSame, OutOrderSame DEF Inv, Read
<1> QED
  BY <1>7, <1>8, <1>9, <1>10, <1>11 DEF Inv

LEMMA WriteKeeps ==
  ASSUME Inv, NEW y \in Symbols, Write(y)
  PROVE  Inv'
<1> USE DEF network
<1> DEFINE k == written[y] + 1
<1>1. /\ written' = [written EXCEPT ![y] = k]
      /\ mapSend' = [mapSend EXCEPT ![y] = Append(mapSend[y], k)]
      /\ UNCHANGED <<symbol, listening, accepted, sessions, connected, recvBuff,
                     sendBuff, mapRecv, selector, network, readBy>>
  BY DEF Write, Inv, Types
<1>2. written[y] \in Nat /\ k \in Values
  <2>1. written \in [Symbols -> Nat] /\ MaxBytes \in Nat
    BY ServerHelperAssumption DEF Inv, Types
  <2>2. Total(written) \in Nat /\ written[y] <= Total(written)
    BY <2>1, TotalIsSum, ServerHelperAssumption
  <2> QED
    BY <2>1, <2>2 DEF Write, Values
<1>3. /\ mapSend[y] \in Bytes /\ Append(mapSend[y], k) \in Bytes
      /\ Len(mapSend[y]) \in Nat /\ Len(Append(mapSend[y], k)) = Len(mapSend[y]) + 1
  <2>1. mapSend[y] \in Bytes
    BY DEF Inv, Types
  <2> QED
    BY <1>2, <2>1, AppendProperties, LenProperties DEF Bytes
<1>4. k \in 0 .. MaxBytes
  BY <1>2 DEF Values
<1> HIDE DEF k
<1>5. /\ written' \in [Symbols -> 0 .. MaxBytes] /\ mapSend' \in [Symbols -> Bytes]
      /\ written'[y] = k /\ mapSend'[y] = Append(mapSend[y], k)
      /\ \A z \in Symbols : z # y => written'[z] = written[z] /\ mapSend'[z] = mapSend[z]
  BY <1>1, <1>3, <1>4 DEF Inv, Types
<1>6. \A s : SymbolOf(s)' = SymbolOf(s)
  BY <1>1, SymbolSame
<1>7. Types'
  BY <1>1, <1>5 DEF Inv, Types, InVector
<1>8. Links' /\ Fresh' /\ OnlyFirst' /\ Unnamed'
  BY <1>1, LinksSame, FreshSame, OnlyFirstSame, UnnamedSame DEF Inv
<1>9. InOrder'
  BY <1>1, IncomingSame, InOrderSame DEF Inv
<1>10. Bounds'
  <2>1. ASSUME NEW s \in Sockets
        PROVE  /\ Len(recvBuff'[s]) + Len(wire'[s]) <= sent'[s]
               /\ Len(got'[s]) + Len(sendBuff'[s]) + Len(mapSend'[SymbolOf(s)])
                    <= written'[SymbolOf(s)]
    <3>1. /\ Len(recvBuff[s]) + Len(wire[s]) <= sent[s]
          /\ Len(got[s]) + Len(sendBuff[s]) + Len(mapSend[SymbolOf(s)])
               <= written[SymbolOf(s)]
      BY DEF Inv, Bounds
    <3>2. SymbolOf(s) \in Symbols
      BY SymbolIs DEF Inv
    <3>3. Len(got[s]) \in Nat /\ Len(sendBuff[s]) \in Nat
      BY LengthsAre DEF Inv
    <3>4. CASE SymbolOf(s) = y
      <4>1. /\ Len(mapSend'[y]) = Len(mapSend[y]) + 1 /\ written'[y] = written[y] + 1
            /\ recvBuff' = recvBuff /\ wire' = wire /\ sent' = sent
            /\ got' = got /\ sendBuff' = sendBuff
        BY <1>1, <1>3, <1>5 DEF k
      <4> DEFINE a == Len(got[s])
                 b == Len(sendBuff[s])
                 c == Len(mapSend[y])
                 d == written[y]
      <4>a. a + b + c <= d /\ a \in Nat /\ b \in Nat /\ c \in Nat /\ d \in Nat
        BY <1>2, <1>3, <3>1, <3>3, <3>4
      <4> HIDE DEF a, b, c, d
      <4>b. a + b + (c + 1) <= d + 1
        BY <4>a
      <4>2. Len(got[s]) + Len(sendBuff[s]) + (Len(mapSend[y]) + 1) <= written[y] + 1
        BY <4>b DEF a, b, c, d
      <4> QED
        BY <3>1, <3>4, <4>1, <4>2
    <3>5. CASE SymbolOf(s) # y
      BY <1>1, <1>5, <3>1, <3>2, <3>5
    <3> QED
      BY <3>4, <3>5
  <2> QED
    BY <1>6, <2>1 DEF Bounds
<1>11. EndsAt(Append(mapSend[y], k), k)
  <2>1. mapSend[y] \in Seq(Values) /\ EndsAt(mapSend[y], written[y])
    BY <1>3 DEF Inv, Pending, Bytes
  <2> QED
    BY <1>2, <2>1, EndGrows DEF k
<1>12. Pending'
  <2>1. Len(mapSend[y]) <= written[y]
    BY DEF Inv, Pending
  <2>2. Len(mapSend'[y]) <= written'[y] /\ EndsAt(mapSend'[y], written'[y])
    BY <1>2, <1>3, <1>5, <1>11, <2>1 DEF k
  <2>3. \A z \in Symbols : z # y =>
          EndsAt(mapSend'[z], written'[z]) /\ Len(mapSend'[z]) <= written'[z]
    BY <1>5 DEF Inv, Pending
  <2>4. \A z \in Symbols :
          EndsAt(mapSend'[z], written'[z]) /\ Len(mapSend'[z]) <= written'[z]
    BY <2>2, <2>3
  <2> QED
    BY <2>4 DEF Pending, EndsAt
<1>13. OutOrder'
  <2>1. ASSUME NEW s \in Sockets, s \in InVector, IsOnly(s)
        PROVE  EndsAt(Outgoing(s)', written'[SymbolOf(s)])
    <3>1. EndsAt(Outgoing(s), written[SymbolOf(s)])
      BY <2>1 DEF Inv, OutOrder
    <3>2. CASE SymbolOf(s) = y
      <4> DEFINE before == got[s] \o sendBuff[s]
      <4>1. before \in Seq(Values) /\ mapSend[y] \in Seq(Values)
        BY <1>3, StreamsAre DEF Inv, Bytes
      <4>2. Outgoing(s) = before \o mapSend[y] /\ Outgoing(s)' = before \o mapSend'[y]
        BY <1>1, <1>6, <3>2 DEF Outgoing
      <4> HIDE DEF before
      <4>a. before \o Append(mapSend[y], k) = Append(before \o mapSend[y], k)
        BY <1>2, <4>1, ConcatAppend, SMTT(30)
      <4>3. Outgoing(s)' = Append(Outgoing(s), k)
        BY <1>5, <4>2, <4>a
      <4>4. Outgoing(s) \in Seq(Values)
        BY StreamsAre DEF Inv, Bytes
      <4>5. EndsAt(Append(Outgoing(s), k), k)
        BY <1>2, <3>1, <3>2, <4>4, EndGrows DEF k
      <4> QED
        BY <1>5, <3>2, <4>3, <4>5
    <3>3. CASE SymbolOf(s) # y
      <4>1. SymbolOf(s) \in Symbols
        BY SymbolIs DEF Inv
      <4>2. Outgoing(s)' = Outgoing(s) /\ written'[SymbolOf(s)] = written[SymbolOf(s)]
        BY <1>1, <1>5, <1>6, <3>3, <4>1 DEF Outgoing
      <4> QED
        BY <3>1, <4>2
    <3> QED
      BY <3>2, <3>3
  <2>2. \A s : IsOnly(s)' = IsOnly(s) /\ (s \in InVector)' = (s \in InVector)
    BY <1>1, SessionsSame
  <2> QED
    BY <1>6, <2>1, <2>2 DEF OutOrder, EndsAt
<1> QED
  BY <1>7, <1>8, <1>9, <1>10, <1>12, <1>13 DEF Inv

LEMMA PeerSendsKeeps ==
  ASSUME Inv, NEW p \in Sockets, PeerSends(p)
  PROVE  Inv'
<1> USE DEF helper, user
<1> DEFINE k == sent[p] + 1
<1>1. /\ sent' = [sent EXCEPT ![p] = k]
      /\ wire' = [wire EXCEPT ![p] = Append(wire[p], k)]
      /\ link[p] # "gone"
      /\ UNCHANGED <<helper, selector, link, got, user>>
  BY DEF PeerSends, Inv, Types
<1>2. sent[p] \in Nat /\ k \in Values
  <2>1. sent \in [Sockets -> Nat] /\ MaxBytes \in Nat
    BY ServerHelperAssumption DEF Inv, Types
  <2>2. IsFiniteSet(Sockets)
    BY ServerHelperAssumption, FS_Union DEF Sockets
  <2>3. Total(sent) \in Nat /\ sent[p] <= Total(sent)
    BY <2>1, <2>2, TotalIsSum
  <2> QED
    BY <2>1, <2>3 DEF PeerSends, Values
<1>3. /\ wire[p] \in Bytes /\ Append(wire[p], k) \in Bytes
      /\ Len(wire[p]) \in Nat /\ Len(Append(wire[p], k)) = Len(wire[p]) + 1
  <2>1. wire[p] \in Bytes
    BY DEF Inv, Types
  <2> QED
    BY <1>2, <2>1, AppendProperties, LenProperties DEF Bytes
<1>4. k \in 0 .. MaxBytes
  BY <1>2 DEF Values
<1> HIDE DEF k
<1>5. /\ sent' \in [Sockets -> 0 .. MaxBytes] /\ wire' \in [Sockets -> Bytes]
      /\ sent'[p] = k /\ wire'[p] = Append(wire[p], k)
      /\ \A s \in Sockets : s # p => sent'[s] = sent[s] /\ wire'[s] = wire[s]
  BY <1>1, <1>3, <1>4 DEF Inv, Types
<1>6. \A s : SymbolOf(s)' = SymbolOf(s)
  BY <1>1, SymbolSame
<1>7. Types'
  BY <1>1, <1>5 DEF Inv, Types, InVector
<1>8. Links' /\ Pending' /\ OnlyFirst' /\ Unnamed'
  BY <1>1, LinksSame, PendingSame, OnlyFirstSame, UnnamedSame DEF Inv
<1>9. OutOrder'
  BY <1>1, OutgoingSame, OutOrderSame DEF Inv
<1>10. Bounds'
  <2>1. ASSUME NEW s \in Sockets
        PROVE  /\ Len(recvBuff'[s]) + Len(wire'[s]) <= sent'[s]
               /\ Len(got'[s]) + Len(sendBuff'[s]) + Len(mapSend'[SymbolOf(s)])
                    <= written'[SymbolOf(s)]
    <3>1. /\ Len(recvBuff[s]) + Len(wire[s]) <= sent[s]
          /\ Len(got[s]) + Len(sendBuff[s]) + Len(mapSend[SymbolOf(s)])
               <= written[SymbolOf(s)]
      BY DEF Inv, Bounds
    <3>2. Len(recvBuff[s]) \in Nat
      BY LengthsAre DEF Inv
    <3>3. CASE s = p
      <4>1. /\ Len(wire'[p]) = Len(wire[p]) + 1 /\ sent'[p] = sent[p] + 1
            /\ recvBuff' = recvBuff /\ got' = got /\ sendBuff' = sendBuff
            /\ mapSend' = mapSend /\ written' = written
        BY <1>1, <1>3, <1>5 DEF k
      <4> DEFINE a == Len(recvBuff[p])
                 b == Len(wire[p])
                 d == sent[p]
      <4>a. a + b <= d /\ a \in Nat /\ b \in Nat /\ d \in Nat
        BY <1>2, <1>3, <3>1, <3>2, <3>3
      <4> HIDE DEF a, b, d
      <4>b. a + (b + 1) <= d + 1
        BY <4>a
      <4>2. Len(recvBuff[p]) + (Len(wire[p]) + 1) <= sent[p] + 1
        BY <4>b DEF a, b, d
      <4> QED
        BY <3>1, <3>3, <4>1, <4>2
    <3>4. CASE s # p
      BY <1>1, <1>5, <3>1, <3>4
    <3> QED
      BY <3>3, <3>4
  <2> QED
    BY <1>6, <2>1 DEF Bounds
<1>11. Fresh'
  <2>1. ASSUME NEW s \in Sockets, s \notin InVector
        PROVE  /\ recvBuff'[s] = <<>>
               /\ link'[s] # "gone" => wire'[s] = [i \in 1 .. sent'[s] |-> i]
    <3>1. /\ recvBuff[s] = <<>>
          /\ link[s] # "gone" => wire[s] = [i \in 1 .. sent[s] |-> i]
      BY <2>1 DEF Inv, Fresh
    <3>2. CASE s = p
      <4>1. wire[p] \in Seq(Values) /\ wire[p] = [i \in 1 .. sent[p] |-> i]
        BY <1>1, <1>3, <3>1, <3>2 DEF Bytes
      <4>2. Append(wire[p], k) = [i \in 1 .. k |-> i]
        BY <1>2, <4>1, RunGrows DEF k
      <4> QED
        BY <1>1, <1>5, <3>1, <3>2, <4>2
    <3>3. CASE s # p
      BY <1>1, <1>5, <3>1, <3>3
    <3> QED
      BY <3>2, <3>3
  <2> QED
    BY <1>1, <2>1 DEF Fresh, InVector
<1>12. InOrder'
  <2>1. ASSUME NEW s \in Sockets, s \in InVector, IsOnly(s)
        PROVE  Incoming(s)' = [i \in 1 .. sent'[s] |-> i]
    <3>1. Incoming(s) = [i \in 1 .. sent[s] |-> i]
      BY <2>1 DEF Inv, InOrder
    <3>2. CASE s = p
      <4> DEFINE before == readBy[SymbolOf(p)] \o mapRecv[SymbolOf(p)] \o recvBuff[p]
      <4>1. before \in Seq(Values) /\ wire[p] \in Seq(Values)
        BY StreamsAre DEF Inv, Bytes
      <4>2. Incoming(p) = before \o wire[p] /\ Incoming(p)' = before \o wire'[p]
        BY <1>1, <1>6 DEF Incoming
      <4> HIDE DEF before
      <4>3. before \o Append(wire[p], k) = Append(before \o wire[p], k)
        BY <1>2, <4>1, ConcatAppend
      <4>4. Incoming(p) \in Seq(Values)
        BY StreamsAre DEF Inv, Bytes
      <4>5. Append(Incoming(p), k) = [i \in 1 .. k |-> i]
        BY <1>2, <3>1, <3>2, <4>4, RunGrows DEF k
      <4> QED
        BY <1>5, <3>2, <4>2, <4>3, <4>5
    <3>3. CASE s # p
      <4>1. Incoming(s)' = Incoming(s) /\ sent'[s] = sent[s]
        BY <1>1, <1>5, <1>6, <3>3 DEF Incoming
      <4> QED
        BY <3>1, <4>1
    <3> QED
      BY <3>2, <3>3
  <2>2. \A s : IsOnly(s)' = IsOnly(s) /\ (s \in InVector)' = (s \in InVector)
    BY <1>1, SessionsSame
  <2> QED
    BY <2>1, <2>2 DEF InOrder
<1> QED
  BY <1>7, <1>8, <1>9, <1>10, <1>11, <1>12 DEF Inv

(* A connection changes its state, and no byte is lost.                    *)
LEMMA LinkKeeps ==
  ASSUME Inv, NEW s \in Sockets, NEW v \in {"waiting", "up", "closed"},
         link[s] # "gone", link' = [link EXCEPT ![s] = v],
         s \in Clients => v \in {"up", "closed"},
         s \in Guests => v \in {"up", "closed"} \/ link[s] = "down",
         UNCHANGED <<helper, selector, wire, sent, got, user>>
  PROVE  Inv'
<1> USE DEF helper, user
<1>1. /\ link' \in [Sockets -> {"down", "waiting", "up", "closed", "gone"}]
      /\ link'[s] = v /\ \A u \in Sockets : u # s => link'[u] = link[u]
  BY DEF Inv, Types
<1>2. Types'
  BY <1>1 DEF Inv, Types, InVector
<1>3. Links'
  BY <1>1 DEF Inv, Links, InVector, Sockets
<1>4. Fresh'
  BY <1>1 DEF Inv, Fresh, InVector
<1>5. Bounds' /\ Pending' /\ OnlyFirst' /\ Unnamed'
  BY BoundsSame, PendingSame, OnlyFirstSame, UnnamedSame DEF Inv
<1>6. InOrder' /\ OutOrder'
  BY IncomingSame, InOrderSame, OutgoingSame, OutOrderSame DEF Inv
<1> QED
  BY <1>2, <1>3, <1>4, <1>5, <1>6 DEF Inv

LEMMA LeaveKeeps ==
  ASSUME Inv, NEW g \in Guests, Leave(g), UNCHANGED <<helper, selector, sent, got, user>>
  PROVE  Inv'
<1> USE DEF helper, user
<1>1. g \in Sockets /\ g \notin InVector /\ g \notin Clients
  BY ServerHelperAssumption DEF Inv, Links, Leave, Sockets
<1>2. /\ link' \in [Sockets -> {"down", "waiting", "up", "closed", "gone"}]
      /\ wire' \in [Sockets -> Bytes]
      /\ link'[g] = "gone" /\ wire'[g] = <<>>
      /\ \A u \in Sockets : u # g => link'[u] = link[u] /\ wire'[u] = wire[u]
  <2>1. <<>> \in Bytes
    BY EmptySeq DEF Bytes
  <2> QED
    BY <1>1, <2>1 DEF Inv, Types, Leave
<1>3. Types'
  BY <1>2 DEF Inv, Types, InVector
<1>4. Links'
  BY <1>1, <1>2 DEF Inv, Links, InVector, Sockets
<1>5. Fresh'
  BY <1>2 DEF Inv, Fresh, InVector
<1>6. Bounds'
  <2>1. \A s : SymbolOf(s)' = SymbolOf(s)
    BY SymbolSame
  <2>2. ASSUME NEW s \in Sockets PROVE Len(recvBuff[s]) + Len(wire'[s]) <= sent[s]
    <3>1. /\ Len(recvBuff[s]) + Len(wire[s]) <= sent[s]
          /\ Len(recvBuff[s]) \in Nat /\ Len(wire[s]) \in Nat
      BY LengthsAre DEF Inv, Bounds
    <3>a. sent[s] \in Nat
      BY DEF Inv, Types
    <3>2. Len(wire'[s]) = Len(wire[s]) \/ Len(wire'[s]) = 0
      BY <1>2, EmptySeq
    <3> DEFINE a == Len(recvBuff[s])
               b == Len(wire[s])
               c == Len(wire'[s])
    <3>b. a + b <= sent[s] /\ a \in Nat /\ b \in Nat /\ (c = b \/ c = 0)
      BY <3>1, <3>2
    <3> HIDE DEF a, b, c
    <3>c. a + c <= sent[s]
      BY <3>a, <3>b
    <3> QED
      BY <3>c DEF a, c
  <2> QED
    BY <2>1, <2>2 DEF Inv, Bounds
<1>7. Pending' /\ OnlyFirst' /\ Unnamed'
  BY PendingSame, OnlyFirstSame, UnnamedSame DEF Inv
<1>8. InOrder'
  <2>1. ASSUME NEW s \in Sockets, s \in InVector PROVE Incoming(s)' = Incoming(s)
    <3>1. wire'[s] = wire[s] /\ SymbolOf(s)' = SymbolOf(s)
      BY <1>1, <1>2, <2>1, SymbolSame
    <3> QED
      BY <3>1 DEF Incoming
  <2> QED
    BY <2>1, InOrderSame DEF Inv
<1>9. OutOrder'
  BY OutgoingSame, OutOrderSame DEF Inv
<1> QED
  BY <1>3, <1>4, <1>5, <1>6, <1>7, <1>8, <1>9 DEF Inv

LEMMA ConnectionsKeep ==
  ASSUME Inv, Connections
  PROVE  Inv'
<1>1. UNCHANGED <<helper, selector, sent, got, user>>
  BY DEF Connections
<1>2. ASSUME NEW g \in Guests, Arrive(g) PROVE Inv'
  <2>1. g \in Sockets /\ g \notin Clients
    BY ServerHelperAssumption DEF Sockets
  <2> QED
    BY <1>1, <1>2, <2>1, LinkKeeps DEF Arrive
<1>3. ASSUME NEW g \in Guests, Leave(g) PROVE Inv'
  BY <1>1, <1>3, LeaveKeeps
<1>4. ASSUME NEW c \in Clients, LinkUp(c) PROVE Inv'
  <2>1. c \in Sockets /\ c \notin Guests
    BY ServerHelperAssumption DEF Sockets
  <2> QED
    BY <1>1, <1>4, <2>1, LinkKeeps DEF LinkUp
<1>5. ASSUME NEW s \in Sockets, PeerCloses(s) PROVE Inv'
  BY <1>1, <1>5, LinkKeeps DEF PeerCloses
<1> QED
  BY <1>2, <1>3, <1>4, <1>5 DEF Connections

-----------------------------------------------------------------------------
(* New sessions                                                            *)

LEMMA Joining ==
  ASSUME Types, UNCHANGED symbol, NEW order \in Seq(Sockets), IsInjective(order),
         Range(order) \cap InVector = {}, sessions' = sessions \o order
  PROVE  /\ sessions' \in Seq(Sockets) /\ IsInjective(sessions')
         /\ InVector' = InVector \cup Range(order)
         /\ \A s : IsFirst(s) => IsFirst(s)'
         /\ \A y : HasSession(y) => HasSession(y)'
         /\ \A s : IsOnly(s)' => IsOnly(s)
<1>1. sessions \in Seq(Sockets) /\ IsInjective(sessions)
  BY DEF Types
<1>2. /\ sessions' \in Seq(Sockets) /\ Len(sessions') = Len(sessions) + Len(order)
      /\ \A i \in 1 .. Len(sessions) + Len(order) :
           sessions'[i] = IF i <= Len(sessions) THEN sessions[i]
                          ELSE order[i - Len(sessions)]
      /\ Len(sessions) \in Nat /\ Len(order) \in Nat
  BY <1>1, ConcatProperties, LenProperties
<1>3. IsInjective(sessions') /\ InVector' = InVector \cup Range(order)
  BY <1>1, ConcatIsInjective, RangeOfConcat DEF InVector
<1>4. \A s : SymbolOf(s)' = SymbolOf(s)
  BY SymbolSame
<1>5. ASSUME NEW s, IsFirst(s) PROVE IsFirst(s)'
  <2>1. PICK i \in 1 .. Len(sessions) :
          sessions[i] = s /\ \A j \in 1 .. i - 1 : SymbolOf(sessions[j]) # SymbolOf(s)
    BY <1>5 DEF IsFirst
  <2>2. i \in 1 .. Len(sessions') /\ sessions'[i] = s
    BY <1>2, <2>1
  <2>3. \A j \in 1 .. i - 1 : sessions'[j] = sessions[j]
    BY <1>2
  <2>4. \A j \in 1 .. i - 1 : symbol'[Origin(sessions'[j])] # symbol'[Origin(s)]
    BY <2>1, <2>3 DEF SymbolOf
  <2>5. \E k \in 1 .. Len(sessions') :
          /\ sessions'[k] = s
          /\ \A j \in 1 .. k - 1 : symbol'[Origin(sessions'[j])] # symbol'[Origin(s)]
    BY <2>2, <2>4
  <2> QED
    BY <2>5 DEF IsFirst, SymbolOf, Origin
<1>6. \A y : HasSession(y) => HasSession(y)'
  BY <1>3, <1>4 DEF HasSession
<1>7. \A s : IsOnly(s)' => IsOnly(s)
  BY <1>3, <1>4 DEF IsOnly
<1> QED
  BY <1>2, <1>3, <1>5, <1>6, <1>7

(* The streams of a socket that becomes the only session of its symbol.    *)
LEMMA NewStreams ==
  ASSUME Inv, NEW s \in Sockets, s \notin InVector, link[s] # "gone",
         ~ HasSession(SymbolOf(s))
  PROVE  /\ Incoming(s) = [i \in 1 .. sent[s] |-> i]
         /\ EndsAt(Outgoing(s), written[SymbolOf(s)])
<1> DEFINE y == SymbolOf(s)
<1>1. y \in Symbols
  BY SymbolIs DEF Inv
<1>2. readBy[y] = <<>> /\ mapRecv[y] = <<>>
  BY <1>1 DEF Inv, Unnamed
<1>3. recvBuff[s] = <<>> /\ wire[s] = [i \in 1 .. sent[s] |-> i]
  BY DEF Inv, Fresh
<1>4. got[s] = <<>> /\ sendBuff[s] = <<>>
  BY DEF Inv, OnlyFirst, Types
<1>5. EndsAt(mapSend[y], written[y])
  BY <1>1 DEF Inv, Pending
<1>6. wire[s] \in Seq(Values) /\ mapSend[y] \in Seq(Values) /\ <<>> \in Seq(Values)
  BY StreamsAre, EmptySeq DEF Inv, Bytes
<1>7. Incoming(s) = <<>> \o <<>> \o <<>> \o wire[s]
  BY <1>2, <1>3 DEF Incoming
<1>8. Outgoing(s) = <<>> \o <<>> \o mapSend[y]
  BY <1>4 DEF Outgoing
<1>9. Incoming(s) = wire[s] /\ Outgoing(s) = mapSend[y]
  BY <1>6, <1>7, <1>8, ConcatEmptySeq
<1> QED
  BY <1>3, <1>5, <1>9

LEMMA AddClientKeeps ==
  ASSUME Inv, NEW c \in Clients, AddClient(c)
  PROVE  Inv'
<1> USE DEF network, user
<1>1. /\ c \in Sockets /\ c \notin InVector /\ sessions' = sessions \o <<c>>
      /\ UNCHANGED <<symbol, listening, accepted, connected, recvBuff, sendBuff,
                     mapRecv, mapSend, selector, network, user>>
  BY AppendIsConcat DEF AddClient, Sockets, Inv, Types
<1>2. <<c>> \in Seq(Sockets) /\ IsInjective(<<c>>) /\ Range(<<c>>) = {c}
  BY <1>1 DEF IsInjective, Range
<1>3. /\ sessions' \in Seq(Sockets) /\ IsInjective(sessions')
      /\ InVector' = InVector \cup {c}
      /\ \A s : IsFirst(s) => IsFirst(s)'
      /\ \A y : HasSession(y) => HasSession(y)'
      /\ \A s : IsOnly(s)' => IsOnly(s)
  BY <1>1, <1>2, Joining DEF Inv
<1>4. \A s : SymbolOf(s)' = SymbolOf(s)
  BY <1>1, SymbolSame
<1>5. Types'
  BY <1>1, <1>3 DEF Inv, Types
<1>6. Bounds' /\ Pending'
  BY <1>1, BoundsSame, PendingSame DEF Inv
<1>7. Links'
  BY <1>1, <1>3, ServerHelperAssumption DEF Inv, Links
<1>8. Fresh'
  BY <1>1, <1>3 DEF Inv, Fresh
<1>9. OnlyFirst'
  BY <1>1, <1>3 DEF Inv, OnlyFirst
<1>10. Unnamed'
  BY <1>1, <1>3 DEF Inv, Unnamed
<1>11. ASSUME NEW s \in Sockets, (s \in InVector)', IsOnly(s)'
       PROVE  /\ Incoming(s)' = [i \in 1 .. sent'[s] |-> i]
              /\ EndsAt(Outgoing(s)', written'[SymbolOf(s)'])
  <2>1. Incoming(s)' = Incoming(s) /\ Outgoing(s)' = Outgoing(s)
    BY <1>1, IncomingSame, OutgoingSame
  <2>2. CASE s \in InVector
    BY <1>1, <1>3, <1>4, <1>11, <2>1, <2>2 DEF Inv, InOrder, OutOrder
  <2>3. CASE s \notin InVector
    <3>1. s = c /\ link[s] # "gone"
      BY <1>3, <1>11, <2>3 DEF Inv, Links
    <3>2. ~ HasSession(SymbolOf(s))
      <4>1. \A u \in InVector : SymbolOf(u) # SymbolOf(s)
        BY <1>3, <1>4, <1>11, <2>3 DEF IsOnly
      <4> QED
        BY <4>1 DEF HasSession
    <3>3. /\ Incoming(s) = [i \in 1 .. sent[s] |-> i]
          /\ EndsAt(Outgoing(s), written[SymbolOf(s)])
      BY <2>3, <3>1, <3>2, NewStreams
    <3> QED
      BY <1>1, <1>4, <2>1, <3>3
  <2> QED
    BY <2>2, <2>3
<1>12. InOrder' /\ OutOrder'
  BY <1>11 DEF InOrder, OutOrder, EndsAt
<1> QED
  BY <1>5, <1>6, <1>7, <1>8, <1>9, <1>10, <1>12 DEF Inv

-----------------------------------------------------------------------------
(* Update                                                                  *)

LEMMA UpdateKeeps ==
  ASSUME Inv, Update
  PROVE  Inv'
<1> USE DEF user
<1>1. PICK up \in SUBSET {s \in InVector \ connected : link[s] = "down"} :
        /\ link' = [s \in Sockets |-> IF s \in up THEN "up" ELSE link[s]]
        /\ connected' = InVector \ up
  BY DEF Update
<1>2. /\ UNCHANGED <<symbol, listening, accepted, sessions, selector, wire, sent, got, user>>
      /\ mapRecv' = [y \in Symbols |-> Collected(y)]
      /\ recvBuff' = [s \in Sockets |-> IF s \in InVector THEN <<>> ELSE recvBuff[s]]
      /\ sendBuff' = [s \in Sockets |->
                        IF s \in InVector /\ TakesWritten(s)
                        THEN sendBuff[s] \o mapSend[SymbolOf(s)] ELSE sendBuff[s]]
      /\ mapSend' = [y \in Symbols |-> IF HasSession(y) THEN <<>> ELSE mapSend[y]]
  BY DEF Update
<1>3. <<>> \in Bytes /\ Len(<<>>) = 0
  BY EmptySeq DEF Bytes
<1>4. \A s : SymbolOf(s)' = SymbolOf(s)
  BY <1>2, SymbolSame
<1>5. /\ InVector' = InVector
      /\ \A s : IsFirst(s)' = IsFirst(s)
      /\ \A y : HasSession(y)' = HasSession(y)
      /\ \A s : IsOnly(s)' = IsOnly(s)
  BY <1>2, SessionsSame
<1>6. InVector \subseteq Sockets /\ connected \subseteq InVector
  BY InVectorIs DEF Inv, Types
<1>7. link' \in [Sockets -> {"down", "waiting", "up", "closed", "gone"}]
      /\ \A s \in Sockets : link'[s] = IF s \in up THEN "up" ELSE link[s]
  BY <1>1 DEF Inv, Types
<1>8. mapRecv' \in [Symbols -> Bytes] /\ \A y \in Symbols : mapRecv'[y] = Collected(y)
  BY <1>2, CollectedType DEF Inv
<1>9. /\ recvBuff' \in [Sockets -> Bytes]
      /\ \A s \in Sockets : recvBuff'[s] = IF s \in InVector THEN <<>> ELSE recvBuff[s]
  BY <1>2, <1>3 DEF Inv, Types
<1>10. /\ sendBuff' \in [Sockets -> Bytes]
       /\ \A s \in Sockets :
            sendBuff'[s] = IF s \in InVector /\ TakesWritten(s)
                           THEN sendBuff[s] \o mapSend[SymbolOf(s)] ELSE sendBuff[s]
  <2>1. ASSUME NEW s \in Sockets
        PROVE  sendBuff[s] \o mapSend[SymbolOf(s)] \in Bytes /\ sendBuff[s] \in Bytes
    BY StreamsAre, ConcatProperties DEF Inv, Bytes
  <2> QED
    BY <1>2, <2>1
<1>11. /\ mapSend' \in [Symbols -> Bytes]
       /\ \A y \in Symbols : mapSend'[y] = IF HasSession(y) THEN <<>> ELSE mapSend[y]
  BY <1>2, <1>3 DEF Inv, Types
<1>12. Types'
  BY <1>1, <1>2, <1>5, <1>7, <1>8, <1>9, <1>10, <1>11 DEF Inv, Types
<1>13. Links'
  <2>1. \A c \in Clients : link'[c] \in {"down", "up", "closed"}
    BY <1>7 DEF Inv, Links, Sockets
  <2>2. \A g \in Guests : g \in InVector => link'[g] \in {"up", "closed"}
    BY <1>7 DEF Inv, Links, Sockets
  <2> QED
    BY <1>5, <2>1, <2>2 DEF Links
<1>14. ASSUME NEW s \in InVector PROVE HasSession(SymbolOf(s))
  BY DEF HasSession
<1>15. ASSUME NEW s \in Sockets
       PROVE  /\ Len(recvBuff'[s]) + Len(wire[s]) <= sent[s]
              /\ Len(got[s]) + Len(sendBuff'[s]) + Len(mapSend'[SymbolOf(s)])
                   <= written[SymbolOf(s)]
  <2> DEFINE y == SymbolOf(s)
             a == Len(recvBuff[s])
             b == Len(wire[s])
             c == Len(got[s])
             d == Len(sendBuff[s])
             e == Len(mapSend[y])
  <2>1. y \in Symbols /\ sent[s] \in Nat /\ written[y] \in Nat
    <3>1. y \in Symbols
      BY SymbolIs DEF Inv
    <3> QED
      BY <3>1 DEF Inv, Types
  <2>2. a + b <= sent[s] /\ c + d + e <= written[y]
    BY DEF Inv, Bounds
  <2>3. a \in Nat /\ b \in Nat /\ c \in Nat /\ d \in Nat /\ e \in Nat
    BY LengthsAre DEF Inv
  <2>4. Len(recvBuff'[s]) \in {a, 0}
    BY <1>3, <1>9
  <2>5. \/ Len(sendBuff'[s]) = d /\ Len(mapSend'[y]) \in {e, 0}
        \/ Len(sendBuff'[s]) = d + e /\ Len(mapSend'[y]) = 0
    <3>1. CASE s \in InVector /\ TakesWritten(s)
      <4>1. Len(sendBuff[s] \o mapSend[y]) = d + e
        BY StreamsAre, ConcatProperties DEF Inv, Bytes
      <4>2. mapSend'[y] = <<>>
        BY <1>11, <1>14, <2>1, <3>1
      <4> QED
        BY <1>3, <1>10, <3>1, <4>1, <4>2
    <3>2. CASE ~ (s \in InVector /\ TakesWritten(s))
      <4>1. sendBuff'[s] = sendBuff[s]
        BY <1>10, <3>2
      <4>2. Len(mapSend'[y]) \in {e, 0}
        BY <1>3, <1>11, <2>1
      <4> QED
        BY <4>1, <4>2
    <3> QED
      BY <3>1, <3>2
  <2> DEFINE a1 == Len(recvBuff'[s])
             d1 == Len(sendBuff'[s])
             e1 == Len(mapSend'[y])
             w  == written[y]
             t  == sent[s]
  <2>6. /\ a \in Nat /\ b \in Nat /\ c \in Nat /\ d \in Nat /\ e \in Nat
        /\ a + b <= t /\ c + d + e <= w /\ t \in Nat /\ w \in Nat
        /\ a1 \in {a, 0}
        /\ (d1 = d /\ e1 \in {e, 0}) \/ (d1 = d + e /\ e1 = 0)
    BY <2>1, <2>2, <2>3, <2>4, <2>5
  <2> HIDE DEF a, b, c, d, e, a1, d1, e1, w, t
  <2>7. a1 + b <= t /\ c + d1 + e1 <= w
    BY <2>6
  <2> QED
    BY <2>7 DEF a1, b, t, c, d1, e1, w
<1>16. Bounds'
  BY <1>2, <1>4, <1>15 DEF Bounds
<1>17. Pending'
  <2>1. ASSUME NEW y \in Symbols
        PROVE  EndsAt(mapSend'[y], written[y]) /\ Len(mapSend'[y]) <= written[y]
    <3>1. EndsAt(mapSend[y], written[y]) /\ Len(mapSend[y]) <= written[y]
      BY DEF Inv, Pending
    <3>2. written[y] \in Nat
      BY DEF Inv, Types
    <3>3. EndsAt(<<>>, written[y]) /\ Len(<<>>) <= written[y]
      BY <1>3, <3>2 DEF EndsAt
    <3> QED
      BY <1>11, <3>1, <3>3
  <2> QED
    BY <1>2, <2>1 DEF Pending, EndsAt
<1>18. Fresh'
  BY <1>1, <1>2, <1>5, <1>7, <1>9 DEF Inv, Fresh
<1>19. OnlyFirst'
  <2>1. ASSUME NEW s \in Sockets, s \notin connected' \/ ~ IsFirst(s)
        PROVE  got[s] = <<>> /\ sendBuff'[s] = <<>>
    <3>1. s \notin connected \/ ~ IsFirst(s)
      BY <1>1, <1>6, <2>1
    <3>2. ~ TakesWritten(s)
      BY <3>1 DEF TakesWritten
    <3> QED
      BY <1>10, <3>1, <3>2 DEF Inv, OnlyFirst
  <2> QED
    BY <1>2, <1>5, <2>1 DEF OnlyFirst
<1>20. Unnamed'
  <2>1. ASSUME NEW y \in Symbols, ~ HasSession(y)
        PROVE  readBy[y] = <<>> /\ mapRecv'[y] = <<>>
    BY <1>8, <2>1, CollectedNone DEF Inv, Unnamed
  <2> QED
    BY <1>2, <1>5, <2>1 DEF Unnamed
<1>21. InOrder'
  <2>1. ASSUME NEW s \in Sockets, s \in InVector, IsOnly(s)
        PROVE  Incoming(s)' = Incoming(s)
    <3> DEFINE r == readBy[SymbolOf(s)]
               m == mapRecv[SymbolOf(s)]
               b == recvBuff[s]
               w == wire[s]
    <3>1. /\ r \in Seq(Values) /\ m \in Seq(Values) /\ b \in Seq(Values)
          /\ w \in Seq(Values) /\ SymbolOf(s) \in Symbols
      BY StreamsAre DEF Inv, Bytes
    <3>2. mapRecv'[SymbolOf(s)] = m \o b
      BY <1>8, <2>1, <3>1, CollectedOnly DEF Inv
    <3>3. recvBuff'[s] = <<>>
      BY <1>9, <2>1
    <3>4. Incoming(s)' = r \o (m \o b) \o <<>> \o w
      BY <1>2, <1>4, <3>2, <3>3 DEF Incoming
    <3>5. Incoming(s) = r \o m \o b \o w
      BY DEF Incoming
    <3> HIDE DEF r, m, b, w
    <3>6. m \o b \in Seq(Values) /\ r \o (m \o b) = (r \o m) \o b
      BY <3>1, ConcatProperties, ConcatAssociative, SMTT(30)
    <3>7. r \o (m \o b) \in Seq(Values)
      BY <3>1, <3>6, ConcatProperties, Zenon
    <3>8. (r \o (m \o b)) \o <<>> = r \o (m \o b)
      BY <3>7, ConcatEmptySeq
    <3> QED
      BY <3>4, <3>5, <3>6, <3>8
  <2> QED
    BY <1>2, <1>5, <2>1 DEF Inv, InOrder
<1>22. OutOrder'
  <2>1. ASSUME NEW s \in Sockets, s \in InVector, IsOnly(s)
        PROVE  EndsAt(Outgoing(s)', written[SymbolOf(s)])
    <3> DEFINE y == SymbolOf(s)
               g == got[s]
               b == sendBuff[s]
               m == mapSend[y]
    <3>1. /\ g \in Seq(Values) /\ b \in Seq(Values) /\ m \in Seq(Values) /\ y \in Symbols
          /\ written[y] \in Nat
      <4>1. g \in Seq(Values) /\ b \in Seq(Values) /\ m \in Seq(Values) /\ y \in Symbols
        BY StreamsAre DEF Inv, Bytes
      <4> QED
        BY <4>1 DEF Inv, Types
    <3>2. mapSend'[y] = <<>>
      BY <1>11, <1>14, <2>1, <3>1
    <3>3. IsFirst(s)
      BY <2>1, OnlyIsFirst DEF Inv
    <3>4. CASE s \in connected
      <4>1. sendBuff'[s] = b \o m
        BY <1>10, <2>1, <3>3, <3>4 DEF TakesWritten
      <4>2. Outgoing(s)' = g \o (b \o m) \o <<>>
        BY <1>2, <1>4, <3>2, <4>1 DEF Outgoing
      <4>3. Outgoing(s) = g \o b \o m /\ EndsAt(Outgoing(s), written[y])
        BY <2>1 DEF Inv, OutOrder, Outgoing
      <4>4. g \o (b \o m) = (g \o b) \o m /\ b \o m \in Seq(Values)
        <5> HIDE DEF g, b, m
        <5> QED
          BY <3>1, ConcatAssociative, ConcatProperties, SMTT(30)
      <4>5. g \o (b \o m) \in Seq(Values)
        BY <3>1, <4>4, ConcatProperties, Zenon
      <4>6. (g \o (b \o m)) \o <<>> = g \o (b \o m)
        BY <4>5, ConcatEmptySeq
      <4> QED
        BY <4>2, <4>3, <4>4, <4>6
    <3>5. CASE s \notin connected
      <4>1. got[s] = <<>> /\ sendBuff[s] = <<>>
        BY <3>5 DEF Inv, OnlyFirst
      <4>2. sendBuff'[s] = <<>>
        BY <1>10, <3>5, <4>1 DEF TakesWritten
      <4>3. Outgoing(s)' = <<>> \o <<>> \o <<>>
        BY <1>2, <1>4, <3>2, <4>1, <4>2 DEF Outgoing
      <4>4. <<>> \o <<>> \o <<>> = <<>>
        BY ConcatEmptySeq, EmptySeq
      <4>5. EndsAt(<<>>, written[y])
        BY <1>3, <3>1 DEF EndsAt
      <4> QED
        BY <4>3, <4>4, <4>5
    <3> QED
      BY <3>4, <3>5
  <2> QED
    BY <1>2, <1>4, <1>5, <2>1 DEF OutOrder, EndsAt
<1> QED
  BY <1>12, <1>13, <1>16, <1>17, <1>18, <1>19, <1>20, <1>21, <1>22 DEF Inv

-----------------------------------------------------------------------------
(* Serve                                                                   *)

(* recv takes the first k bytes of the wire and send l of SendBuff: all of *)
(* them stay in their streams.                                             *)
Moves(s, k, l) ==
  /\ recvBuff'[s] = recvBuff[s] \o SubSeq(wire[s], 1, k)
  /\ wire'[s] = Erase(wire[s], k)
  /\ got'[s] = got[s] \o SubSeq(sendBuff[s], 1, l)
  /\ sendBuff'[s] = Erase(sendBuff[s], l)

LEMMA BytesMove ==
  ASSUME Types, NEW s \in Sockets, symbol' = symbol, readBy' = readBy,
         mapRecv' = mapRecv, mapSend' = mapSend,
         NEW k \in 0 .. Len(wire[s]), NEW l \in 0 .. Len(sendBuff[s]), Moves(s, k, l)
  PROVE  Incoming(s)' = Incoming(s) /\ Outgoing(s)' = Outgoing(s)
<1> DEFINE r == readBy[SymbolOf(s)] \o mapRecv[SymbolOf(s)]
           b == recvBuff[s]
           w == wire[s]
           g == got[s]
           q == sendBuff[s]
<1>1. /\ r \in Seq(Values) /\ b \in Seq(Values) /\ w \in Seq(Values)
      /\ g \in Seq(Values) /\ q \in Seq(Values)
      /\ k \in 0 .. Len(w) /\ l \in 0 .. Len(q)
  BY StreamsAre DEF Bytes
<1>2. SymbolOf(s)' = SymbolOf(s)
  BY SymbolSame
<1>3. /\ Incoming(s) = r \o b \o w
      /\ Incoming(s)' = r \o (b \o SubSeq(w, 1, k)) \o SubSeq(w, k + 1, Len(w))
  BY <1>2 DEF Incoming, Erase, Moves
<1>4. /\ Outgoing(s) = g \o q \o mapSend[SymbolOf(s)]
      /\ Outgoing(s)' = g \o SubSeq(q, 1, l) \o SubSeq(q, l + 1, Len(q))
                           \o mapSend[SymbolOf(s)]
  BY <1>2 DEF Outgoing, Erase, Moves
<1> HIDE DEF r, b, w, g, q
<1>5. (r \o (b \o SubSeq(w, 1, k))) \o SubSeq(w, k + 1, Len(w)) = (r \o b) \o w
  <2> DEFINE front == SubSeq(w, 1, k)
             rest  == SubSeq(w, k + 1, Len(w))
  <2>1. r \in Seq(Values) /\ b \in Seq(Values)
    BY <1>1
  <2>2. front \in Seq(Values) /\ rest \in Seq(Values)
    BY <1>1, FrontIs
  <2>3. front \o rest = w
    BY <1>1, FrontAndRest
  <2> HIDE DEF front, rest
  <2>4. r \o (b \o front) = (r \o b) \o front
    BY <2>1, <2>2, ConcatAssociative, SMTT(30)
  <2> DEFINE before == r \o b
  <2>5. before \in Seq(Values)
    BY <2>1, ConcatProperties, Zenon
  <2> HIDE DEF before
  <2>6. (before \o front) \o rest = before \o (front \o rest)
    BY <2>2, <2>5, ConcatAssociative, SMTT(30)
  <2> QED
    BY <2>3, <2>4, <2>6 DEF before, front, rest
<1>6. (g \o SubSeq(q, 1, l)) \o SubSeq(q, l + 1, Len(q)) = g \o q
  BY <1>1, MoveFront
<1> QED
  BY <1>3, <1>4, <1>5, <1>6

(* What the sessions receive and send.                                     *)
LEMMA ServedStreams ==
  ASSUME Inv, UNCHANGED <<symbol, mapRecv, mapSend, sent, user>>,
         NEW n \in [Sockets -> 0 .. MaxBytes], NEW m \in [Sockets -> 0 .. MaxBytes],
         \A s \in Sockets : n[s] \in Receivable(s) /\ m[s] \in Sendable(s, n[s]),
         recvBuff' = [s \in Sockets |-> Insert(recvBuff[s], SubSeq(wire[s], 1, n[s]))],
         wire' = [s \in Sockets |-> SubSeq(wire[s], n[s] + 1, Len(wire[s]))],
         got' = [s \in Sockets |-> got[s] \o SubSeq(sendBuff[s], 1, m[s])],
         sendBuff' = [s \in Sockets |-> Erase(sendBuff[s], m[s])]
  PROVE  /\ recvBuff' \in [Sockets -> Bytes] /\ wire' \in [Sockets -> Bytes]
         /\ got' \in [Sockets -> Bytes] /\ sendBuff' \in [Sockets -> Bytes]
         /\ Bounds'
         /\ \A s \in Sockets : Incoming(s)' = Incoming(s) /\ Outgoing(s)' = Outgoing(s)
         /\ \A s \in Sockets :
              s \notin connected => recvBuff'[s] = recvBuff[s] /\ wire'[s] = wire[s]
         /\ \A s \in Sockets :
              (s \notin connected \/ ~ IsFirst(s)) => got'[s] = <<>> /\ sendBuff'[s] = <<>>
<1> USE DEF user
<1>1. \A s : SymbolOf(s)' = SymbolOf(s)
  BY SymbolSame
<1>2. ASSUME NEW s \in Sockets
      PROVE  /\ n[s] \in 0 .. Len(wire[s]) /\ m[s] \in 0 .. Len(sendBuff[s])
             /\ s \notin connected => n[s] = 0 /\ m[s] = 0
  <2>1. Len(wire[s]) \in Nat /\ Len(sendBuff[s]) \in Nat
    BY LengthsAre DEF Inv
  <2>2. n[s] \in Receivable(s) /\ m[s] \in Sendable(s, n[s])
    OBVIOUS
  <2>3. n[s] \in 0 .. Len(wire[s]) /\ (s \notin connected => n[s] = 0)
    BY <2>1, <2>2 DEF Receivable, ToReceive
  <2>4. m[s] \in 0 .. Len(sendBuff[s]) /\ (s \notin connected => m[s] = 0)
    BY <2>1, <2>2 DEF Sendable
  <2> QED
    BY <2>3, <2>4
<1>3. ASSUME NEW s \in Sockets
      PROVE  /\ SubSeq(wire[s], 1, n[s]) \in Bytes /\ wire'[s] \in Bytes
             /\ Len(SubSeq(wire[s], 1, n[s])) = n[s]
             /\ Len(wire'[s]) = Len(wire[s]) - n[s]
             /\ SubSeq(sendBuff[s], 1, m[s]) \in Bytes /\ sendBuff'[s] \in Bytes
             /\ Len(SubSeq(sendBuff[s], 1, m[s])) = m[s]
             /\ Len(sendBuff'[s]) = Len(sendBuff[s]) - m[s]
  <2>1. wire[s] \in Bytes /\ sendBuff[s] \in Bytes /\ <<>> \in Bytes
    BY EmptySeq DEF Inv, Types, Bytes
  <2>2. /\ wire'[s] = Erase(wire[s], n[s]) /\ sendBuff'[s] = Erase(sendBuff[s], m[s])
    BY DEF Erase
  <2>3. /\ SubSeq(wire[s], 1, n[s]) \in Bytes /\ Len(SubSeq(wire[s], 1, n[s])) = n[s]
        /\ Erase(wire[s], n[s]) \in Bytes
        /\ Len(Erase(wire[s], n[s])) = Len(wire[s]) - n[s]
    BY <1>2, <2>1, FrontErased
  <2>4. /\ SubSeq(sendBuff[s], 1, m[s]) \in Bytes
        /\ Len(SubSeq(sendBuff[s], 1, m[s])) = m[s]
        /\ Erase(sendBuff[s], m[s]) \in Bytes
        /\ Len(Erase(sendBuff[s], m[s])) = Len(sendBuff[s]) - m[s]
    BY <1>2, <2>1, FrontErased
  <2> QED
    BY <2>2, <2>3, <2>4
<1>4. ASSUME NEW s \in Sockets
      PROVE  /\ recvBuff'[s] = recvBuff[s] \o SubSeq(wire[s], 1, n[s])
             /\ got'[s] = got[s] \o SubSeq(sendBuff[s], 1, m[s])
             /\ recvBuff'[s] \in Bytes /\ Len(recvBuff'[s]) = Len(recvBuff[s]) + n[s]
             /\ got'[s] \in Bytes /\ Len(got'[s]) = Len(got[s]) + m[s]
  <2>1. recvBuff[s] \in Seq(Values) /\ got[s] \in Seq(Values)
    BY DEF Inv, Types, Bytes
  <2>2. /\ recvBuff'[s] = recvBuff[s] \o SubSeq(wire[s], 1, n[s])
        /\ got'[s] = got[s] \o SubSeq(sendBuff[s], 1, m[s])
    BY DEF Insert
  <2> DEFINE p == SubSeq(wire[s], 1, n[s])
             q == SubSeq(sendBuff[s], 1, m[s])
  <2>3. p \in Seq(Values) /\ q \in Seq(Values) /\ Len(p) = n[s] /\ Len(q) = m[s]
    BY <1>3 DEF Bytes
  <2> HIDE DEF p, q
  <2> DEFINE a == recvBuff[s]
             b == got[s]
  <2>4. a \in Seq(Values) /\ b \in Seq(Values) /\ p \in Seq(Values) /\ q \in Seq(Values)
    BY <2>1, <2>3
  <2> HIDE DEF a, b
  <2>5. a \o p \in Seq(Values) /\ Len(a \o p) = Len(a) + Len(p)
    BY <2>4, ConcatProperties
  <2>6. b \o q \in Seq(Values) /\ Len(b \o q) = Len(b) + Len(q)
    BY <2>4, ConcatProperties
  <2> QED
    BY <2>2, <2>3, <2>5, <2>6 DEF a, b, p, q, Bytes
<1>5. /\ recvBuff' \in [Sockets -> Bytes] /\ wire' \in [Sockets -> Bytes]
      /\ got' \in [Sockets -> Bytes] /\ sendBuff' \in [Sockets -> Bytes]
  <2>1. /\ recvBuff' = [s \in Sockets |-> recvBuff'[s]] /\ wire' = [s \in Sockets |-> wire'[s]]
        /\ got' = [s \in Sockets |-> got'[s]] /\ sendBuff' = [s \in Sockets |-> sendBuff'[s]]
    OBVIOUS
  <2> QED
    BY <1>3, <1>4, <2>1
<1>6. ASSUME NEW s \in Sockets
      PROVE  /\ Len(recvBuff'[s]) + Len(wire'[s]) <= sent[s]
             /\ Len(got'[s]) + Len(sendBuff'[s]) + Len(mapSend[SymbolOf(s)])
                  <= written[SymbolOf(s)]
  <2> DEFINE a == Len(recvBuff[s])
             b == Len(wire[s])
             c == Len(got[s])
             d == Len(sendBuff[s])
             k == n[s]
             l == m[s]
  <2>1. /\ a \in Nat /\ b \in Nat /\ c \in Nat /\ d \in Nat /\ k \in Nat /\ l \in Nat
    BY <1>2, LengthsAre DEF Inv
  <2>2. /\ a + b <= sent[s]
        /\ c + d + Len(mapSend[SymbolOf(s)]) <= written[SymbolOf(s)]
    BY DEF Inv, Bounds
  <2>3. /\ Len(recvBuff'[s]) = a + k /\ Len(wire'[s]) = b - k
        /\ Len(got'[s]) = c + l /\ Len(sendBuff'[s]) = d - l
    BY <1>3, <1>4
  <2> HIDE DEF a, b, c, d, k, l
  <2>4. (a + k) + (b - k) = a + b /\ (c + l) + (d - l) = c + d
    BY <2>1
  <2> QED
    BY <2>2, <2>3, <2>4
<1>7. Bounds'
  BY <1>1, <1>6 DEF Bounds
<1>8. ASSUME NEW s \in Sockets
      PROVE  Incoming(s)' = Incoming(s) /\ Outgoing(s)' = Outgoing(s)
  <2>1. n[s] \in 0 .. Len(wire[s]) /\ m[s] \in 0 .. Len(sendBuff[s])
    BY <1>2
  <2>2. wire'[s] = Erase(wire[s], n[s]) /\ sendBuff'[s] = Erase(sendBuff[s], m[s])
    BY DEF Erase
  <2> QED
    BY <1>4, <2>1, <2>2, BytesMove DEF Inv, Moves
<1>9. ASSUME NEW s \in Sockets, s \notin connected
      PROVE  recvBuff'[s] = recvBuff[s] /\ wire'[s] = wire[s]
  <2>1. n[s] = 0 /\ recvBuff[s] \in Seq(Values) /\ wire[s] \in Seq(Values)
    BY <1>2, <1>9, StreamsAre DEF Inv, Bytes
  <2>2. SubSeq(wire[s], 1, 0) = <<>>
    BY SubSeqEmpty
  <2>3. SubSeq(wire[s], 0 + 1, Len(wire[s])) = wire[s]
    BY <2>1, SubSeqFull
  <2> QED
    BY <1>4, <2>1, <2>2, <2>3, ConcatEmptySeq
<1>10. ASSUME NEW s \in Sockets, s \notin connected \/ ~ IsFirst(s)
       PROVE  got'[s] = <<>> /\ sendBuff'[s] = <<>>
  <2>1. got[s] = <<>> /\ sendBuff[s] = <<>>
    BY <1>10 DEF Inv, OnlyFirst
  <2>2. m[s] = 0
    BY <1>2, <2>1
  <2>3. SubSeq(<<>>, 1, 0) = <<>> /\ SubSeq(<<>>, 0 + 1, Len(<<>>)) = <<>>
    BY SubSeqEmpty, EmptySeq
  <2>4. <<>> \o <<>> = <<>>
    BY EmptySeq, ConcatEmptySeq
  <2> QED
    BY <1>4, <2>1, <2>2, <2>3, <2>4 DEF Erase
<1> QED
  BY <1>5, <1>7, <1>8, <1>9, <1>10

(* The guests that are accepted were waiting, and are new sessions.        *)
LEMMA ServeKeeps ==
  ASSUME Inv, Serve
  PROVE  Inv'
<1> USE DEF user
<1> DEFINE ready == (selector.reads \cap listening) \ accepted
<1>1. PICK pick \in [ready -> SUBSET Guests] :
        /\ \A l \in ready : pick[l] \in Accepted(l)
        /\ LET new == UNION {pick[l] : l \in ready}
           IN  /\ \E order \in SetToSeqs(new) : sessions' = sessions \o order
               /\ connected' = connected \cup new
               /\ link' = [s \in Sockets |-> IF s \in new THEN "up" ELSE link[s]]
  BY DEF Serve
<1> DEFINE new == UNION {pick[l] : l \in ready}
<1>2. PICK order \in SetToSeqs(new) : sessions' = sessions \o order
  BY <1>1
<1>3. /\ connected' = connected \cup new
      /\ link' = [s \in Sockets |-> IF s \in new THEN "up" ELSE link[s]]
  BY <1>1
<1>4. /\ accepted' = accepted \cup ready
      /\ selector' = [at |-> "top", reads |-> {}, writes |-> {}]
      /\ UNCHANGED <<symbol, listening, mapRecv, mapSend, sent, user>>
  BY DEF Serve
<1>5. new \subseteq Guests /\ \A g \in new : link[g] = "waiting"
  <2>1. ASSUME NEW l \in ready, NEW g \in pick[l] PROVE g \in Guests /\ link[g] = "waiting"
    <3>1. pick[l] \in Accepted(l)
      BY <1>1
    <3>2. \A one \in Accepts(l) :
            \A h \in one : h \in Guests /\ link[h] = "waiting"
      BY DEF Accepts
    <3> QED
      BY <2>1, <3>1, <3>2 DEF Accepted
  <2> QED
    BY <2>1
<1>6. ready \subseteq listening
  OBVIOUS
<1> HIDE DEF ready, new
<1>7. new \subseteq Sockets /\ new \cap InVector = {} /\ IsFiniteSet(new)
  <2>1. IsFiniteSet(Guests)
    BY ServerHelperAssumption
  <2>2. IsFiniteSet(new)
    BY <1>5, <2>1, FS_Subset
  <2>3. \A g \in new : g \notin InVector
    BY <1>5 DEF Inv, Links
  <2> QED
    BY <1>5, <2>2, <2>3 DEF Sockets
<1>8. order \in Seq(Sockets) /\ IsInjective(order) /\ Range(order) = new
  <2>1. order \in Seq(new) /\ IsInjective(order) /\ Range(order) = new
    BY <1>2, <1>7, OrderHasAll
  <2> QED
    BY <1>7, <2>1, SeqMonotonic
<1>9. /\ sessions' \in Seq(Sockets) /\ IsInjective(sessions')
      /\ InVector' = InVector \cup new
      /\ \A s : IsFirst(s) => IsFirst(s)'
      /\ \A y : HasSession(y) => HasSession(y)'
      /\ \A s : IsOnly(s)' => IsOnly(s)
  <2>1. symbol' = symbol /\ Types /\ Range(order) \cap InVector = {}
    BY <1>4, <1>7, <1>8 DEF Inv
  <2> QED
    BY <1>2, <1>8, <2>1, Joining
<1>10. /\ recvBuff' \in [Sockets -> Bytes] /\ wire' \in [Sockets -> Bytes]
       /\ got' \in [Sockets -> Bytes] /\ sendBuff' \in [Sockets -> Bytes]
       /\ Bounds'
       /\ \A s \in Sockets : Incoming(s)' = Incoming(s) /\ Outgoing(s)' = Outgoing(s)
       /\ \A s \in Sockets :
            s \notin connected => recvBuff'[s] = recvBuff[s] /\ wire'[s] = wire[s]
       /\ \A s \in Sockets :
            (s \notin connected \/ ~ IsFirst(s)) => got'[s] = <<>> /\ sendBuff'[s] = <<>>
  <2>1. PICK n \in [Sockets -> 0 .. MaxBytes], m \in [Sockets -> 0 .. MaxBytes] :
          /\ \A s \in Sockets : n[s] \in Receivable(s) /\ m[s] \in Sendable(s, n[s])
          /\ recvBuff' = [s \in Sockets |-> Insert(recvBuff[s], SubSeq(wire[s], 1, n[s]))]
          /\ wire' = [s \in Sockets |-> SubSeq(wire[s], n[s] + 1, Len(wire[s]))]
          /\ got' = [s \in Sockets |-> got[s] \o SubSeq(sendBuff[s], 1, m[s])]
          /\ sendBuff' = [s \in Sockets |-> Erase(sendBuff[s], m[s])]
    BY DEF Serve
  <2> QED
    BY <1>4, <2>1, ServedStreams
<1>11. /\ link' \in [Sockets -> {"down", "waiting", "up", "closed", "gone"}]
       /\ \A s \in Sockets : link'[s] = IF s \in new THEN "up" ELSE link[s]
  BY <1>3 DEF Inv, Types
<1>12. \A s : SymbolOf(s)' = SymbolOf(s)
  BY <1>4, SymbolSame
<1>13. connected \subseteq InVector
  BY DEF Inv, Types
<1>14. Types'
  <2>1. selector' \in [at     : {"off", "top", "select", "serve"},
                       reads  : SUBSET (Listeners \cup Sockets),
                       writes : SUBSET Sockets]
    BY <1>4
  <2>2. accepted' \subseteq listening' /\ connected' \subseteq InVector'
    BY <1>3, <1>4, <1>6, <1>9, <1>13 DEF Inv, Types
  <2> QED
    BY <1>4, <1>9, <1>10, <1>11, <2>1, <2>2 DEF Inv, Types
<1>15. Links'
  <2>1. \A c \in Clients : c \in Sockets /\ c \notin new
    BY <1>5, ServerHelperAssumption DEF Sockets
  <2>2. \A g \in Guests : g \in Sockets
    BY DEF Sockets
  <2> QED
    BY <1>9, <1>11, <2>1, <2>2 DEF Inv, Links
<1>16. Pending'
  BY <1>4, PendingSame DEF Inv
<1>17. Fresh'
  <2>1. ASSUME NEW s \in Sockets, s \notin InVector'
        PROVE  /\ recvBuff'[s] = <<>>
               /\ link'[s] # "gone" => wire'[s] = [i \in 1 .. sent'[s] |-> i]
    <3>1. s \notin InVector /\ s \notin new /\ s \notin connected
      BY <1>9, <1>13, <2>1
    <3>2. recvBuff'[s] = recvBuff[s] /\ wire'[s] = wire[s] /\ link'[s] = link[s]
      BY <1>10, <1>11, <3>1
    <3> QED
      BY <1>4, <3>1, <3>2 DEF Inv, Fresh
  <2> QED
    BY <2>1 DEF Fresh
<1>18. OnlyFirst'
  BY <1>3, <1>9, <1>10 DEF OnlyFirst
<1>19. Unnamed'
  BY <1>4, <1>9 DEF Inv, Unnamed
<1>20. ASSUME NEW s \in Sockets, (s \in InVector)', IsOnly(s)'
       PROVE  /\ Incoming(s)' = [i \in 1 .. sent'[s] |-> i]
              /\ EndsAt(Outgoing(s)', written'[SymbolOf(s)'])
  <2>1. Incoming(s)' = Incoming(s) /\ Outgoing(s)' = Outgoing(s)
    BY <1>10
  <2>2. CASE s \in InVector
    BY <1>4, <1>9, <1>12, <1>20, <2>1, <2>2 DEF Inv, InOrder, OutOrder
  <2>3. CASE s \notin InVector
    <3>1. s \in new /\ link[s] # "gone"
      BY <1>5, <1>9, <1>20, <2>3
    <3>2. ~ HasSession(SymbolOf(s))
      <4>1. \A u \in InVector : SymbolOf(u) # SymbolOf(s)
        BY <1>9, <1>12, <1>20, <2>3 DEF IsOnly
      <4> QED
        BY <4>1 DEF HasSession
    <3>3. /\ Incoming(s) = [i \in 1 .. sent[s] |-> i]
          /\ EndsAt(Outgoing(s), written[SymbolOf(s)])
      BY <2>3, <3>1, <3>2, NewStreams
    <3> QED
      BY <1>4, <1>12, <2>1, <3>3
  <2> QED
    BY <2>2, <2>3
<1>21. InOrder' /\ OutOrder'
  BY <1>20 DEF InOrder, OutOrder, EndsAt
<1> QED
  BY <1>10, <1>14, <1>15, <1>16, <1>17, <1>18, <1>19, <1>21 DEF Inv

-----------------------------------------------------------------------------
(* The theorems                                                            *)

LEMMA StutterKeeps ==
  ASSUME Inv, UNCHANGED vars
  PROVE  Inv'
<1> USE DEF vars, helper, network, user
<1>1. Types'
  BY DEF Inv, Types, InVector
<1> QED
  BY <1>1, SelectorKeeps

LEMMA Invariance == Spec => []Inv
<1>1. Init => Inv
  BY InitKeeps
<1>2. Inv /\ [Next]_vars => Inv'
  <2> SUFFICES ASSUME Inv, [Next]_vars PROVE Inv'
    OBVIOUS
  <2>1. CASE StartThread
    BY <2>1, StartThreadKeeps
  <2>2. CASE Snapshot
    BY <2>2, SnapshotKeeps
  <2>3. CASE Select
    BY <2>3, SelectKeeps
  <2>4. CASE Serve
    BY <2>4, ServeKeeps
  <2>5. ASSUME NEW l \in Listeners, AddLitener(l) PROVE Inv'
    BY <2>5, AddLitenerKeeps
  <2>6. ASSUME NEW c \in Clients, AddClient(c) PROVE Inv'
    BY <2>6, AddClientKeeps
  <2>7. CASE Update
    BY <2>7, UpdateKeeps
  <2>8. ASSUME NEW y \in Symbols, Read(y) PROVE Inv'
    BY <2>8, ReadKeeps
  <2>9. ASSUME NEW y \in Symbols, Write(y) PROVE Inv'
    BY <2>9, WriteKeeps
  <2>10. ASSUME NEW s \in Sockets, PeerSends(s) PROVE Inv'
    BY <2>10, PeerSendsKeeps
  <2>11. CASE Connections
    BY <2>11, ConnectionsKeep
  <2>12. CASE UNCHANGED vars
    BY <2>12, StutterKeeps
  <2> QED
    BY <2>1, <2>2, <2>3, <2>4, <2>5, <2>6, <2>7, <2>8, <2>9, <2>10, <2>11, <2>12
    DEF Next
<1> QED
  BY <1>1, <1>2, PTL DEF Spec

(* A stream of the bound's length.                                         *)
LEMMA BytesAreStream ==
  ASSUME NEW q \in Bytes, Len(q) <= MaxBytes
  PROVE  q \in Stream
<1>1. Len(q) \in Nat /\ q \in [1 .. Len(q) -> 1 .. MaxBytes]
  BY LenProperties DEF Bytes, Values
<1>2. Len(q) \in 0 .. MaxBytes
  BY <1>1, ServerHelperAssumption
<1> QED
  BY <1>1, <1>2 DEF Stream

(* The types, and that no buffer outgrows what was sent or written.        *)
THEOREM ServerTypeCorrect == Spec => []TypeOK
<1>1. ASSUME Inv PROVE TypeOK
  <2> USE <1>1
  <2>1. ASSUME NEW s \in Sockets
        PROVE  /\ recvBuff[s] \in Stream /\ wire[s] \in Stream
               /\ got[s] \in Stream /\ sendBuff[s] \in Stream
    <3> DEFINE y == SymbolOf(s)
               a == Len(recvBuff[s])
               b == Len(wire[s])
               c == Len(got[s])
               d == Len(sendBuff[s])
               e == Len(mapSend[y])
               t == sent[s]
               w == written[y]
    <3>1. y \in Symbols
      BY SymbolIs DEF Inv
    <3>2. t \in 0 .. MaxBytes /\ w \in 0 .. MaxBytes
      BY <3>1 DEF Inv, Types
    <3>3. a + b <= t /\ c + d + e <= w
      BY DEF Inv, Bounds
    <3>4. a \in Nat /\ b \in Nat /\ c \in Nat /\ d \in Nat /\ e \in Nat
      BY LengthsAre DEF Inv
    <3> HIDE DEF a, b, c, d, e, t, w
    <3>5. a <= MaxBytes /\ b <= MaxBytes /\ c <= MaxBytes /\ d <= MaxBytes
      BY <3>2, <3>3, <3>4, ServerHelperAssumption
    <3>6. /\ recvBuff[s] \in Bytes /\ wire[s] \in Bytes
          /\ got[s] \in Bytes /\ sendBuff[s] \in Bytes
      BY DEF Inv, Types
    <3> QED
      BY <3>5, <3>6, BytesAreStream DEF a, b, c, d
  <2>2. ASSUME NEW y \in Symbols PROVE mapSend[y] \in Stream
    <3>1. mapSend[y] \in Bytes /\ written[y] \in 0 .. MaxBytes
      BY DEF Inv, Types
    <3>2. Len(mapSend[y]) <= written[y] /\ Len(mapSend[y]) \in Nat
      BY <3>1, LenProperties DEF Inv, Pending, Bytes
    <3>3. Len(mapSend[y]) <= MaxBytes
      BY <3>1, <3>2, ServerHelperAssumption
    <3> QED
      BY <3>1, <3>3, BytesAreStream
  <2>3. /\ recvBuff \in [Sockets -> Stream] /\ wire \in [Sockets -> Stream]
        /\ got \in [Sockets -> Stream] /\ sendBuff \in [Sockets -> Stream]
    BY <2>1 DEF Inv, Types
  <2>4. mapSend \in [Symbols -> Stream]
    BY <2>2 DEF Inv, Types
  <2>5. \A y \in Symbols : mapRecv[y] \in Seq(1 .. MaxBytes)
    BY DEF Inv, Types, Bytes, Values
  <2>6. InVector \subseteq Sockets
    BY InVectorIs DEF Inv
  <2>7. /\ selector.at \in {"off", "top", "select", "serve"}
        /\ selector.reads \subseteq Listeners \cup Sockets
        /\ selector.writes \subseteq Sockets
    BY DEF Inv, Types
  <2> QED
    BY <2>3, <2>4, <2>5, <2>6, <2>7 DEF TypeOK, Inv, Types
<1> QED
  BY <1>1, Invariance, PTL

(* What recv returned reaches Read as it was sent: none lost, none twice.  *)
THEOREM ReceivedInOrderHolds == Spec => []ReceivedInOrder
<1>1. ASSUME Inv PROVE ReceivedInOrder
  <2>1. InVector \subseteq Sockets
    BY <1>1, InVectorIs DEF Inv
  <2> QED
    BY <1>1, <2>1 DEF Inv, InOrder, ReceivedInOrder, Incoming
<1> QED
  BY <1>1, Invariance, PTL

(* What Write was given is sent in that order, and none of it twice.       *)
THEOREM SentInOrderHolds == Spec => []SentInOrder
<1>1. ASSUME Inv PROVE SentInOrder
  <2>1. InVector \subseteq Sockets
    BY <1>1, InVectorIs DEF Inv
  <2> QED
    BY <1>1, <2>1 DEF Inv, OutOrder, SentInOrder, Outgoing, EndsAt
<1> QED
  BY <1>1, Invariance, PTL

(* Only one session of a symbol is given what is written for it.           *)
THEOREM WrittenToOneHolds == Spec => []WrittenToOne
<1>1. ASSUME Inv PROVE WrittenToOne
  <2> SUFFICES ASSUME NEW s \in InVector, NEW u \in InVector, s # u,
                      SymbolOf(s) = SymbolOf(u)
               PROVE  Range(got[s] \o sendBuff[s]) \cap Range(got[u] \o sendBuff[u]) = {}
    BY DEF WrittenToOne
  <2>1. s \in Sockets /\ u \in Sockets
    BY <1>1, InVectorIs DEF Inv
  <2>2. ~ IsFirst(s) \/ ~ IsFirst(u)
    BY <1>1, OneIsFirst DEF Inv
  <2>3. Range(<<>> \o <<>>) = {}
    BY DEF Range
  <2>4. CASE ~ IsFirst(s)
    <3>1. got[s] = <<>> /\ sendBuff[s] = <<>>
      BY <1>1, <2>1, <2>4 DEF Inv, OnlyFirst
    <3> QED
      BY <2>3, <3>1
  <2>5. CASE ~ IsFirst(u)
    <3>1. got[u] = <<>> /\ sendBuff[u] = <<>>
      BY <1>1, <2>1, <2>5 DEF Inv, OnlyFirst
    <3> QED
      BY <2>3, <3>1
  <2> QED
    BY <2>2, <2>4, <2>5
<1> QED
  BY <1>1, Invariance, PTL
=============================================================================
