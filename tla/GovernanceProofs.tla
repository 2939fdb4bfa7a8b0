--------------------------- MODULE GovernanceProofs --------------------------
(***************************************************************************)
(* Proofs about the answers of GovernanceQueries: for any registries,      *)
(* whatever a caller asks of them.                                         *)
(***************************************************************************)
EXTENDS GovernanceQueries, FiniteSetTheorems, SequenceTheorems, NaturalsInduction,
        WellFoundedInduction, TLAPS

-----------------------------------------------------------------------------
(* Numbers, ranks and recursive functions.                                 *)

\* A set of numbers that is not empty has a least member.
LEMMA LeastMember ==
    ASSUME NEW S \in SUBSET Nat, S # {}
    PROVE  \E n \in S : \A m \in S : n <= m
<1> DEFINE Less == OpToRel(<, Nat)
<1>1. \A m, n \in Nat : <<m, n>> \in Less <=> m < n
  BY DEF OpToRel
<1>2. IsWellFoundedOn(Less, Nat)
  BY NatLessThanWellFounded, Zenon
<1> HIDE DEF Less
<1>3. PICK n \in S : \A m \in S : ~(<<m, n>> \in Less)
  BY <1>2, WFMin
<1>4. \A m \in S : ~(m < n)
  BY <1>1, <1>3
<1> QED BY <1>3, <1>4

\* What a sequence is.
LEMMA SeqFacts ==
    ASSUME NEW h, h \in Seq(Range(h))
    PROVE  /\ Len(h) \in Nat /\ DOMAIN h = 1..Len(h) /\ \A n \in 1..Len(h) : h[n] \in Range(h)
           /\ h # <<>> => Len(h) > 0
<1>1. PICK S : S = Range(h)
  OBVIOUS
<1>2. Len(h) \in Nat /\ DOMAIN h = 1..Len(h) /\ h \in [1..Len(h) -> S]
  BY <1>1, LenProperties
<1>3. h # <<>> => Len(h) > 0
  <2>1. h \in Seq(S)
    BY <1>1
  <2>2. h # <<>> => Len(h) \in Nat \ {0}
    BY <2>1, EmptySeq
  <2> QED BY <2>2
<1> QED BY <1>1, <1>2, <1>3

\* What a sequence with one more member is.
LEMMA AppendFacts ==
    ASSUME NEW h, h \in Seq(Range(h)), NEW e
    PROVE  /\ Append(h, e) \in Seq(Range(Append(h, e))) /\ Len(Append(h, e)) = Len(h) + 1
           /\ \A n \in 1..Len(h) : Append(h, e)[n] = h[n]
           /\ Append(h, e)[Len(h) + 1] = e
           /\ \A x : x \in Range(Append(h, e)) <=> x \in Range(h) \/ x = e
<1> DEFINE S == Range(h) \cup {e}
           k == Append(h, e)
<1>1. h \in Seq(S) /\ e \in S
  <2>1. Range(h) \subseteq S
    OBVIOUS
  <2> HIDE DEF S
  <2>2. Seq(Range(h)) \subseteq Seq(S)
    BY <2>1, SeqMonotonic
  <2>3. e \in S
    BY DEF S
  <2> QED BY <2>2, <2>3
<1> HIDE DEF S
<1>2. /\ k \in Seq(S) /\ Len(k) = Len(h) + 1 /\ \A n \in 1..Len(h) : k[n] = h[n]
      /\ k[Len(h) + 1] = e
  BY <1>1, AppendProperties
<1>3. Len(h) \in Nat /\ DOMAIN h = 1..Len(h)
  BY SeqFacts
<1> HIDE DEF k
<1>4. DOMAIN k = 1..Len(k) /\ k \in [1..Len(k) -> S]
  BY <1>2, LenProperties
<1>5. ASSUME NEW x PROVE x \in Range(k) <=> x \in Range(h) \/ x = e
  <2>1. \A n : n \in 1..Len(k) <=> n \in 1..Len(h) \/ n = Len(h) + 1
    BY <1>2, <1>3
  <2> QED BY <1>2, <1>3, <1>4, <2>1, Zenon DEF Range
<1>6. k \in Seq(Range(k))
  <2>1. k \in [1..Len(k) -> Range(k)]
    BY <1>4 DEF Range
  <2>2. Len(k) \in Nat
    BY <1>2, <1>3
  <2> QED BY <2>1, <2>2, IsASeq
<1> QED BY <1>2, <1>5, <1>6 DEF k

\* A function on the numbers up to N is a sequence of that length.
LEMMA FunctionSeq ==
    ASSUME NEW N \in Nat, NEW S, NEW q \in [1..N -> S]
    PROVE  q \in Seq(S) /\ q \in Seq(Range(q)) /\ Len(q) = N
<1>1. q \in Seq(S)
  BY IsASeq
<1>2. Len(q) = N
  <2>1. DOMAIN q = 1..N /\ DOMAIN q = 1..Len(q) /\ Len(q) \in Nat
    BY <1>1, LenProperties
  <2> QED BY <2>1
<1>3. q \in [1..N -> Range(q)]
  BY DEF Range
<1>4. q \in Seq(Range(q))
  BY <1>3, IsASeq
<1> QED BY <1>1, <1>2, <1>4

\* A strict order of the members of a set.
Orders(R, S) ==
    /\ \A x \in S : <<x, x>> \notin R
    /\ \A x, y, z \in S : <<x, y>> \in R /\ <<y, z>> \in R => <<x, z>> \in R
    /\ \A x, y \in S : x # y => <<x, y>> \in R \/ <<y, x>> \in R

\* What a finite set in an order is: a sequence with each of its members once.
LEMMA InOrderLists ==
    ASSUME NEW S, IsFiniteSet(S), NEW R, Orders(R, S)
    PROVE  LET q == InOrder(S, R)
           IN  /\ Cardinality(S) \in Nat /\ q \in [1..Cardinality(S) -> S]
               /\ q \in Seq(S) /\ q \in Seq(Range(q)) /\ Len(q) = Cardinality(S)
               /\ \A x \in S : \E n \in 1..Cardinality(S) : q[n] = x
               /\ \A m, n \in 1..Cardinality(S) : q[m] = q[n] => m = n
<1> DEFINE N == Cardinality(S)
           q == InOrder(S, R)
           below(x) == {y \in S : <<y, x>> \in R}
           rank == [x \in S |-> Cardinality(below(x))]
<1>1. N \in Nat
  BY FS_CardinalityType
<1>2. ASSUME NEW x \in S
      PROVE  IsFiniteSet(below(x)) /\ Cardinality(below(x)) \in Nat /\ Cardinality(below(x)) < N
  <2>1. below(x) \in SUBSET S /\ x \notin below(x)
    BY DEF Orders
  <2>2. IsFiniteSet(below(x)) /\ Cardinality(below(x)) <= N
    BY <2>1, FS_Subset
  <2>3. Cardinality(below(x)) # N
    BY <2>1, FS_Subset
  <2>4. Cardinality(below(x)) \in Nat
    BY <2>2, FS_CardinalityType
  <2> QED BY <1>1, <2>2, <2>3, <2>4
<1>3. ASSUME NEW x \in S, NEW y \in S, <<x, y>> \in R
      PROVE  Cardinality(below(x)) < Cardinality(below(y))
  <2>1. below(x) \in SUBSET below(y) /\ x \in below(y) /\ x \notin below(x)
    BY <1>3 DEF Orders
  <2> HIDE DEF below
  <2>2. Cardinality(below(x)) <= Cardinality(below(y)) /\ Cardinality(below(x)) # Cardinality(below(y))
    BY <1>2, <2>1, FS_Subset
  <2> QED BY <1>2, <2>2
<1>4. ASSUME NEW x \in S, NEW y \in S, x # y PROVE Cardinality(below(x)) # Cardinality(below(y))
  <2>1. <<x, y>> \in R \/ <<y, x>> \in R
    BY <1>4 DEF Orders
  <2> HIDE DEF below
  <2> QED BY <1>2, <1>3, <2>1
<1> HIDE DEF below
<1>5. rank \in [S -> 0..(N - 1)]
  BY <1>1, <1>2
<1>6. \A x, y \in S : rank[x] = rank[y] => x = y
  BY <1>4
<1>7. ASSUME NEW n \in 1..N PROVE \E x \in S : Cardinality(below(x)) = n - 1
  <2>1. IsFiniteSet(0..(N - 1)) /\ Cardinality(0..(N - 1)) = N
    <3>1. 0 \in Int /\ N - 1 \in Int /\ ~(0 > N - 1) /\ (N - 1) - 0 + 1 = N
      BY <1>1
    <3> HIDE DEF N
    <3> QED BY <3>1, FS_Interval
  <2>2. rank \in Injection(S, 0..(N - 1))
    <3> HIDE DEF rank
    <3> QED BY <1>5, <1>6 DEF Injection, IsInjective
  <2>3. rank \in Surjection(S, 0..(N - 1))
    <3> HIDE DEF rank
    <3> QED BY <2>1, <2>2, FS_Injection
  <2>4. n - 1 \in 0..(N - 1)
    BY <1>1
  <2>5. \E x \in S : rank[x] = n - 1
    <3> HIDE DEF rank
    <3> QED BY <2>3, <2>4 DEF Surjection
  <2> QED BY <2>5
<1>8. \A n \in 1..N : q[n] = CHOOSE x \in S : Cardinality(below(x)) = n - 1
  BY DEF InOrder, below
<1>9. \A n \in 1..N : q[n] \in S /\ Cardinality(below(q[n])) = n - 1
  <2> HIDE DEF q, N
  <2> QED BY <1>7, <1>8
<1>10. q = [n \in 1..N |-> q[n]]
  <2>1. q = [n \in 1..N |-> CHOOSE x \in S : Cardinality(below(x)) = n - 1]
    BY DEF InOrder, below
  <2> HIDE DEF q, N
  <2> QED BY <2>1
<1> HIDE DEF q, N
<1>11. q \in [1..N -> S]
  BY <1>9, <1>10
<1>12. q \in Seq(S) /\ q \in Seq(Range(q)) /\ Len(q) = N
  BY <1>1, <1>11, FunctionSeq
<1>13. \A x \in S : \E n \in 1..N : q[n] = x
  <2> SUFFICES ASSUME NEW x \in S PROVE \E n \in 1..N : q[n] = x
    OBVIOUS
  <2>1. PICK c \in Nat : c = Cardinality(below(x)) /\ c < N
    BY <1>2
  <2>2. c + 1 \in 1..N /\ (c + 1) - 1 = c
    BY <1>1, <2>1
  <2>3. q[c + 1] \in S /\ Cardinality(below(q[c + 1])) = c
    BY <1>9, <2>2
  <2> QED BY <1>4, <2>1, <2>2, <2>3
<1>14. \A m, n \in 1..N : q[m] = q[n] => m = n
  <2> SUFFICES ASSUME NEW m \in 1..N, NEW n \in 1..N, q[m] = q[n] PROVE m = n
    OBVIOUS
  <2>1. m - 1 = n - 1
    BY <1>9
  <2> QED BY <1>1, <2>1
<1> QED BY <1>1, <1>11, <1>12, <1>13, <1>14 DEF N, q

\* Where an identity is in the order, and that it is an order.
LEMMA PositionFacts ==
    ASSUME NEW order, order \in Seq(Range(order)), NEW x \in Range(order)
    PROVE  Position(order, x) \in 1..Len(order) /\ order[Position(order, x)] = x
<1>1. \E n \in 1..Len(order) : order[n] = x
  BY SeqFacts DEF Range
<1> QED BY <1>1 DEF Position

LEMMA EarlierOrders ==
    ASSUME NEW order, order \in Seq(Range(order)), NEW S \in SUBSET Range(order),
           NEW R, R = {p \in Range(order) \X Range(order) : Position(order, p[1]) < Position(order, p[2])}
    PROVE  Orders(R, S)
<1>1. ASSUME NEW x \in S PROVE Position(order, x) \in Nat /\ order[Position(order, x)] = x
  <2>1. Len(order) \in Nat
    BY SeqFacts
  <2> QED BY <2>1, PositionFacts
<1>2. \A x, y \in S : <<x, y>> \in R <=> Position(order, x) < Position(order, y)
  OBVIOUS
<1>3. \A x, y \in S : x # y => Position(order, x) # Position(order, y)
  BY <1>1
<1> QED BY <1>1, <1>2, <1>3 DEF Orders

LEMMA IdsFinite == IsFiniteSet(Ids) /\ \A S \in SUBSET Ids : IsFiniteSet(S) /\ Orders(EarlierId, S)
<1>1. IdOrder \in Seq(Range(IdOrder))
  BY IdOrderAssumption
<1>2. IsFiniteSet(Ids)
  <2>1. Len(IdOrder) \in Nat /\ DOMAIN IdOrder = 1..Len(IdOrder)
    BY <1>1, SeqFacts
  <2>2. IdOrder \in Surjection(1..Len(IdOrder), Ids)
    BY <2>1, <1>1, LenProperties DEF Surjection, Ids, Range
  <2>3. IsFiniteSet(1..Len(IdOrder))
    BY <2>1, FS_Interval
  <2> QED BY <2>2, <2>3, FS_Surjection
<1>3. ASSUME NEW S \in SUBSET Ids PROVE IsFiniteSet(S) /\ Orders(EarlierId, S)
  <2>1. IsFiniteSet(S)
    BY <1>2, FS_Subset
  <2>2. Orders(EarlierId, S)
    BY <1>1, EarlierOrders DEF EarlierId, Ids
  <2> QED BY <2>1, <2>2
<1> QED BY <1>2, <1>3

\* A canonical tuple has each identity of its set once.
LEMMA OrderedLists ==
    ASSUME NEW S \in SUBSET Ids
    PROVE  /\ IsFiniteSet(S) /\ Cardinality(S) \in Nat /\ Ordered(S) \in [1..Cardinality(S) -> S]
           /\ Ordered(S) \in Seq(S) /\ Ordered(S) \in Seq(Range(Ordered(S))) /\ Len(Ordered(S)) = Cardinality(S)
           /\ \A x \in S : \E n \in 1..Cardinality(S) : Ordered(S)[n] = x
           /\ \A m, n \in 1..Cardinality(S) : Ordered(S)[m] = Ordered(S)[n] => m = n
<1>1. IsFiniteSet(S) /\ Orders(EarlierId, S)
  BY IdsFinite
<1> QED BY <1>1, InOrderLists DEF Ordered

-----------------------------------------------------------------------------
(* The folds of histories.                                                 *)

\* What the fold of an assumption goes through.
LEMMA AssumptionFold ==
    ASSUME NEW id, NEW h, Len(h) \in Nat
    PROVE  \E f : /\ f[0] = {NoState}
                  /\ \A n \in 1..Len(h) : f[n] = UNION {ReduceAssumption(id, s, h[n]) : s \in f[n - 1]}
                  /\ AssumptionStates(id, h) = f[Len(h)]
<1> DEFINE From(S, n)  == UNION {ReduceAssumption(id, s, h[n]) : s \in S}
           Body(g, N) == [n \in 0..N |-> IF n = 0 THEN {NoState} ELSE From(g[n - 1], n)]
           Bad         == {N \in Nat : ~ \E g : g = Body(g, N)}
<1>1. Bad = {}
  <2> SUFFICES ASSUME Bad # {} PROVE FALSE
    OBVIOUS
  <2>1. PICK N \in Bad : \A m \in Bad : N <= m
    BY LeastMember
  <2> HIDE DEF From
  <2>2. CASE N = 0
    <3> DEFINE g == [n \in 0..0 |-> {NoState}]
    <3>1. g = Body(g, 0)
      OBVIOUS
    <3> QED BY <2>1, <2>2, <3>1
  <2>3. CASE N # 0
    <3>1. N - 1 \in Nat /\ ~(N <= N - 1)
      BY <2>1, <2>3
    <3>2. PICK g : g = Body(g, N - 1)
      BY <2>1, <3>1
    <3> DEFINE k == [n \in 0..N |-> IF n = N THEN From(g[N - 1], N) ELSE g[n]]
    <3>3. \A n \in 0..(N - 1) : n # N /\ n \in 0..N /\ k[n] = g[n]
      BY <3>1
    <3>4. ASSUME NEW n \in 0..N PROVE k[n] = IF n = 0 THEN {NoState} ELSE From(k[n - 1], n)
      <4>1. CASE n = N
        <5>1. N - 1 \in 0..(N - 1) /\ k[N] = From(g[N - 1], N)
          BY <3>1
        <5> HIDE DEF k
        <5> QED BY <2>3, <3>3, <4>1, <5>1
      <4>2. CASE n # N /\ n # 0
        <5>1. n \in 0..(N - 1) /\ n - 1 \in 0..(N - 1)
          BY <3>1, <4>2
        <5>2. g[n] = Body(g, N - 1)[n]
          <6> HIDE DEF Body
          <6> QED BY <3>2
        <5>3. g[n] = From(g[n - 1], n)
          BY <4>2, <5>1, <5>2
        <5> HIDE DEF k
        <5> QED BY <3>3, <4>2, <5>1, <5>3
      <4>3. CASE n # N /\ n = 0
        <5>1. 0 \in 0..(N - 1) /\ g[0] = Body(g, N - 1)[0]
          <6> HIDE DEF Body
          <6> QED BY <3>1, <3>2
        <5>2. g[0] = {NoState}
          BY <5>1
        <5> HIDE DEF k
        <5> QED BY <3>3, <4>3, <5>1, <5>2
      <4> QED BY <4>1, <4>2, <4>3
    <3>5. k = Body(k, N)
      <4>1. k = [n \in 0..N |-> k[n]]
        OBVIOUS
      <4> HIDE DEF k
      <4> QED BY <3>4, <4>1
    <3> HIDE DEF k, Body
    <3> QED BY <2>1, <3>5
  <2> QED BY <2>2, <2>3
<1> DEFINE f == CHOOSE g : g = Body(g, Len(h))
<1>2. AssumptionStates(id, h) = f[Len(h)]
  BY DEF AssumptionStates
<1>3. f = Body(f, Len(h))
  <2>1. \E g : g = Body(g, Len(h))
    <3> HIDE DEF Body
    <3> QED BY <1>1
  <2> HIDE DEF Body
  <2> QED BY <2>1
<1> HIDE DEF f, From
<1>4. \A n \in 0..Len(h) : f[n] = IF n = 0 THEN {NoState} ELSE From(f[n - 1], n)
  <2> SUFFICES ASSUME NEW n \in 0..Len(h) PROVE f[n] = IF n = 0 THEN {NoState} ELSE From(f[n - 1], n)
    OBVIOUS
  <2>1. f[n] = Body(f, Len(h))[n]
    <3> HIDE DEF Body
    <3> QED BY <1>3
  <2> QED BY <2>1
<1>5. f[0] = {NoState} /\ \A n \in 1..Len(h) : f[n] = From(f[n - 1], n)
  <2> HIDE DEF Body
  <2>1. 0 \in 0..Len(h) /\ \A n \in 1..Len(h) : n \in 0..Len(h) /\ n # 0
    OBVIOUS
  <2> QED BY <1>4, <2>1
<1> QED BY <1>2, <1>5 DEF From

\* What the fold of an alternative model goes through.
LEMMA ModelFold ==
    ASSUME NEW id, NEW h, Len(h) \in Nat
    PROVE  \E f : /\ f[0] = {NoState}
                  /\ \A n \in 1..Len(h) : f[n] = UNION {ReduceModel(id, s, h[n]) : s \in f[n - 1]}
                  /\ ModelStates(id, h) = f[Len(h)]
<1> DEFINE From(S, n)  == UNION {ReduceModel(id, s, h[n]) : s \in S}
           Body(g, N) == [n \in 0..N |-> IF n = 0 THEN {NoState} ELSE From(g[n - 1], n)]
           Bad         == {N \in Nat : ~ \E g : g = Body(g, N)}
<1>1. Bad = {}
  <2> SUFFICES ASSUME Bad # {} PROVE FALSE
    OBVIOUS
  <2>1. PICK N \in Bad : \A m \in Bad : N <= m
    BY LeastMember
  <2> HIDE DEF From
  <2>2. CASE N = 0
    <3> DEFINE g == [n \in 0..0 |-> {NoState}]
    <3>1. g = Body(g, 0)
      OBVIOUS
    <3> QED BY <2>1, <2>2, <3>1
  <2>3. CASE N # 0
    <3>1. N - 1 \in Nat /\ ~(N <= N - 1)
      BY <2>1, <2>3
    <3>2. PICK g : g = Body(g, N - 1)
      BY <2>1, <3>1
    <3> DEFINE k == [n \in 0..N |-> IF n = N THEN From(g[N - 1], N) ELSE g[n]]
    <3>3. \A n \in 0..(N - 1) : n # N /\ n \in 0..N /\ k[n] = g[n]
      BY <3>1
    <3>4. ASSUME NEW n \in 0..N PROVE k[n] = IF n = 0 THEN {NoState} ELSE From(k[n - 1], n)
      <4>1. CASE n = N
        <5>1. N - 1 \in 0..(N - 1) /\ k[N] = From(g[N - 1], N)
          BY <3>1
        <5> HIDE DEF k
        <5> QED BY <2>3, <3>3, <4>1, <5>1
      <4>2. CASE n # N /\ n # 0
        <5>1. n \in 0..(N - 1) /\ n - 1 \in 0..(N - 1)
          BY <3>1, <4>2
        <5>2. g[n] = Body(g, N - 1)[n]
          <6> HIDE DEF Body
          <6> QED BY <3>2
        <5>3. g[n] = From(g[n - 1], n)
          BY <4>2, <5>1, <5>2
        <5> HIDE DEF k
        <5> QED BY <3>3, <4>2, <5>1, <5>3
      <4>3. CASE n # N /\ n = 0
        <5>1. 0 \in 0..(N - 1) /\ g[0] = Body(g, N - 1)[0]
          <6> HIDE DEF Body
          <6> QED BY <3>1, <3>2
        <5>2. g[0] = {NoState}
          BY <5>1
        <5> HIDE DEF k
        <5> QED BY <3>3, <4>3, <5>1, <5>2
      <4> QED BY <4>1, <4>2, <4>3
    <3>5. k = Body(k, N)
      <4>1. k = [n \in 0..N |-> k[n]]
        OBVIOUS
      <4> HIDE DEF k
      <4> QED BY <3>4, <4>1
    <3> HIDE DEF k, Body
    <3> QED BY <2>1, <3>5
  <2> QED BY <2>2, <2>3
<1> DEFINE f == CHOOSE g : g = Body(g, Len(h))
<1>2. ModelStates(id, h) = f[Len(h)]
  BY DEF ModelStates
<1>3. f = Body(f, Len(h))
  <2>1. \E g : g = Body(g, Len(h))
    <3> HIDE DEF Body
    <3> QED BY <1>1
  <2> HIDE DEF Body
  <2> QED BY <2>1
<1> HIDE DEF f, From
<1>4. \A n \in 0..Len(h) : f[n] = IF n = 0 THEN {NoState} ELSE From(f[n - 1], n)
  <2> SUFFICES ASSUME NEW n \in 0..Len(h) PROVE f[n] = IF n = 0 THEN {NoState} ELSE From(f[n - 1], n)
    OBVIOUS
  <2>1. f[n] = Body(f, Len(h))[n]
    <3> HIDE DEF Body
    <3> QED BY <1>3
  <2> QED BY <2>1
<1>5. f[0] = {NoState} /\ \A n \in 1..Len(h) : f[n] = From(f[n - 1], n)
  <2> HIDE DEF Body
  <2>1. 0 \in 0..Len(h) /\ \A n \in 1..Len(h) : n \in 0..Len(h) /\ n # 0
    OBVIOUS
  <2> QED BY <1>4, <2>1
<1> QED BY <1>2, <1>5 DEF From

-----------------------------------------------------------------------------
(* One event of an assumption or of a model.                               *)

\* The fields of a state, those of an assumption and those of a model.
Shape(s) == s = [id |-> s.id, standing |-> s.standing, declared |-> s.declared,
                 proposedBy |-> s.proposedBy, admittedBy |-> s.admittedBy, confirmedBy |-> s.confirmedBy,
                 challenges |-> s.challenges, replacedBy |-> s.replacedBy, seq |-> s.seq, clock |-> s.clock]

\* What no event changes, and the clock it leaves.
Continues(t, s, e) == Shape(t) /\ t.id = s.id /\ t.declared = s.declared /\ t.clock = e.clock

LEMMA AdvanceContinues ==
    ASSUME NEW s, Shape(s), NEW e
    PROVE  /\ Continues(Advance(s, e), s, e)
           /\ Advance(s, e).standing = s.standing /\ Advance(s, e).challenges = s.challenges
<1>1. PICK x : x = s.seq + 1
  OBVIOUS
<1>2. Advance(s, e) = [s EXCEPT !.seq = x, !.clock = e.clock, !.replacedBy = None]
  BY <1>1 DEF Advance
<1>3. Advance(s, e) = [id |-> s.id, standing |-> s.standing, declared |-> s.declared,
                       proposedBy |-> s.proposedBy, admittedBy |-> s.admittedBy, confirmedBy |-> s.confirmedBy,
                       challenges |-> s.challenges, replacedBy |-> None, seq |-> x, clock |-> e.clock]
  BY <1>2 DEF Shape
<1> QED BY <1>3 DEF Shape, Continues

\* A state that was advanced, with another standing and other challenges.
LEMMA StandingSet ==
    ASSUME NEW s, Shape(s), NEW e, NEW u, Continues(u, s, e), NEW x
    PROVE  /\ Continues([u EXCEPT !.standing = x], s, e)
           /\ [u EXCEPT !.standing = x].standing = x
           /\ [u EXCEPT !.standing = x].challenges = u.challenges
BY DEF Shape, Continues

LEMMA ChallengesSet ==
    ASSUME NEW s, Shape(s), NEW e, NEW u, Continues(u, s, e), NEW x
    PROVE  /\ Continues([u EXCEPT !.challenges = x], s, e)
           /\ [u EXCEPT !.challenges = x].challenges = x
           /\ [u EXCEPT !.challenges = x].standing = u.standing
BY DEF Shape, Continues

\* The standing and the challenges an event of a model leaves.
ModelMoves(t, m, e) ==
    \/ /\ e.op = "ADMIT" /\ m.standing = "PROPOSED"
       /\ t.standing = "UNVERIFIED" /\ t.challenges = m.challenges
    \/ /\ e.op = "CONFIRM" /\ m.standing \in ChallengeableStandings
       /\ m.challenges = {} /\ t.standing = "CONFIRMED" /\ t.challenges = m.challenges
    \/ /\ e.op = "CHALLENGE" /\ m.standing \in ChallengeableStandings /\ t.standing = m.standing
       /\ t.challenges = m.challenges \cup
             {[challenge |-> e.arg.challenge, reason |-> e.arg.reason, by |-> e.by, openedAt |-> e.clock]}
    \/ /\ e.op = "RESOLVE_CHALLENGES" /\ m.standing \in ChallengeableStandings
       /\ IF e.arg.outcome = "UPHOLD"
          THEN /\ t.standing = m.standing
               /\ t.challenges = {c \in m.challenges : c.challenge \notin e.arg.resolved}
          ELSE t.standing = "REJECTED" /\ t.challenges = {}
    \/ e.op = "REJECT" /\ t.standing = "REJECTED" /\ t.challenges = {}
    \/ /\ e.op = "EXPIRE" /\ m.standing \in ChallengeableStandings
       /\ t.standing = "EXPIRED" /\ t.challenges = {}
    \/ e.op = "SUPERSEDE" /\ t.standing = "SUPERSEDED" /\ t.challenges = {}

\* An operation of a model leads to one state, which it continues.
LEMMA ModelOperates ==
    ASSUME NEW m, Shape(m), NEW e, NEW t \in ModelOperation(m, e)
    PROVE  ModelOperation(m, e) = {t} /\ Continues(t, m, e) /\ ModelMoves(t, m, e)
<1> DEFINE a == Advance(m, e)
<1>1. Continues(a, m, e) /\ a.standing = m.standing /\ a.challenges = m.challenges
  BY AdvanceContinues
<1> HIDE DEF a
<1>2. CASE e.op = "ADMIT"
  <2>1. ModelOperation(m, e) = AdmitModel(m, e)
    BY <1>2 DEF ModelOperation
  <2>2. m.standing = "PROPOSED" /\ t = [a EXCEPT !.standing = "UNVERIFIED", !.admittedBy = e.by]
    BY <2>1 DEF AdmitModel, When, a
  <2>3. Continues(t, m, e) /\ t.standing = "UNVERIFIED" /\ t.challenges = a.challenges
    BY <1>1, <2>2 DEF Continues, Shape
  <2>4. ModelOperation(m, e) = {t}
    BY <2>1 DEF AdmitModel, When
  <2> QED BY <1>1, <1>2, <2>2, <2>3, <2>4 DEF ModelMoves
<1>3. CASE e.op = "CONFIRM"
  <2>1. ModelOperation(m, e) = ConfirmModel(m, e)
    BY <1>3 DEF ModelOperation
  <2>2. /\ m.standing \in ChallengeableStandings /\ m.challenges = {}
        /\ t = [a EXCEPT !.standing = "CONFIRMED", !.confirmedBy = e.by]
    BY <2>1 DEF ConfirmModel, When, a
  <2>3. Continues(t, m, e) /\ t.standing = "CONFIRMED" /\ t.challenges = a.challenges
    BY <1>1, <2>2 DEF Continues, Shape
  <2>4. ModelOperation(m, e) = {t}
    BY <2>1 DEF ConfirmModel, When
  <2> QED BY <1>1, <1>3, <2>2, <2>3, <2>4 DEF ModelMoves
<1>4. CASE e.op = "CHALLENGE"
  <2> DEFINE c == [challenge |-> e.arg.challenge, reason |-> e.arg.reason, by |-> e.by, openedAt |-> e.clock]
  <2>1. ModelOperation(m, e) = ChallengeModel(m, e)
    BY <1>4 DEF ModelOperation
  <2>2. m.standing \in ChallengeableStandings /\ t = [a EXCEPT !.challenges = @ \cup {c}]
    BY <2>1 DEF ChallengeModel, When, a
  <2>3. ModelOperation(m, e) = {t}
    BY <2>1 DEF ChallengeModel, When
  <2>4. PICK x : x = a.challenges \cup {c}
    OBVIOUS
  <2>5. t = [a EXCEPT !.challenges = x]
    BY <2>2, <2>4
  <2>6. Continues(t, m, e) /\ t.challenges = x /\ t.standing = a.standing
    BY <1>1, <2>5, ChallengesSet
  <2> QED BY <1>1, <1>4, <2>2, <2>3, <2>4, <2>6 DEF ModelMoves
<1>5. CASE e.op = "RESOLVE_CHALLENGES"
  <2>1. ModelOperation(m, e) = ResolveModelChallenges(m, e)
    BY <1>5 DEF ModelOperation
  <2>2. m.standing \in ChallengeableStandings /\ e.arg.outcome \in {"UPHOLD", "INVALIDATE"}
    BY <2>1 DEF ResolveModelChallenges, When
  <2>3. ModelOperation(m, e) = {t}
    BY <2>1 DEF ResolveModelChallenges, When
  <2>4. t = IF e.arg.outcome = "INVALIDATE"
            THEN [a EXCEPT !.standing = "REJECTED", !.challenges = {}]
            ELSE [a EXCEPT !.challenges = {c \in @ : c.challenge \notin e.arg.resolved}]
    BY <2>1 DEF ResolveModelChallenges, When, a
  <2>5. CASE e.arg.outcome = "INVALIDATE"
    <3>1. t = [a EXCEPT !.standing = "REJECTED", !.challenges = {}]
      BY <2>4, <2>5
    <3>2. Continues(t, m, e) /\ t.standing = "REJECTED" /\ t.challenges = {}
      BY <1>1, <3>1 DEF Continues, Shape
    <3> QED BY <1>5, <2>2, <2>3, <2>5, <3>2 DEF ModelMoves
  <2>6. CASE e.arg.outcome = "UPHOLD"
    <3>1. PICK x : x = {c \in a.challenges : c.challenge \notin e.arg.resolved}
      OBVIOUS
    <3>2. t = [a EXCEPT !.challenges = x]
      BY <2>4, <2>6, <3>1
    <3>3. Continues(t, m, e) /\ t.challenges = x /\ t.standing = a.standing
      BY <1>1, <3>2, ChallengesSet
    <3> QED BY <1>1, <1>5, <2>2, <2>3, <2>6, <3>1, <3>3 DEF ModelMoves
  <2> QED BY <2>2, <2>5, <2>6
<1>6. CASE e.op = "REJECT"
  <2>1. ModelOperation(m, e) = RejectModel(m, e)
    BY <1>6 DEF ModelOperation
  <2>2. t = [a EXCEPT !.standing = "REJECTED", !.challenges = {}]
    BY <2>1 DEF RejectModel, When, a
  <2>3. Continues(t, m, e) /\ t.standing = "REJECTED" /\ t.challenges = {}
    BY <1>1, <2>2 DEF Continues, Shape
  <2>4. ModelOperation(m, e) = {t}
    BY <2>1 DEF RejectModel, When
  <2> QED BY <1>6, <2>3, <2>4 DEF ModelMoves
<1>7. CASE e.op = "EXPIRE"
  <2>1. ModelOperation(m, e) = ExpireModel(m, e)
    BY <1>7 DEF ModelOperation
  <2>2. /\ m.standing \in ChallengeableStandings
        /\ t = [a EXCEPT !.standing = "EXPIRED", !.challenges = {}]
    BY <2>1 DEF ExpireModel, When, a
  <2>3. Continues(t, m, e) /\ t.standing = "EXPIRED" /\ t.challenges = {}
    BY <1>1, <2>2 DEF Continues, Shape
  <2>4. ModelOperation(m, e) = {t}
    BY <2>1 DEF ExpireModel, When
  <2> QED BY <1>7, <2>2, <2>3, <2>4 DEF ModelMoves
<1>8. CASE e.op = "SUPERSEDE"
  <2>1. ModelOperation(m, e) = SupersedeModel(m, e)
    BY <1>8 DEF ModelOperation
  <2>2. t = [a EXCEPT !.standing = "SUPERSEDED", !.challenges = {}, !.replacedBy = e.arg.replacement]
    BY <2>1 DEF SupersedeModel, When, a
  <2>3. Continues(t, m, e) /\ t.standing = "SUPERSEDED" /\ t.challenges = {}
    BY <1>1, <2>2 DEF Continues, Shape
  <2>4. ModelOperation(m, e) = {t}
    BY <2>1 DEF SupersedeModel, When
  <2> QED BY <1>8, <2>3, <2>4 DEF ModelMoves
<1>9. CASE e.op \notin {"ADMIT", "CONFIRM", "CHALLENGE", "RESOLVE_CHALLENGES", "REJECT", "EXPIRE", "SUPERSEDE"}
  <2>1. ModelOperation(m, e) = {}
    BY <1>9 DEF ModelOperation
  <2> QED BY <2>1
<1> QED BY <1>2, <1>3, <1>4, <1>5, <1>6, <1>7, <1>8, <1>9

\* An operation of an assumption leads to one state, which it continues, and
\* an expiry to an expired one.
AssumptionMoves(t, s, e) == e.op = "EXPIRE" => t.standing = "EXPIRED"

LEMMA AssumptionOperates ==
    ASSUME NEW s, Shape(s), NEW e, NEW t \in Operation(s, e)
    PROVE  Operation(s, e) = {t} /\ Continues(t, s, e) /\ AssumptionMoves(t, s, e)
<1> DEFINE a == Advance(s, e)
<1>1. Continues(a, s, e)
  BY AdvanceContinues
<1> HIDE DEF a
<1> USE DEF AssumptionMoves
<1>2. CASE e.op = "ADMIT"
  <2>1. Operation(s, e) = Admit(s, e)
    BY <1>2 DEF Operation
  <2>2. Operation(s, e) = {t}
    BY <2>1 DEF Admit, When
  <2>3. t = [a EXCEPT !.standing = "ADMITTED", !.admittedBy = e.by]
    BY <2>1 DEF Admit, When, a
  <2>4. Continues(t, s, e)
    BY <1>1, <2>3 DEF Continues, Shape
  <2> QED BY <1>2, <2>2, <2>4
<1>3. CASE e.op = "CONFIRM"
  <2>1. Operation(s, e) = Confirm(s, e)
    BY <1>3 DEF Operation
  <2>2. Operation(s, e) = {t}
    BY <2>1 DEF Confirm, When
  <2>3. t = [a EXCEPT !.standing = "CONFIRMED", !.confirmedBy = e.by]
    BY <2>1 DEF Confirm, When, a
  <2>4. Continues(t, s, e)
    BY <1>1, <2>3 DEF Continues, Shape
  <2> QED BY <1>3, <2>2, <2>4
<1>4. CASE e.op = "CHALLENGE"
  <2>1. Operation(s, e) = Challenge(s, e)
    BY <1>4 DEF Operation
  <2>2. Operation(s, e) = {t}
    BY <2>1 DEF Challenge, When
  <2> DEFINE c == [challenge |-> e.arg.challenge, reason |-> e.arg.reason, by |-> e.by, openedAt |-> e.clock]
  <2>3. t = [a EXCEPT !.challenges = @ \cup {c}]
    BY <2>1 DEF Challenge, When, a
  <2>4. PICK x : x = a.challenges \cup {c}
    OBVIOUS
  <2>5. t = [a EXCEPT !.challenges = x]
    BY <2>3, <2>4
  <2>6. Continues(t, s, e)
    BY <1>1, <2>5, ChallengesSet
  <2> QED BY <1>4, <2>2, <2>6
<1>5. CASE e.op = "RESOLVE_CHALLENGES"
  <2>1. Operation(s, e) = ResolveChallenges(s, e)
    BY <1>5 DEF Operation
  <2>2. Operation(s, e) = {t}
    BY <2>1 DEF ResolveChallenges, When
  <2> DEFINE left(u) == IF e.arg.outcome \in {"REJECT", "SUPERSEDE"} THEN {}
                          ELSE {c \in u : c.challenge \notin e.arg.resolved}
  <2>3. PICK x, y : x = Outcome(e.arg.outcome) /\ y = left(a.challenges)
    OBVIOUS
  <2>4. t = [a EXCEPT !.standing = x, !.replacedBy = e.arg.replacement, !.challenges = left(@)]
    BY <2>1, <2>3 DEF ResolveChallenges, When, a
  <2>5. t = [a EXCEPT !.standing = x, !.replacedBy = e.arg.replacement, !.challenges = y]
    <3> HIDE DEF left
    <3>1. PICK b : b = [a EXCEPT !.standing = x, !.replacedBy = e.arg.replacement]
      OBVIOUS
    <3>2. b.challenges = a.challenges
      BY <1>1, <3>1 DEF Continues, Shape
    <3> QED BY <2>3, <2>4, <3>1, <3>2
  <2>6. Continues(t, s, e)
    BY <1>1, <2>5 DEF Continues, Shape
  <2> QED BY <1>5, <2>2, <2>6
<1>6. CASE e.op = "REJECT"
  <2>1. Operation(s, e) = Reject(s, e)
    BY <1>6 DEF Operation
  <2>2. Operation(s, e) = {t}
    BY <2>1 DEF Reject, When
  <2>3. t = [a EXCEPT !.standing = "REJECTED", !.challenges = {}]
    BY <2>1 DEF Reject, When, a
  <2>4. Continues(t, s, e)
    BY <1>1, <2>3 DEF Continues, Shape
  <2> QED BY <1>6, <2>2, <2>4
<1>7. CASE e.op = "EXPIRE"
  <2>1. Operation(s, e) = Expire(s, e)
    BY <1>7 DEF Operation
  <2>2. Operation(s, e) = {t}
    BY <2>1 DEF Expire, When
  <2>3. t = [a EXCEPT !.standing = "EXPIRED", !.challenges = {}]
    BY <2>1 DEF Expire, When, a
  <2>4. Continues(t, s, e) /\ t.standing = "EXPIRED"
    BY <1>1, <2>3 DEF Continues, Shape
  <2> QED BY <1>7, <2>2, <2>4
<1>8. CASE e.op = "SUPERSEDE"
  <2>1. Operation(s, e) = Supersede(s, e)
    BY <1>8 DEF Operation
  <2>2. Operation(s, e) = {t}
    BY <2>1 DEF Supersede, When
  <2>3. t = [a EXCEPT !.standing = "SUPERSEDED", !.challenges = {}, !.replacedBy = e.arg.replacement]
    BY <2>1 DEF Supersede, When, a
  <2>4. Continues(t, s, e)
    BY <1>1, <2>3 DEF Continues, Shape
  <2> QED BY <1>8, <2>2, <2>4
<1>9. CASE e.op \notin {"ADMIT", "CONFIRM", "CHALLENGE", "RESOLVE_CHALLENGES", "REJECT", "EXPIRE", "SUPERSEDE"}
  <2>1. Operation(s, e) = {}
    BY <1>9 DEF Operation
  <2> QED BY <2>1
<1> QED BY <1>2, <1>3, <1>4, <1>5, <1>6, <1>7, <1>8, <1>9

\* A state with these fields is not the absent one.
LEMMA ShapeNotAbsent == \A s : Shape(s) => s # NoState
<1> SUFFICES ASSUME Shape(NoState) PROVE FALSE
  OBVIOUS
<1>1. DOMAIN NoState = {"standing", "status"}
  BY DEF NoState
<1>2. "id" \in DOMAIN NoState
  BY DEF Shape
<1> QED BY <1>1, <1>2

\* What the first event of an assumption leaves.
LEMMA AssumptionStarts ==
    ASSUME NEW id, NEW e, NEW t \in ReduceAssumption(id, NoState, e)
    PROVE  /\ ReduceAssumption(id, NoState, e) = {t} /\ e.op = "PROPOSE"
           /\ Shape(t) /\ t.id = id /\ t.declared = e.arg /\ t.clock = e.clock
           /\ t.standing = "PROPOSED" /\ t.challenges = {}
<1>1. e.op = "PROPOSE" /\ ReduceAssumption(id, NoState, e) = Propose(id, e)
  BY DEF ReduceAssumption
<1>2. /\ Propose(id, e) = {t}
      /\ t = [id |-> id, standing |-> "PROPOSED", declared |-> e.arg,
              proposedBy |-> e.by, admittedBy |-> None, confirmedBy |-> None,
              challenges |-> {}, replacedBy |-> None, seq |-> 1, clock |-> e.clock]
  BY <1>1 DEF Propose, When
<1> QED BY <1>1, <1>2 DEF Shape

\* What a later event of an assumption leaves.
LEMMA AssumptionGoesOn ==
    ASSUME NEW id, NEW s, Shape(s), NEW e, NEW t \in ReduceAssumption(id, s, e)
    PROVE  /\ ReduceAssumption(id, s, e) = {t} /\ Continues(t, s, e) /\ AssumptionMoves(t, s, e)
           /\ s.standing \notin TerminalStandings /\ ~(e.clock <= s.clock)
<1>1. s # NoState
  BY ShapeNotAbsent
<1>2. /\ ReduceAssumption(id, s, e) = Operation(s, e)
      /\ s.standing \notin TerminalStandings /\ ~(e.clock <= s.clock)
  BY <1>1 DEF ReduceAssumption
<1> QED BY <1>2, AssumptionOperates

\* The states an assumption goes through: one at each event, with what was
\* proposed, each moved from the one before.
AssumptionTrail(f, id, h) ==
    \A n \in 1..Len(h) : \A s \in f[n] :
        /\ f[n] = {s} /\ Shape(s) /\ s.id = id /\ s.clock = h[n].clock
        /\ h[1].op = "PROPOSE" /\ s.declared = h[1].arg
        /\ n = 1 => s.standing = "PROPOSED" /\ s.challenges = {}
        /\ n > 1 => \E p \in f[n - 1] : /\ AssumptionMoves(s, p, h[n])
                                        /\ p.standing \notin TerminalStandings /\ ~(h[n].clock <= p.clock)

LEMMA AssumptionTrailed ==
    ASSUME NEW id, NEW h, Len(h) \in Nat, NEW f, f[0] = {NoState},
           \A n \in 1..Len(h) : f[n] = UNION {ReduceAssumption(id, s, h[n]) : s \in f[n - 1]}
    PROVE  AssumptionTrail(f, id, h)
<1> DEFINE Good(n) == \A s \in f[n] :
               /\ f[n] = {s} /\ Shape(s) /\ s.id = id /\ s.clock = h[n].clock
               /\ h[1].op = "PROPOSE" /\ s.declared = h[1].arg
               /\ n = 1 => s.standing = "PROPOSED" /\ s.challenges = {}
               /\ n > 1 => \E p \in f[n - 1] : /\ AssumptionMoves(s, p, h[n])
                                               /\ p.standing \notin TerminalStandings /\ ~(h[n].clock <= p.clock)
           Bad == {n \in 1..Len(h) : ~Good(n)}
<1> SUFFICES ASSUME Bad # {} PROVE FALSE
  BY DEF AssumptionTrail
<1>1. PICK n \in Bad : \A m \in Bad : n <= m
  <2> HIDE DEF Good
  <2>1. Bad \in SUBSET Nat
    OBVIOUS
  <2> HIDE DEF Bad
  <2> QED BY <2>1, LeastMember
<1>2. CASE n = 1
  <2>1. f[1] = ReduceAssumption(id, NoState, h[1])
    <3>1. 1 \in 1..Len(h) /\ 1 - 1 = 0
      BY <1>1, <1>2
    <3>2. f[1] = UNION {ReduceAssumption(id, s, h[1]) : s \in f[1 - 1]}
      BY <3>1
    <3>3. f[1] = UNION {ReduceAssumption(id, s, h[1]) : s \in {NoState}}
      BY <3>1, <3>2
    <3> QED BY <3>3
  <2>2. ASSUME NEW s \in f[1]
        PROVE  /\ f[1] = {s} /\ Shape(s) /\ s.id = id /\ s.clock = h[1].clock
               /\ h[1].op = "PROPOSE" /\ s.declared = h[1].arg
               /\ s.standing = "PROPOSED" /\ s.challenges = {}
    BY <2>1, AssumptionStarts
  <2>3. Good(1)
    BY <2>2
  <2> QED BY <1>1, <1>2, <2>3
<1>3. CASE n # 1
  <2>1. n - 1 \in 1..Len(h) /\ n \in 1..Len(h) /\ ~(n <= n - 1) /\ n > 1
    BY <1>1, <1>3
  <2>2. Good(n - 1)
    <3> HIDE DEF Good
    <3> QED BY <1>1, <2>1
  <2>3. ASSUME NEW s \in f[n] PROVE Good(n)!(s)
    <3>1. PICK p \in f[n - 1] : s \in ReduceAssumption(id, p, h[n])
      BY <2>1
    <3>2. /\ f[n - 1] = {p} /\ Shape(p) /\ p.id = id
          /\ h[1].op = "PROPOSE" /\ p.declared = h[1].arg
      BY <2>2
    <3>3. /\ ReduceAssumption(id, p, h[n]) = {s} /\ Continues(s, p, h[n]) /\ AssumptionMoves(s, p, h[n])
          /\ p.standing \notin TerminalStandings /\ ~(h[n].clock <= p.clock)
      BY <3>1, <3>2, AssumptionGoesOn
    <3>4. f[n] = {s}
      BY <2>1, <3>2, <3>3
    <3> QED BY <2>1, <3>2, <3>3, <3>4 DEF Continues
  <2>4. Good(n)
    BY <2>3
  <2> QED BY <1>1, <2>4
<1> QED BY <1>1, <1>2, <1>3

\* What the first event of a model leaves.
LEMMA ModelStarts ==
    ASSUME NEW id, NEW e, NEW t \in ReduceModel(id, NoState, e)
    PROVE  /\ ReduceModel(id, NoState, e) = {t} /\ e.op = "PROPOSE"
           /\ Shape(t) /\ t.id = id /\ t.declared = e.arg /\ t.clock = e.clock
           /\ t.standing = "PROPOSED" /\ t.challenges = {}
<1>1. e.op = "PROPOSE" /\ ReduceModel(id, NoState, e) = ProposeModel(id, e)
  BY DEF ReduceModel
<1>2. /\ ProposeModel(id, e) = {t}
      /\ t = [id |-> id, standing |-> "PROPOSED", declared |-> e.arg,
              proposedBy |-> e.by, admittedBy |-> None, confirmedBy |-> None,
              challenges |-> {}, replacedBy |-> None, seq |-> 1, clock |-> e.clock]
  BY <1>1 DEF ProposeModel, When
<1> QED BY <1>1, <1>2 DEF Shape

\* What a later event of a model leaves.
LEMMA ModelGoesOn ==
    ASSUME NEW id, NEW s, Shape(s), NEW e, NEW t \in ReduceModel(id, s, e)
    PROVE  /\ ReduceModel(id, s, e) = {t} /\ Continues(t, s, e) /\ ModelMoves(t, s, e)
           /\ s.standing \notin TerminalStandings /\ ~(e.clock <= s.clock)
<1>1. s # NoState
  BY ShapeNotAbsent
<1>2. /\ ReduceModel(id, s, e) = ModelOperation(s, e)
      /\ s.standing \notin TerminalStandings /\ ~(e.clock <= s.clock)
  BY <1>1 DEF ReduceModel
<1> QED BY <1>2, ModelOperates

\* The states a model goes through: one at each event, with what was
\* proposed, each moved from the one before.
ModelTrail(f, id, h) ==
    \A n \in 1..Len(h) : \A s \in f[n] :
        /\ f[n] = {s} /\ Shape(s) /\ s.id = id /\ s.clock = h[n].clock
        /\ h[1].op = "PROPOSE" /\ s.declared = h[1].arg
        /\ n = 1 => s.standing = "PROPOSED" /\ s.challenges = {}
        /\ n > 1 => \E p \in f[n - 1] : /\ ModelMoves(s, p, h[n])
                                        /\ p.standing \notin TerminalStandings /\ ~(h[n].clock <= p.clock)

LEMMA ModelTrailed ==
    ASSUME NEW id, NEW h, Len(h) \in Nat, NEW f, f[0] = {NoState},
           \A n \in 1..Len(h) : f[n] = UNION {ReduceModel(id, s, h[n]) : s \in f[n - 1]}
    PROVE  ModelTrail(f, id, h)
<1> DEFINE Good(n) == \A s \in f[n] :
               /\ f[n] = {s} /\ Shape(s) /\ s.id = id /\ s.clock = h[n].clock
               /\ h[1].op = "PROPOSE" /\ s.declared = h[1].arg
               /\ n = 1 => s.standing = "PROPOSED" /\ s.challenges = {}
               /\ n > 1 => \E p \in f[n - 1] : /\ ModelMoves(s, p, h[n])
                                               /\ p.standing \notin TerminalStandings /\ ~(h[n].clock <= p.clock)
           Bad == {n \in 1..Len(h) : ~Good(n)}
<1> SUFFICES ASSUME Bad # {} PROVE FALSE
  BY DEF ModelTrail
<1>1. PICK n \in Bad : \A m \in Bad : n <= m
  <2> HIDE DEF Good
  <2>1. Bad \in SUBSET Nat
    OBVIOUS
  <2> HIDE DEF Bad
  <2> QED BY <2>1, LeastMember
<1>2. CASE n = 1
  <2>1. f[1] = ReduceModel(id, NoState, h[1])
    <3>1. 1 \in 1..Len(h) /\ 1 - 1 = 0
      BY <1>1, <1>2
    <3>2. f[1] = UNION {ReduceModel(id, s, h[1]) : s \in f[1 - 1]}
      BY <3>1
    <3>3. f[1] = UNION {ReduceModel(id, s, h[1]) : s \in {NoState}}
      BY <3>1, <3>2
    <3> QED BY <3>3
  <2>2. ASSUME NEW s \in f[1]
        PROVE  /\ f[1] = {s} /\ Shape(s) /\ s.id = id /\ s.clock = h[1].clock
               /\ h[1].op = "PROPOSE" /\ s.declared = h[1].arg
               /\ s.standing = "PROPOSED" /\ s.challenges = {}
    BY <2>1, ModelStarts
  <2>3. Good(1)
    BY <2>2
  <2> QED BY <1>1, <1>2, <2>3
<1>3. CASE n # 1
  <2>1. n - 1 \in 1..Len(h) /\ n \in 1..Len(h) /\ ~(n <= n - 1) /\ n > 1
    BY <1>1, <1>3
  <2>2. Good(n - 1)
    <3> HIDE DEF Good
    <3> QED BY <1>1, <2>1
  <2>3. ASSUME NEW s \in f[n] PROVE Good(n)!(s)
    <3>1. PICK p \in f[n - 1] : s \in ReduceModel(id, p, h[n])
      BY <2>1
    <3>2. /\ f[n - 1] = {p} /\ Shape(p) /\ p.id = id
          /\ h[1].op = "PROPOSE" /\ p.declared = h[1].arg
      BY <2>2
    <3>3. /\ ReduceModel(id, p, h[n]) = {s} /\ Continues(s, p, h[n]) /\ ModelMoves(s, p, h[n])
          /\ p.standing \notin TerminalStandings /\ ~(h[n].clock <= p.clock)
      BY <3>1, <3>2, ModelGoesOn
    <3>4. f[n] = {s}
      BY <2>1, <3>2, <3>3
    <3> QED BY <2>1, <3>2, <3>3, <3>4 DEF Continues
  <2>4. Good(n)
    BY <2>3
  <2> QED BY <1>1, <2>4
<1> QED BY <1>1, <1>2, <1>3


-----------------------------------------------------------------------------
(* What the registries hold.                                               *)

\* The state at the end of a history that is held.
LEMMA AssumptionAtEnd ==
    ASSUME NEW id, NEW h, History(h), h # <<>>, NEW s \in AssumptionStates(id, h)
    PROVE  /\ AssumptionStates(id, h) = {s} /\ AssumptionAt(id, h) = s
           /\ Shape(s) /\ s.id = id /\ s.declared = h[1].arg /\ h[1].op = "PROPOSE" /\ h[1] \in Range(h)
           /\ s.clock = h[Len(h)].clock /\ h[Len(h)] \in Range(h) /\ s.clock \in Int
<1>1. h \in Seq(Range(h)) /\ \A e \in Range(h) : e.clock \in Int
  BY DEF History
<1>2. Len(h) \in Nat /\ Len(h) > 0 /\ \A n \in 1..Len(h) : h[n] \in Range(h)
  BY <1>1, SeqFacts
<1>3. PICK L : L = Len(h)
  OBVIOUS
<1>4. 1 \in 1..L /\ L \in 1..L /\ L \in Nat
  BY <1>2, <1>3
<1>5. PICK f : /\ f[0] = {NoState}
               /\ \A n \in 1..Len(h) : f[n] = UNION {ReduceAssumption(id, x, h[n]) : x \in f[n - 1]}
               /\ AssumptionStates(id, h) = f[Len(h)]
  BY <1>2, AssumptionFold
<1>6. AssumptionTrail(f, id, h)
  BY <1>2, <1>5, AssumptionTrailed
<1>7. /\ f[L] = {s} /\ Shape(s) /\ s.id = id /\ s.clock = h[L].clock
      /\ h[1].op = "PROPOSE" /\ s.declared = h[1].arg
  BY <1>3, <1>4, <1>5, <1>6 DEF AssumptionTrail
<1>8. AssumptionStates(id, h) = {s} /\ AssumptionAt(id, h) = s
  BY <1>3, <1>5, <1>7 DEF AssumptionAt
<1>9. h[1] \in Range(h) /\ h[L] \in Range(h)
  BY <1>2, <1>3, <1>4
<1> QED BY <1>1, <1>3, <1>7, <1>8, <1>9

LEMMA ModelAtEnd ==
    ASSUME NEW id, NEW h, History(h), h # <<>>, NEW s \in ModelStates(id, h)
    PROVE  /\ ModelStates(id, h) = {s} /\ ModelAt(id, h) = s
           /\ Shape(s) /\ s.id = id /\ s.declared = h[1].arg /\ h[1].op = "PROPOSE" /\ h[1] \in Range(h)
           /\ s.clock = h[Len(h)].clock /\ h[Len(h)] \in Range(h) /\ s.clock \in Int
<1>1. h \in Seq(Range(h)) /\ \A e \in Range(h) : e.clock \in Int
  BY DEF History
<1>2. Len(h) \in Nat /\ Len(h) > 0 /\ \A n \in 1..Len(h) : h[n] \in Range(h)
  BY <1>1, SeqFacts
<1>3. PICK L : L = Len(h)
  OBVIOUS
<1>4. 1 \in 1..L /\ L \in 1..L /\ L \in Nat
  BY <1>2, <1>3
<1>5. PICK f : /\ f[0] = {NoState}
               /\ \A n \in 1..Len(h) : f[n] = UNION {ReduceModel(id, x, h[n]) : x \in f[n - 1]}
               /\ ModelStates(id, h) = f[Len(h)]
  BY <1>2, ModelFold
<1>6. ModelTrail(f, id, h)
  BY <1>2, <1>5, ModelTrailed
<1>7. /\ f[L] = {s} /\ Shape(s) /\ s.id = id /\ s.clock = h[L].clock
      /\ h[1].op = "PROPOSE" /\ s.declared = h[1].arg
  BY <1>3, <1>4, <1>5, <1>6 DEF ModelTrail
<1>8. ModelStates(id, h) = {s} /\ ModelAt(id, h) = s
  BY <1>3, <1>5, <1>7 DEF ModelAt
<1>9. h[1] \in Range(h) /\ h[L] \in Range(h)
  BY <1>2, <1>3, <1>4
<1> QED BY <1>1, <1>3, <1>7, <1>8, <1>9

Registered(held) ==
    /\ held = [x \in Ids |-> held[x]] /\ \A x \in Ids : History(held[x])
    /\ \A x \in Assumptions : \A e \in Range(held[x]) : e.op = "PROPOSE" => Declares(e.arg)

RegisteredModels(held) ==
    /\ held = [x \in Models |-> held[x]] /\ \A x \in Models : History(held[x])
    /\ \A x \in Models : \A e \in Range(held[x]) : e.op = "PROPOSE" => DeclaresModel(e.arg)

-----------------------------------------------------------------------------
(* What a planned admission rests on.                                      *)

ModelAdmissionsRest(pairs, plans) ==
    \A p \in plans : \A x \in {x \in p.explicit : x.event.op = "ADMIT"} :
        \E e \in pairs :
            LET declared == p.pre[x.id][1].arg
            IN  /\ e.comparison.shadow.graph = declared.graph
                /\ e.comparison.primary.graph # declared.graph
                /\ e.comparison.primary.context = e.comparison.shadow.context
                /\ Difference(e.comparison.primary.graph, declared.graph) = declared.difference

\* What the evidence of an admission is made of.
Evidenced(e) ==
    /\ \E ms, id, by, clock, receipt : id \in Models /\ e.authorization \in ModelAuthorization(ms, id, by, clock, receipt)
    /\ \E primary, shadow, declared, receipt, context, one, other :
          /\ receipt \in DifferenceReceipt(primary, shadow, declared)
          /\ e.comparison \in Comparison(receipt, context, one, other)

LEMMA LenOne ==
    ASSUME NEW h, Len(h) = 1
    PROVE  h # <<>>
BY EmptySeq

LEMMA ReceiptDiffers ==
    ASSUME NEW primary, NEW shadow, NEW declared, NEW r \in DifferenceReceipt(primary, shadow, declared), r.material
    PROVE  /\ r.primary = primary /\ r.shadow = shadow /\ r.difference = declared
           /\ Difference(primary, shadow) = declared /\ primary # shadow
<1>1. /\ Difference(primary, shadow) = declared
      /\ r = [primary |-> primary, shadow |-> shadow, difference |-> declared, material |-> declared.paths # {}]
  BY DEF DifferenceReceipt, When
<1>2. declared.paths = DifferencePaths(primary, shadow)
  BY <1>1 DEF Difference
<1>3. declared.paths # {}
  BY <1>1
<1>4. primary # shadow
  BY <1>2, <1>3 DEF DifferencePaths
<1> QED BY <1>1, <1>4

LEMMA ModelAdmissions ==
    ASSUME NEW ms, RegisteredModels(ms), NEW pairs, \A e \in pairs : Evidenced(e),
           NEW explicit, NEW clock
    PROVE  ModelAdmissionsRest(pairs, ModelPlan(ms, explicit, pairs, clock))
<1> SUFFICES ASSUME NEW p \in ModelPlan(ms, explicit, pairs, clock),
                    NEW x \in p.explicit, x.event.op = "ADMIT"
             PROVE  \E e \in pairs :
                        LET declared == p.pre[x.id][1].arg
                        IN  /\ e.comparison.shadow.graph = declared.graph
                            /\ e.comparison.primary.graph # declared.graph
                            /\ e.comparison.primary.context = e.comparison.shadow.context
                            /\ Difference(e.comparison.primary.graph, declared.graph) = declared.difference
  BY DEF ModelAdmissionsRest
<1>1. PICK post, impacts : p = [pre |-> ms, explicit |-> explicit, post |-> post, impacts |-> impacts]
  BY DEF ModelPlan
<1>2. \A y \in explicit : BoundAdmission(y, pairs, ms)
  BY DEF ModelPlan
<1>3. p.pre = ms /\ p.explicit = explicit
  BY <1>1
<1>4. PICK e \in pairs : /\ e.authorization.id = x.id /\ e.authorization.root = ms
                         /\ e.comparison.difference = e.authorization.receipt
  BY <1>2, <1>3 DEF BoundAdmission
<1>5. Evidenced(e)
  BY <1>4
<1>6. PICK was, id, by, at, receipt : id \in Models /\ e.authorization \in ModelAuthorization(was, id, by, at, receipt)
  BY <1>5, Zenon DEF Evidenced
<1>7. PICK m \in ModelStates(id, was[id]) :
         /\ ProposedModel(was, id, at) /\ receipt.material
         /\ receipt.shadow = m.declared.graph /\ receipt.difference = m.declared.difference
         /\ e.authorization = [id |-> id, by |-> by, clock |-> at, prev |-> was[id], root |-> was, receipt |-> receipt]
  BY <1>6, Zenon DEF ModelAuthorization, When
<1>8. id = x.id /\ was = ms /\ e.comparison.difference = receipt
  BY <1>4, <1>7
<1>9. PICK primary, shadow, declared, compared, context, one, other :
         /\ compared \in DifferenceReceipt(primary, shadow, declared)
         /\ e.comparison \in Comparison(compared, context, one, other)
  BY <1>5, Zenon DEF Evidenced
<1>10. /\ one.graph = compared.primary /\ one.context = context
       /\ other.graph = compared.shadow /\ other.context = context
       /\ e.comparison.difference = compared /\ e.comparison.primary = one /\ e.comparison.shadow = other
  BY <1>9 DEF Comparison, When, BoundReplay
<1>11. compared = receipt
  BY <1>8, <1>10
<1>12. /\ compared.primary = primary /\ compared.shadow = shadow /\ compared.difference = declared
       /\ Difference(primary, shadow) = declared /\ primary # shadow
  BY <1>7, <1>9, <1>11, ReceiptDiffers
<1>13. m.declared = ms[id][1].arg
  <2>1. PICK h : h = ms[id]
    OBVIOUS
  <2>2. History(h) /\ Len(h) = 1
    BY <1>6, <1>7, <1>8, <2>1 DEF RegisteredModels, ProposedModel
  <2>3. h # <<>>
    BY <2>2, LenOne
  <2>4. m \in ModelStates(id, h)
    BY <1>7, <1>8, <2>1
  <2> QED BY <2>1, <2>2, <2>3, <2>4, ModelAtEnd
<1> HIDE DEF Difference
<1>14. PICK known : known = p.pre[x.id][1].arg
  OBVIOUS
<1>15. m.declared = known
  BY <1>3, <1>8, <1>13, <1>14
<1>16. /\ e.comparison.shadow.graph = known.graph /\ shadow = known.graph /\ e.comparison.primary.graph = primary
       /\ e.comparison.primary.context = e.comparison.shadow.context /\ declared = known.difference
  BY <1>7, <1>10, <1>11, <1>12, <1>15
<1>17. Difference(e.comparison.primary.graph, known.graph) = known.difference /\ primary # known.graph
  BY <1>12, <1>16
<1> QED BY <1>14, <1>16, <1>17

\* What a projection of assumptions admits.
AdmissionsRest(clock, evidence, plans) ==
    \A p \in plans : \A n \in 1..Len(p.events) :
        Governed(p.events[n].event) =>
            \A e \in AssumptionAt(p.events[n].id, p.events[n].prev).declared.evidence :
                EligibilityCode(e, evidence.post[e], clock) = "ELIGIBLE"

\* Evidence decisions that all pass are the decisions of all the evidence.
LEMMA DecidedAll ==
    ASSUME NEW held, NEW ids \in SUBSET Ids, NEW clock,
           \A n \in 1..Len(Decided(held, ids, clock)) : Decided(held, ids, clock)[n].code = "ELIGIBLE"
    PROVE  \A e \in ids : EligibilityCode(e, held[e], clock) = "ELIGIBLE"
<1> DEFINE code(e) == EligibilityCode(e, held[e], clock)
<1>1. PICK all, N : /\ all = Ordered(ids) /\ N = Len(all) /\ N \in Nat
                    /\ \A x \in ids : \E n \in 1..N : all[n] = x
  BY OrderedLists
<1> DEFINE refused == {n \in 1..N : code(all[n]) # "ELIGIBLE"}
           last == IF refused = {} THEN N ELSE CHOOSE n \in refused : \A m \in refused : n <= m
           d == [n \in 1..last |-> [id |-> all[n], code |-> code(all[n])]]
<1>2. Decided(held, ids, clock) = d
  BY <1>1 DEF Decided
<1>3. refused = {}
  <2> SUFFICES ASSUME refused # {} PROVE FALSE
    OBVIOUS
  <2>1. refused \in SUBSET Nat
    BY <1>1
  <2>2. last \in refused
    <3> HIDE DEF refused
    <3> QED BY <2>1, LeastMember
  <2>3. last \in 1..last /\ code(all[last]) # "ELIGIBLE"
    <3> HIDE DEF last
    <3> QED BY <1>1, <2>2
  <2> HIDE DEF last
  <2>4. d \in Seq(Range(d)) /\ Len(d) = last
    <3>1. last \in Nat
      BY <2>1, <2>2
    <3>2. d \in [1..last -> Range(d)]
      BY DEF Range
    <3> HIDE DEF d
    <3> QED BY <3>1, <3>2, FunctionSeq
  <2>5. d[last].code = code(all[last])
    <3> HIDE DEF code
    <3> QED BY <2>3
  <2> HIDE DEF d
  <2>6. d[last].code = "ELIGIBLE"
    BY <1>2, <2>3, <2>4
  <2> QED BY <2>3, <2>5, <2>6
<1> QED BY <1>1, <1>3

\* What an authorization binds: one proposal, two roots, evidence that is eligible.
LEMMA Authorizes ==
    ASSUME NEW r, NEW id, NEW by, NEW clock, NEW a \in Authorization(r, id, by, clock)
    PROVE  /\ a.id = id /\ a.prev = r[id] /\ Len(r[id]) = 1 /\ LegalAssumption(id, r[id])
           /\ a.assumptions = AssumptionRoot(r) /\ a.evidence = EvidenceRoot(r)
           /\ AssumptionAt(id, r[id]).declared.evidence \subseteq Ids =>
                 \A e \in AssumptionAt(id, r[id]).declared.evidence : EligibilityCode(e, r[e], clock) = "ELIGIBLE"
<1> DEFINE declared == AssumptionAt(id, r[id]).declared
<1>1. PICK receipt : receipt = Receipt(r, id, declared, clock)
  OBVIOUS
<1>2. /\ Proposed(r, id, clock) /\ receipt.passed
      /\ a = [id |-> id, by |-> by, clock |-> clock, prev |-> r[id],
              assumptions |-> AssumptionRoot(r), evidence |-> EvidenceRoot(r), receipt |-> receipt]
  BY <1>1, Zenon DEF Authorization, When
<1>3. Len(r[id]) = 1 /\ LegalAssumption(id, r[id])
  BY <1>2 DEF Proposed
<1>4. PICK w : receipt = WalkReceipt(id, declared, clock, w,
                             IF w.code = "PRESENT" THEN Decided(r, declared.evidence, clock) ELSE <<>>)
  BY <1>1, Zenon DEF Receipt
<1>5. PICK d : d = IF w.code = "PRESENT" THEN Decided(r, declared.evidence, clock) ELSE <<>>
  OBVIOUS
<1>6. w.code = "PRESENT" /\ \A n \in 1..Len(d) : d[n].code = "ELIGIBLE"
  BY <1>2, <1>4, <1>5 DEF WalkReceipt
<1>7. d = Decided(r, declared.evidence, clock)
  BY <1>5, <1>6
<1> HIDE DEF declared
<1>8. declared.evidence \subseteq Ids => \A e \in declared.evidence : EligibilityCode(e, r[e], clock) = "ELIGIBLE"
  BY <1>6, <1>7, DecidedAll
<1> QED BY <1>2, <1>3, <1>8 DEF declared

\* The events of a projection: the explicit ones in canonical order, then expiries.
LEMMA BeforeOrders ==
    ASSUME NEW explicit, \A x \in explicit : x.id \in Ids /\ Len(x.prev) \in Nat, Placed(explicit),
           NEW R, R = {p \in explicit \X explicit : Before(p[1], p[2])}
    PROVE  Orders(R, explicit)
<1>1. \A x \in explicit : Position(IdOrder, x.id) \in Nat /\ IdOrder[Position(IdOrder, x.id)] = x.id
  <2>1. IdOrder \in Seq(Range(IdOrder)) /\ Len(IdOrder) \in Nat
    BY IdOrderAssumption, SeqFacts
  <2> QED BY <2>1, PositionFacts DEF Ids
<1>2. \A x, y \in explicit : <<x, y>> \in R <=> Before(x, y)
  OBVIOUS
<1>3. \A x, y \in explicit : Position(IdOrder, x.id) = Position(IdOrder, y.id) <=> x.id = y.id
  BY <1>1
<1>4. \A x, y \in explicit : x.id = y.id /\ Len(x.prev) = Len(y.prev) => x = y
  BY DEF Placed
<1> DEFINE place(x) == Position(IdOrder, x.id)
           size(x)  == Len(x.prev)
<1>5. /\ \A x \in explicit : place(x) \in Nat /\ size(x) \in Nat
      /\ \A x, y \in explicit : /\ <<x, y>> \in R <=> place(x) < place(y) \/ (place(x) = place(y) /\ size(x) < size(y))
                                /\ place(x) = place(y) /\ size(x) = size(y) => x = y
  BY <1>1, <1>2, <1>3, <1>4 DEF Before
<1> HIDE DEF place, size
<1> QED BY <1>5 DEF Orders

LEMMA CanonicalLists ==
    ASSUME NEW explicit, IsFiniteSet(explicit), Placed(explicit),
           \A x \in explicit : x.id \in Ids /\ Len(x.prev) \in Nat
    PROVE  /\ Canonical(explicit) \in Seq(explicit) /\ Canonical(explicit) \in Seq(Range(Canonical(explicit)))
           /\ Len(Canonical(explicit)) = Cardinality(explicit)
           /\ \A x \in explicit : \E n \in 1..Len(Canonical(explicit)) : Canonical(explicit)[n] = x
<1>1. PICK R : R = {p \in explicit \X explicit : Before(p[1], p[2])}
  OBVIOUS
<1>2. Orders(R, explicit)
  BY <1>1, BeforeOrders
<1>3. Canonical(explicit) = InOrder(explicit, R)
  BY <1>1 DEF Canonical
<1> QED BY <1>2, <1>3, InOrderLists

LEMMA ExpiriesList ==
    ASSUME NEW held, NEW due \in SUBSET Ids, NEW clock, NEW late, late = Expiries(held, due, clock)
    PROVE  /\ Len(late) = Cardinality(due) /\ late \in Seq(Range(late)) /\ Cardinality(due) \in Nat
           /\ \A n \in 1..Len(late) : /\ late[n].id = Ordered(due)[n] /\ late[n].prev = held[Ordered(due)[n]]
                                      /\ late[n].event = ExpireEvent(clock)
<1>1. PICK ids, N : ids = Ordered(due) /\ N = Len(ids) /\ N = Cardinality(due) /\ N \in Nat
  BY OrderedLists
<1>2. late = [n \in 1..N |-> [id |-> ids[n], prev |-> held[ids[n]], event |-> ExpireEvent(clock)]]
  BY <1>1 DEF Expiries
<1>3. late \in [1..N -> Range(late)]
  BY <1>2 DEF Range
<1>4. \A n \in 1..N : late[n].id = ids[n] /\ late[n].prev = held[ids[n]] /\ late[n].event = ExpireEvent(clock)
  BY <1>2
<1>5. late \in Seq(Range(late)) /\ Len(late) = N
  BY <1>1, <1>3, FunctionSeq
<1> QED BY <1>1, <1>4, <1>5

\* Every automatic event expires its entity at the pass's clock.
LEMMA ExpiriesExpire ==
    ASSUME NEW held, NEW due \in SUBSET Ids, NEW clock, NEW late, late = Expiries(held, due, clock)
    PROVE  \A n \in 1..Len(late) : late[n].event = ExpireEvent(clock)
<1>1. PICK ids : ids = Ordered(due)
  OBVIOUS
<1>2. late = [n \in 1..Len(ids) |-> [id |-> ids[n], prev |-> held[ids[n]], event |-> ExpireEvent(clock)]]
  BY <1>1 DEF Expiries
<1>3. Len(ids) \in Nat /\ late \in [1..Len(ids) -> Range(late)]
  BY <1>1, <1>2, OrderedLists DEF Range
<1>4. Len(late) = Len(ids)
  BY <1>3, FunctionSeq
<1> QED BY <1>2, <1>4

\* A member of two sequences in a row is a member of one of them.
LEMMA ConcatRange ==
    ASSUME NEW s, s \in Seq(Range(s)), NEW t, t \in Seq(Range(t)), NEW n \in 1..Len(s \o t)
    PROVE  (s \o t)[n] \in Range(s) \cup Range(t)
<1>1. PICK S : S = Range(s) \cup Range(t)
  OBVIOUS
<1>2. s \in Seq(S) /\ t \in Seq(S)
  BY <1>1, SeqMonotonic
<1>3. s \o t \in Seq(S)
  BY <1>2, ConcatProperties
<1> QED BY <1>1, <1>3, ElementOfSeq

LEMMA AssumptionAdmissions ==
    ASSUME NEW held, Registered(held), NEW evidence, NEW clock, NEW auths,
           \A a \in auths : \E r, id, by : id \in Assumptions /\ a \in Authorization(r, id, by, clock),
           NEW explicit, IsFiniteSet(explicit), \A x \in explicit : x.id \in Ids /\ Len(x.prev) \in Nat
    PROVE  AdmissionsRest(clock, evidence,
                          AssumptionPlan(held, explicit, auths, EvidenceRoot(evidence.post), clock))
<1> SUFFICES ASSUME NEW p \in AssumptionPlan(held, explicit, auths, EvidenceRoot(evidence.post), clock),
                    NEW n \in 1..Len(p.events), Governed(p.events[n].event),
                    NEW e \in AssumptionAt(p.events[n].id, p.events[n].prev).declared.evidence
             PROVE  EligibilityCode(e, evidence.post[e], clock) = "ELIGIBLE"
  BY DEF AdmissionsRest
<1>1. /\ Shaped(auths, EvidenceRoot(evidence.post)) /\ Placed(explicit)
      /\ \A x \in explicit : Bound(x, auths, AssumptionRoot(held))
      /\ p \in Plans(held, explicit, clock, Assumptions)
  BY Zenon DEF AssumptionPlan
<1>2. PICK q, impacts, post :
         p = [pre |-> held, events |-> Canonical(explicit) \o Expiries(q.hs, DueAmong(Assumptions, q.hs, clock), clock),
              impacts |-> impacts, post |-> post]
  BY <1>1 DEF Plans
<1>3. PICK first, late : /\ first = Canonical(explicit)
                         /\ late = Expiries(q.hs, DueAmong(Assumptions, q.hs, clock), clock)
  OBVIOUS
<1>4. p.events = first \o late
  BY <1>2, <1>3
<1>5. first \in Seq(explicit) /\ first \in Seq(Range(first))
  BY <1>1, <1>3, CanonicalLists
<1>6. late \in Seq(Range(late)) /\ \A m \in 1..Len(late) : late[m].event = ExpireEvent(clock)
  <2>1. DueAmong(Assumptions, q.hs, clock) \in SUBSET Ids
    BY AssumptionsAssumption DEF DueAmong
  <2>2. PICK due \in SUBSET Ids : late = Expiries(q.hs, due, clock)
    BY <1>3, <2>1
  <2>3. PICK was : was = q.hs
    OBVIOUS
  <2>4. due \in SUBSET Ids /\ late = Expiries(was, due, clock)
    BY <2>2, <2>3
  <2>5. Len(late) = Cardinality(due)
    BY <2>4, ExpiriesList
  <2>6. late \in Seq(Range(late))
    BY <2>4, ExpiriesList
  <2>7. \A m \in 1..Len(late) : late[m].event = ExpireEvent(clock)
    BY <2>2, ExpiriesExpire
  <2> QED BY <2>6, <2>7
<1>7. PICK x : x = p.events[n]
  OBVIOUS
<1>8. x \in Range(first) \cup Range(late)
  BY <1>4, <1>5, <1>6, <1>7, ConcatRange
<1>9. x \notin Range(late)
  <2> SUFFICES ASSUME x \in Range(late) PROVE FALSE
    OBVIOUS
  <2>1. DOMAIN late = 1..Len(late)
    BY <1>6, SeqFacts
  <2>2. x.event = ExpireEvent(clock)
    BY <1>6, <2>1 DEF Range
  <2>3. x.event.op = "EXPIRE"
    BY <2>2 DEF ExpireEvent
  <2> QED BY <1>7, <2>3 DEF Governed
<1>10. x \in explicit
  <2>1. DOMAIN first = 1..Len(first)
    BY <1>5, SeqFacts
  <2>2. \A m \in 1..Len(first) : first[m] \in explicit
    BY <1>5, ElementOfSeq
  <2> QED BY <1>8, <1>9, <2>1, <2>2 DEF Range
<1>11. PICK a \in auths : a.id = x.id /\ a.prev = x.prev /\ a.assumptions = AssumptionRoot(held)
  BY <1>1, <1>7, <1>10 DEF Bound, Governed
<1>12. PICK r, id, by : id \in Assumptions /\ a \in Authorization(r, id, by, clock)
  BY <1>11
<1>13. /\ a.id = id /\ a.prev = r[id] /\ Len(r[id]) = 1 /\ LegalAssumption(id, r[id])
       /\ a.assumptions = AssumptionRoot(r) /\ a.evidence = EvidenceRoot(r)
       /\ AssumptionAt(id, r[id]).declared.evidence \subseteq Ids =>
             \A u \in AssumptionAt(id, r[id]).declared.evidence : EligibilityCode(u, r[u], clock) = "ELIGIBLE"
  BY <1>12, Authorizes
<1>14. EvidenceRoot(r) = EvidenceRoot(evidence.post)
  BY <1>1, <1>11, <1>13 DEF Shaped
<1>15. r[id] = held[id]
  BY <1>11, <1>12, <1>13 DEF AssumptionRoot
<1>16. PICK s \in AssumptionStates(id, r[id]) : s = AssumptionAt(id, r[id])
  BY <1>13 DEF LegalAssumption, AssumptionAt
<1>17. s.declared.evidence \subseteq EvidenceIds
  <2>1. PICK h : h = held[id]
    OBVIOUS
  <2>2. History(h) /\ \A y \in Range(h) : y.op = "PROPOSE" => Declares(y.arg)
    BY <1>12, <2>1, AssumptionsAssumption DEF Registered
  <2>3. h # <<>> /\ s \in AssumptionStates(id, h)
    <3>1. Len(h) = 1
      BY <1>13, <1>15, <2>1
    <3> QED BY <1>15, <1>16, <2>1, <3>1, LenOne
  <2>4. s.declared = h[1].arg /\ h[1].op = "PROPOSE" /\ h[1] \in Range(h)
    BY <2>2, <2>3, AssumptionAtEnd
  <2> QED BY <2>2, <2>4 DEF Declares
<1>18. e \in s.declared.evidence
  BY <1>7, <1>11, <1>13, <1>16
<1>19. EligibilityCode(e, r[e], clock) = "ELIGIBLE"
  BY <1>13, <1>16, <1>17, <1>18 DEF EvidenceIds
<1>20. r[e] = evidence.post[e]
  BY <1>14, <1>17, <1>18 DEF EvidenceRoot
<1> QED BY <1>19, <1>20
-----------------------------------------------------------------------------
(* Who confirmed a model, who challenged it, and what became of it.        *)

Ended(h, n)     == \E k \in 1..n : \/ h[k].op \in {"REJECT", "EXPIRE", "SUPERSEDE"}
                                   \/ h[k].op = "RESOLVE_CHALLENGES" /\ h[k].arg.outcome # "UPHOLD"
Confirmed(h, n) == \E k \in 1..n : h[k].op = "CONFIRM"
Answered(h, x, k, n) == \E r \in 1..n : r > k /\ h[r].op = "RESOLVE_CHALLENGES" /\ x \in h[r].arg.resolved
Open(h, x, n)   == \E k \in 1..n : /\ h[k].op = "CHALLENGE" /\ h[k].arg.challenge = x
                                   /\ ~Answered(h, x, k, n)

\* How one more event changes them.
LEMMA OneMoreEvent ==
    ASSUME NEW h, NEW n \in Nat, n > 0
    PROVE  /\ Ended(h, n) <=> \/ Ended(h, n - 1) \/ h[n].op \in {"REJECT", "EXPIRE", "SUPERSEDE"}
                              \/ h[n].op = "RESOLVE_CHALLENGES" /\ h[n].arg.outcome # "UPHOLD"
           /\ Confirmed(h, n) <=> Confirmed(h, n - 1) \/ h[n].op = "CONFIRM"
           /\ \A x : Open(h, x, n) <=>
                 \/ h[n].op = "CHALLENGE" /\ h[n].arg.challenge = x
                 \/ Open(h, x, n - 1) /\ ~(h[n].op = "RESOLVE_CHALLENGES" /\ x \in h[n].arg.resolved)
<1>1. \A k : k \in 1..n <=> k \in 1..(n - 1) \/ k = n
  OBVIOUS
<1>2. Ended(h, n) <=> \/ Ended(h, n - 1) \/ h[n].op \in {"REJECT", "EXPIRE", "SUPERSEDE"}
                      \/ h[n].op = "RESOLVE_CHALLENGES" /\ h[n].arg.outcome # "UPHOLD"
  BY <1>1, Zenon DEF Ended
<1>3. Confirmed(h, n) <=> Confirmed(h, n - 1) \/ h[n].op = "CONFIRM"
  BY <1>1, Zenon DEF Confirmed
<1>4. ASSUME NEW x
      PROVE  Open(h, x, n) <=>
                 \/ h[n].op = "CHALLENGE" /\ h[n].arg.challenge = x
                 \/ Open(h, x, n - 1) /\ ~(h[n].op = "RESOLVE_CHALLENGES" /\ x \in h[n].arg.resolved)
  <2>1. ~Answered(h, x, n, n)
    BY DEF Answered
  <2>2. ASSUME NEW k \in 1..(n - 1)
        PROVE  Answered(h, x, k, n) <=>
                  Answered(h, x, k, n - 1) \/ (h[n].op = "RESOLVE_CHALLENGES" /\ x \in h[n].arg.resolved)
    <3>1. n > k
      OBVIOUS
    <3> QED BY <1>1, <3>1, Zenon DEF Answered
  <2>3. h[n].op = "CHALLENGE" => h[n].op # "RESOLVE_CHALLENGES"
    OBVIOUS
  <2>4. Open(h, x, n) <=> \/ h[n].op = "CHALLENGE" /\ h[n].arg.challenge = x
                          \/ \E k \in 1..(n - 1) : /\ h[k].op = "CHALLENGE" /\ h[k].arg.challenge = x
                                                   /\ ~Answered(h, x, k, n)
    BY <1>1, <2>1, Zenon DEF Open
  <2> QED BY <2>2, <2>4, Zenon DEF Open
<1> QED BY <1>2, <1>3, <1>4

\* What a standing model tells about its history.
Told(h, n, m) ==
    /\ m.standing \in {"PROPOSED", "UNVERIFIED", "CONFIRMED"} \cup TerminalStandings
    /\ m.standing \in TerminalStandings <=> Ended(h, n)
    /\ m.standing \notin TerminalStandings =>
          /\ m.standing = "CONFIRMED" <=> Confirmed(h, n)
          /\ \A x : x \in ActiveIds(m) <=> Open(h, x, n)

LEMMA ToldStep ==
    ASSUME NEW h, NEW n \in Nat, n > 0, NEW p, NEW m, Told(h, n - 1, p),
           p.standing \notin TerminalStandings, ModelMoves(m, p, h[n])
    PROVE  Told(h, n, m)
<1> DEFINE e == h[n]
<1>1. /\ p.standing \in {"PROPOSED", "UNVERIFIED", "CONFIRMED"} /\ ~Ended(h, n - 1)
      /\ p.standing = "CONFIRMED" <=> Confirmed(h, n - 1)
      /\ \A x : x \in ActiveIds(p) <=> Open(h, x, n - 1)
  BY DEF Told
<1>2. /\ Ended(h, n) <=> \/ Ended(h, n - 1) \/ e.op \in {"REJECT", "EXPIRE", "SUPERSEDE"}
                         \/ e.op = "RESOLVE_CHALLENGES" /\ e.arg.outcome # "UPHOLD"
      /\ Confirmed(h, n) <=> Confirmed(h, n - 1) \/ e.op = "CONFIRM"
      /\ \A x : Open(h, x, n) <=>
            \/ e.op = "CHALLENGE" /\ e.arg.challenge = x
            \/ Open(h, x, n - 1) /\ ~(e.op = "RESOLVE_CHALLENGES" /\ x \in e.arg.resolved)
  BY OneMoreEvent
<1> HIDE DEF e
<1>3. CASE e.op = "ADMIT" \/ e.op = "CONFIRM"
  <2>1. /\ m.challenges = p.challenges
        /\ e.op = "ADMIT" => m.standing = "UNVERIFIED" /\ p.standing = "PROPOSED"
        /\ e.op = "CONFIRM" => m.standing = "CONFIRMED"
    BY <1>3 DEF ModelMoves, e
  <2>2. ActiveIds(m) = ActiveIds(p)
    BY <2>1 DEF ActiveIds
  <2> QED BY <1>1, <1>2, <1>3, <2>1, <2>2 DEF Told, TerminalStandings
<1>4. CASE e.op = "CHALLENGE"
  <2>1. /\ m.standing = p.standing
        /\ m.challenges = p.challenges \cup
             {[challenge |-> e.arg.challenge, reason |-> e.arg.reason, by |-> e.by, openedAt |-> e.clock]}
    BY <1>4 DEF ModelMoves, e
  <2>2. \A x : x \in ActiveIds(m) <=> x \in ActiveIds(p) \/ x = e.arg.challenge
    <3> DEFINE d == [challenge |-> e.arg.challenge, reason |-> e.arg.reason, by |-> e.by, openedAt |-> e.clock]
    <3>1. d.challenge = e.arg.challenge
      OBVIOUS
    <3>3. PICK c : c = d
      OBVIOUS
    <3>2. m.challenges = p.challenges \cup {c}
      BY <2>1, <3>3
    <3>4. c.challenge = e.arg.challenge
      BY <3>1, <3>3
    <3> HIDE DEF d
    <3> QED BY <3>2, <3>4, Zenon DEF ActiveIds
  <2> QED BY <1>1, <1>2, <1>4, <2>1, <2>2 DEF Told, TerminalStandings
<1>5. CASE e.op = "RESOLVE_CHALLENGES" /\ e.arg.outcome = "UPHOLD"
  <2>1. m.standing = p.standing /\ m.challenges = {c \in p.challenges : c.challenge \notin e.arg.resolved}
    BY <1>5 DEF ModelMoves, e
  <2>2. \A x : x \in ActiveIds(m) <=> x \in ActiveIds(p) /\ x \notin e.arg.resolved
    BY <2>1 DEF ActiveIds
  <2> QED BY <1>1, <1>2, <1>5, <2>1, <2>2 DEF Told, TerminalStandings
<1>6. CASE \/ e.op \in {"REJECT", "EXPIRE", "SUPERSEDE"}
           \/ e.op = "RESOLVE_CHALLENGES" /\ e.arg.outcome # "UPHOLD"
  <2>1. m.standing \in TerminalStandings
    BY <1>6 DEF ModelMoves, e, TerminalStandings
  <2> QED BY <1>2, <1>6, <2>1 DEF Told
<1>7. e.op \in {"ADMIT", "CONFIRM", "CHALLENGE", "RESOLVE_CHALLENGES", "REJECT", "EXPIRE", "SUPERSEDE"}
  BY DEF ModelMoves, e
<1> QED BY <1>3, <1>4, <1>5, <1>6, <1>7

\* A model that is held tells everything about its history.
LEMMA ModelTells ==
    ASSUME NEW id, NEW h, Len(h) \in Nat, Len(h) > 0, NEW m \in ModelStates(id, h)
    PROVE  Told(h, Len(h), m) /\ m.declared = h[1].arg /\ h[1].op = "PROPOSE"
<1>1. PICK f : /\ f[0] = {NoState}
               /\ \A n \in 1..Len(h) : f[n] = UNION {ReduceModel(id, s, h[n]) : s \in f[n - 1]}
               /\ ModelStates(id, h) = f[Len(h)]
  BY ModelFold
<1>2. ModelTrail(f, id, h)
  BY <1>1, ModelTrailed
<1> DEFINE Bad == {n \in 1..Len(h) : ~ \A s \in f[n] : Told(h, n, s)}
<1>3. Bad = {}
  <2> SUFFICES ASSUME Bad # {} PROVE FALSE
    OBVIOUS
  <2>1. PICK n \in Bad : \A k \in Bad : n <= k
    <3>1. Bad \in SUBSET Nat
      OBVIOUS
    <3> HIDE DEF Bad
    <3> QED BY <3>1, LeastMember
  <2>2. n \in 1..Len(h) /\ n \in Nat /\ n > 0
    BY <2>1
  <2>3. PICK s \in f[n] : ~Told(h, n, s)
    BY <2>1
  <2>4. CASE n = 1
    <3>1. s.standing = "PROPOSED" /\ s.challenges = {} /\ h[1].op = "PROPOSE"
      BY <1>2, <2>2, <2>3, <2>4 DEF ModelTrail
    <3>2. \A x : x \notin ActiveIds(s)
      BY <3>1 DEF ActiveIds
    <3>3. ~Ended(h, 1) /\ ~Confirmed(h, 1) /\ \A x : ~Open(h, x, 1)
      BY <3>1 DEF Ended, Confirmed, Open
    <3> QED BY <2>3, <2>4, <3>1, <3>2, <3>3 DEF Told, TerminalStandings
  <2>5. CASE n # 1
    <3>1. n - 1 \in 1..Len(h) /\ ~(n <= n - 1) /\ n > 1
      BY <2>2, <2>5
    <3>2. PICK p \in f[n - 1] : ModelMoves(s, p, h[n]) /\ p.standing \notin TerminalStandings
      BY <1>2, <2>2, <2>3, <3>1 DEF ModelTrail
    <3>3. Told(h, n - 1, p)
      BY <2>1, <3>1, <3>2
    <3> QED BY <2>2, <2>3, <3>2, <3>3, ToldStep
  <2> QED BY <2>4, <2>5
<1>4. Len(h) \in 1..Len(h)
  OBVIOUS
<1> QED BY <1>1, <1>2, <1>3, <1>4 DEF ModelTrail

\* What the answer about a use of a model means.
UseRule(h, use, code) ==
    LET declared == h[1].arg
        at(op)   == {n \in 1..Len(h) : h[n].op = op}
    IN  code = "ALLOWED" <=>
            /\ at("CONFIRM") # {}
            /\ \A n \in at("CHALLENGE") :
                   \E m \in at("RESOLVE_CHALLENGES") : m > n /\ h[n].arg.challenge \in h[m].arg.resolved
            /\ \A n \in at("RESOLVE_CHALLENGES") : h[n].arg.outcome = "UPHOLD"
            /\ at("REJECT") \cup at("EXPIRE") \cup at("SUPERSEDE") = {}
            /\ use.scope \in declared.scopes /\ use.reuse <= declared.reuse
            /\ declared.expires # None => use.clock < declared.expires

LEMMA ModelUseExact ==
    ASSUME NEW id, NEW h, Len(h) \in Nat, Len(h) > 0, NEW m \in ModelStates(id, h),
           DeclaresModel(h[1].arg), NEW use, use.clock \in Int, use.reuse \in Int
    PROVE  UseRule(h, use, ModelUseCode(m, use.clock, use.scope, use.reuse))
<1> DEFINE declared == h[1].arg
           at(op)   == {n \in 1..Len(h) : h[n].op = op}
<1>1. Told(h, Len(h), m) /\ m.declared = declared
  BY ModelTells
<1> HIDE DEF declared
<1>2. ModelUseCode(m, use.clock, use.scope, use.reuse) = "ALLOWED" <=>
          /\ m.standing = "CONFIRMED" /\ m.challenges = {}
          /\ use.scope \in declared.scopes /\ ~(use.reuse > declared.reuse)
          /\ declared.expires # None => ~(use.clock >= declared.expires)
  BY <1>1 DEF Told, ModelUseCode, Status, ActiveStandings, TerminalStandings
<1>3. /\ ~(use.reuse > declared.reuse) <=> use.reuse <= declared.reuse
      /\ declared.expires # None => (~(use.clock >= declared.expires) <=> use.clock < declared.expires)
  BY DEF DeclaresModel, Dated, declared
<1>4. Ended(h, Len(h)) <=> ~ (/\ at("REJECT") \cup at("EXPIRE") \cup at("SUPERSEDE") = {}
                              /\ \A n \in at("RESOLVE_CHALLENGES") : h[n].arg.outcome = "UPHOLD")
  <2>1. ASSUME NEW k \in 1..Len(h), h[k].op \in {"REJECT", "EXPIRE", "SUPERSEDE"}
        PROVE  k \in at("REJECT") \cup at("EXPIRE") \cup at("SUPERSEDE")
    BY <2>1
  <2>2. ASSUME NEW k \in at("REJECT") \cup at("EXPIRE") \cup at("SUPERSEDE")
        PROVE  k \in 1..Len(h) /\ h[k].op \in {"REJECT", "EXPIRE", "SUPERSEDE"}
    OBVIOUS
  <2>3. \A k : k \in at("RESOLVE_CHALLENGES") <=> k \in 1..Len(h) /\ h[k].op = "RESOLVE_CHALLENGES"
    OBVIOUS
  <2> HIDE DEF at
  <2> QED BY <2>1, <2>2, <2>3 DEF Ended
<1>5. Confirmed(h, Len(h)) <=> at("CONFIRM") # {}
  BY DEF Confirmed
<1>6. (\A x : ~Open(h, x, Len(h))) <=>
          \A n \in at("CHALLENGE") :
              \E k \in at("RESOLVE_CHALLENGES") : k > n /\ h[n].arg.challenge \in h[k].arg.resolved
  BY Zenon DEF Open, Answered
<1>7. m.challenges = {} <=> \A x : x \notin ActiveIds(m)
  BY DEF ActiveIds
<1>8. m.standing = "CONFIRMED" => m.standing \notin TerminalStandings
  BY DEF TerminalStandings
<1> HIDE DEF at
<1>9. m.standing = "CONFIRMED" <=> ~Ended(h, Len(h)) /\ Confirmed(h, Len(h))
  BY <1>1, <1>8 DEF Told
<1>10. ~Ended(h, Len(h)) => (m.challenges = {} <=> \A x : ~Open(h, x, Len(h)))
  BY <1>1, <1>7 DEF Told
<1> QED BY <1>2, <1>3, <1>4, <1>5, <1>6, <1>9, <1>10 DEF UseRule, declared, at

-----------------------------------------------------------------------------
(* The question is asked once, of registries that stay as they are.        *)

Held == \E r \in Registries : hs = r.entities /\ models = r.models

\* Each question is told by its answer, and leaves the registries alone.
LEMMA OneQuestion ==
    ASSUME Next
    PROVE  /\ UNCHANGED <<hs, models>>
           /\ \/ /\ answer'.to = "admission"
                 /\ \E id \in Assumptions, clock \in Clocks : Validate(id, clock)
              \/ /\ answer'.to = "use"
                 /\ \E required \in Required, clock \in Clocks : EvaluateUse(required, clock)
              \/ /\ answer'.to = "projection"
                 /\ \E clock \in Projected :
                    \E asked \in Explicit(EvidenceIds, clock), intents \in Explicit(Assumptions, clock) :
                        Project(clock, asked, intents)
              \/ answer'.to = "model_use" /\ \E id \in Models, use \in Uses : UseModel(id, use)
              \/ /\ answer'.to = "model_admission"
                 /\ \E id \in Models, clock \in Clocks : \E receipt \in Receipts(id) : AdmitTwice(id, receipt, clock)
              \/ /\ answer'.to = "model_projection"
                 /\ \E clock \in Projected :
                    \E pairs \in {{}} \cup {{p} : p \in ModelEvidence(clock)}, asked \in AskedOfModels(clock) :
                        ProjectModels(clock, pairs, asked)
<1>1. \A id, clock : Validate(id, clock) => answer'.to = "admission" /\ UNCHANGED <<hs, models>>
  BY DEF Validate
<1>2. \A required, clock : EvaluateUse(required, clock) => answer'.to = "use" /\ UNCHANGED <<hs, models>>
  BY DEF EvaluateUse
<1>3. \A clock, asked, intents :
         Project(clock, asked, intents) => answer'.to = "projection" /\ UNCHANGED <<hs, models>>
  <2> SUFFICES ASSUME NEW clock, NEW asked, NEW intents, Project(clock, asked, intents)
               PROVE  answer'.to = "projection" /\ UNCHANGED <<hs, models>>
    OBVIOUS
  <2>1. PICK explicit, evidence, plans :
           /\ answer' = [to |-> "projection", clock |-> clock, explicit |-> explicit,
                         evidence |-> evidence, plans |-> plans]
           /\ UNCHANGED <<hs, models>>
    BY Zenon DEF Project
  <2> QED BY <2>1
<1>4. \A id, use : UseModel(id, use) => answer'.to = "model_use" /\ UNCHANGED <<hs, models>>
  <2> SUFFICES ASSUME NEW id, NEW use, UseModel(id, use)
               PROVE  answer'.to = "model_use" /\ UNCHANGED <<hs, models>>
    OBVIOUS
  <2>1. PICK code : /\ answer' = [to |-> "model_use", id |-> id, use |-> use, code |-> code]
                    /\ UNCHANGED <<hs, models>>
    BY Zenon DEF UseModel
  <2> QED BY <2>1
<1>5. \A id, receipt, clock :
         AdmitTwice(id, receipt, clock) => answer'.to = "model_admission" /\ UNCHANGED <<hs, models>>
  <2> SUFFICES ASSUME NEW id, NEW receipt, NEW clock, AdmitTwice(id, receipt, clock)
               PROVE  answer'.to = "model_admission" /\ UNCHANGED <<hs, models>>
    OBVIOUS
  <2>1. PICK left, held, again :
           /\ answer' = [to |-> "model_admission", id |-> id, left |-> left, held |-> held, again |-> again]
           /\ UNCHANGED <<hs, models>>
    BY Zenon DEF AdmitTwice
  <2> QED BY <2>1
<1>6. \A clock, pairs, asked :
         ProjectModels(clock, pairs, asked) => answer'.to = "model_projection" /\ UNCHANGED <<hs, models>>
  <2> SUFFICES ASSUME NEW clock, NEW pairs, NEW asked, ProjectModels(clock, pairs, asked)
               PROVE  answer'.to = "model_projection" /\ UNCHANGED <<hs, models>>
    OBVIOUS
  <2>1. PICK explicit, plans :
           /\ answer' = [to |-> "model_projection", clock |-> clock, explicit |-> explicit, pairs |-> pairs,
                         plans |-> plans]
           /\ UNCHANGED <<hs, models>>
    BY Zenon DEF ProjectModels
  <2> QED BY <2>1
<1> QED BY <1>1, <1>2, <1>3, <1>4, <1>5, <1>6, Zenon DEF Next

LEMMA HeldAlways == Spec => []Held
<1>1. Init => Held
  BY DEF Init, Held
<1>2. Held /\ [Next]_vars => Held'
  <2> SUFFICES ASSUME Held, [Next]_vars PROVE Held'
    OBVIOUS
  <2>1. UNCHANGED <<hs, models>>
    BY OneQuestion DEF vars
  <2> QED BY <2>1 DEF Held
<1> QED BY <1>1, <1>2, PTL DEF Spec

\* Who is told that a model may be used: a use is allowed just when the history
\* of the model says that it was confirmed and stands unchallenged.
THEOREM ModelUseIsConfirmed == Spec => []ModelUseConfirmed
<1> DEFINE Rule == Asked("model_use") => UseRule(models[answer.id], answer.use, answer.code)
<1>1. Init => Rule
  BY DEF Init, Asked
<1>2. Held /\ Rule /\ [Next]_vars => Rule'
  <2> SUFFICES ASSUME Held, Rule, [Next]_vars PROVE Rule'
    OBVIOUS
  <2>1. CASE UNCHANGED vars
    BY <2>1 DEF vars, Asked
  <2>2. ASSUME NEW id \in Models, NEW use \in Uses, UseModel(id, use) PROVE Rule'
    <3>1. /\ models' = models /\ models[id] # <<>> /\ LegalModel(id, models[id])
          /\ answer' = [to |-> "model_use", id |-> id, use |-> use,
                        code |-> ModelUseCode(ModelAt(id, models[id]), use.clock, use.scope, use.reuse)]
      BY <2>2 DEF UseModel
    <3>2. PICK r \in Registries : hs = r.entities /\ models = r.models
      BY DEF Held
    <3>3. History(models[id]) /\ \A e \in Range(models[id]) : e.op = "PROPOSE" => DeclaresModel(e.arg)
      BY <3>2, RegistriesAssumption
    <3>11. PICK h, m : h = models[id] /\ m = ModelAt(id, h)
      OBVIOUS
    <3>4. h \in Seq(Range(h)) /\ Len(h) \in Nat /\ Len(h) > 0 /\ h[1] \in Range(h)
      <4>1. h \in Seq(Range(h)) /\ h # <<>>
        BY <3>1, <3>3, <3>11 DEF History
      <4>2. \A n \in 1..Len(h) : h[n] \in Range(h)
        BY <4>1, SeqFacts
      <4>3. PICK L : L = Len(h)
        OBVIOUS
      <4>4. L \in Nat /\ L > 0
        BY <4>1, <4>3, SeqFacts
      <4>5. 1 \in 1..L
        BY <4>4
      <4> QED BY <4>1, <4>2, <4>3, <4>4, <4>5
    <3>5. m \in ModelStates(id, h)
      BY <3>1, <3>11 DEF LegalModel, ModelAt
    <3>6. h[1].op = "PROPOSE"
      BY <3>4, <3>5, ModelTells
    <3>7. DeclaresModel(h[1].arg)
      BY <3>3, <3>4, <3>6, <3>11
    <3>8. use.clock \in Int /\ use.reuse \in Int
      BY RequestsAssumption
    <3>9. answer'.id = id /\ answer'.use = use /\ models'[answer'.id] = h
          /\ answer'.code = ModelUseCode(m, use.clock, use.scope, use.reuse)
      BY <3>1, <3>11
    <3>10. UseRule(h, use, ModelUseCode(m, use.clock, use.scope, use.reuse))
      BY <3>4, <3>5, <3>7, <3>8, ModelUseExact
    <3> QED BY <3>9, <3>10
  <2>3. CASE Next /\ answer'.to # "model_use"
    BY <2>3 DEF Asked
  <2> QED BY <2>1, <2>2, <2>3, OneQuestion
<1>3. Rule => ModelUseConfirmed
  BY Zenon DEF ModelUseConfirmed, UseRule
<1> HIDE DEF Rule
<1> QED BY <1>1, <1>2, <1>3, HeldAlways, PTL DEF Spec


LEMMA HeldRegistered == Held => Registered(hs) /\ RegisteredModels(models)
BY RegistriesAssumption DEF Held, Registered, RegisteredModels

\* What a projection is asked to apply.
LEMMA ExplicitEvents ==
    ASSUME Registered(hs), NEW clock, NEW evidence, NEW intents \in Explicit(Assumptions, clock),
           NEW auths \in {{}} \cup {{p} : p \in Admissions(evidence, clock)},
           NEW explicit, explicit = intents \cup {[id |-> p.id, prev |-> p.prev, event |-> AdmitEvent(p)] : p \in auths}
    PROVE  /\ IsFiniteSet(explicit) /\ \A x \in explicit : x.id \in Assumptions /\ Len(x.prev) \in Nat
           /\ \A a \in auths : \E r, id, by : id \in Assumptions /\ a \in Authorization(r, id, by, clock)
           /\ \A x \in intents : \E e \in Intents : x.event = e /\ e.clock = clock /\ x.prev = hs[x.id]
<1> DEFINE made(p) == [id |-> p.id, prev |-> p.prev, event |-> AdmitEvent(p)]
<1>1. \A a \in auths : \E r, id, by : id \in Assumptions /\ a \in Authorization(r, id, by, clock)
  BY DEF Admissions
<1>2. \A a \in auths : made(a).id \in Assumptions /\ Len(made(a).prev) \in Nat
  <2> SUFFICES ASSUME NEW a \in auths PROVE a.id \in Assumptions /\ Len(a.prev) \in Nat
    OBVIOUS
  <2>1. PICK r, id, by : id \in Assumptions /\ a \in Authorization(r, id, by, clock)
    BY <1>1
  <2>2. a.id = id /\ a.prev = r[id] /\ Len(r[id]) = 1
    BY <2>1, Authorizes
  <2> QED BY <2>1, <2>2
<1>3. \/ intents = {}
      \/ \E id \in Assumptions, e \in Intents : e.clock = clock /\ intents = {[id |-> id, prev |-> hs[id], event |-> e]}
  BY DEF Explicit
<1>4. \A x \in intents : /\ x.id \in Assumptions /\ x.prev = hs[x.id]
                         /\ \E e \in Intents : x.event = e /\ e.clock = clock
  BY <1>3
<1>5. IsFiniteSet(intents)
  BY <1>3, FS_EmptySet, FS_Singleton
<1>6. \A id \in Assumptions : Len(hs[id]) \in Nat
  BY AssumptionsAssumption, SeqFacts DEF Registered, History
<1>7. IsFiniteSet({made(p) : p \in auths})
  <2> HIDE DEF made
  <2>1. CASE auths = {}
    <3>1. {made(p) : p \in auths} = {}
      BY <2>1
    <3> QED BY <3>1, FS_EmptySet
  <2>2. ASSUME NEW a, auths = {a} PROVE IsFiniteSet({made(p) : p \in auths})
    <3>1. {made(p) : p \in auths} = {made(a)}
      BY <2>2
    <3> QED BY <3>1, FS_Singleton
  <2> QED BY <2>1, <2>2
<1>8. explicit = intents \cup {made(p) : p \in auths}
  OBVIOUS
<1> HIDE DEF made
<1>9. IsFiniteSet(explicit)
  <2>1. PICK T : T = {made(p) : p \in auths}
    OBVIOUS
  <2>2. IsFiniteSet(T) /\ explicit = intents \cup T
    BY <1>7, <1>8, <2>1
  <2> QED BY <1>5, <2>2, FS_Union
<1>10. \A x \in explicit : x.id \in Assumptions /\ Len(x.prev) \in Nat
  BY <1>2, <1>4, <1>6, <1>8
<1> QED BY <1>1, <1>4, <1>9, <1>10

LEMMA ModelEvidenced ==
    ASSUME NEW clock, NEW pairs \in {{}} \cup {{p} : p \in ModelEvidence(clock)}, NEW e \in pairs
    PROVE  Evidenced(e)
<1>1. PICK id, receipt, compared, was : id \in Models /\ compared \in Receipts(id) /\
         \E a \in ModelAuthorization(was, id, ExpiryAuthority, clock, receipt), c \in Comparisons(compared) :
             e = [authorization |-> a, comparison |-> c]
  BY DEF ModelEvidence
<1>2. PICK a \in ModelAuthorization(was, id, ExpiryAuthority, clock, receipt), c \in Comparisons(compared) :
         e = [authorization |-> a, comparison |-> c]
  BY <1>1
<1>3. e.authorization = a /\ e.comparison = c
  BY <1>2
<1>4. \E primary, shadow, declared : compared \in DifferenceReceipt(primary, shadow, declared)
  BY <1>1 DEF Receipts
<1>5. \E context, one, other : c \in Comparison(compared, context, one, other)
  <2> DEFINE one == [graph |-> compared.primary, context |-> "context", outcome |-> 0]
             other(shadow, outcome) == [graph |-> shadow, context |-> "context", outcome |-> outcome]
             of(shadow, outcome) == Comparison(compared, "context", one, other(shadow, outcome))
  <2>1. c \in UNION {of(shadow, outcome) : shadow \in Graphs, outcome \in {0, 1}}
    BY <1>2 DEF Comparisons
  <2> HIDE DEF of
  <2>2. PICK shadow, outcome : c \in of(shadow, outcome)
    BY <2>1
  <2> QED BY <2>2, Zenon DEF of
<1> QED BY <1>1, <1>2, <1>3, <1>4, <1>5, Zenon DEF Evidenced

\* A planned admission rests on evidence that is eligible when the events of its
\* attempt are applied, that of a model on two graphs that differ as it declares.
THEOREM AdmissionsOnProjectedEvidence == Spec => []AdmitsOnProjectedEvidence
<1> DEFINE Rule == /\ Asked("model_projection") => ModelAdmissionsRest(answer.pairs, answer.plans)
                   /\ Asked("projection") => AdmissionsRest(answer.clock, answer.evidence, answer.plans)
<1>1. Init => Rule
  BY DEF Init, Asked
<1>2. Held /\ Rule /\ [Next]_vars => Rule'
  <2> SUFFICES ASSUME Held, Rule, [Next]_vars PROVE Rule'
    OBVIOUS
  <2>1. CASE UNCHANGED vars
    BY <2>1 DEF vars, Asked
  <2>2. ASSUME NEW clock, NEW pairs \in {{}} \cup {{p} : p \in ModelEvidence(clock)}, NEW asked,
               ProjectModels(clock, pairs, asked), answer'.to = "model_projection"
        PROVE  Rule'
    <3>1. PICK explicit : answer' = [to |-> "model_projection", clock |-> clock, explicit |-> explicit,
                                     pairs |-> pairs, plans |-> ModelPlan(models, explicit, pairs, clock)]
      BY <2>2, Zenon DEF ProjectModels
    <3>2. ModelAdmissionsRest(pairs, ModelPlan(models, explicit, pairs, clock))
      BY <2>2, HeldRegistered, ModelEvidenced, ModelAdmissions
    <3>3. answer'.pairs = pairs /\ answer'.plans = ModelPlan(models, explicit, pairs, clock)
      BY <3>1
    <3> QED BY <2>2, <3>2, <3>3 DEF Asked
  <2>3. ASSUME NEW clock, NEW asked, NEW intents \in Explicit(Assumptions, clock), Project(clock, asked, intents),
               answer'.to = "projection"
        PROVE  Rule'
    <3>1. PICK evidence, auths, explicit :
             /\ auths \in {{}} \cup {{p} : p \in Admissions(evidence, clock)}
             /\ explicit = intents \cup {[id |-> p.id, prev |-> p.prev, event |-> AdmitEvent(p)] : p \in auths}
             /\ answer' = [to |-> "projection", clock |-> clock, explicit |-> explicit, evidence |-> evidence,
                           plans |-> AssumptionPlan(hs, explicit, auths, EvidenceRoot(evidence.post), clock)]
      BY <2>3, Zenon DEF Project
    <3>2. /\ IsFiniteSet(explicit) /\ \A x \in explicit : x.id \in Assumptions /\ Len(x.prev) \in Nat
          /\ \A a \in auths : \E r, id, by : id \in Assumptions /\ a \in Authorization(r, id, by, clock)
      BY <3>1, HeldRegistered, ExplicitEvents
    <3>3. AdmissionsRest(clock, evidence, AssumptionPlan(hs, explicit, auths, EvidenceRoot(evidence.post), clock))
      BY <3>2, AssumptionsAssumption, HeldRegistered, AssumptionAdmissions
    <3>4. /\ answer'.clock = clock /\ answer'.evidence = evidence
          /\ answer'.plans = AssumptionPlan(hs, explicit, auths, EvidenceRoot(evidence.post), clock)
      BY <3>1
    <3> QED BY <2>3, <3>3, <3>4 DEF Asked
  <2>4. CASE Next /\ answer'.to \notin {"model_projection", "projection"}
    BY <2>4 DEF Asked
  <2> QED BY <2>1, <2>2, <2>3, <2>4, OneQuestion
<1>3. Rule => AdmitsOnProjectedEvidence
  BY Zenon DEF AdmitsOnProjectedEvidence, ModelAdmissionsRest, AdmissionsRest
<1> HIDE DEF Rule
<1> QED BY <1>1, <1>2, <1>3, HeldAlways, PTL DEF Spec

-----------------------------------------------------------------------------
(* Recursive functions.  A step that is a function has its iterates, and a  *)
(* functional that looks only at smaller arguments has a fixed point.      *)

\* There is a function to D of the numbers up to N whose values are the iterates.
Iterated(D, d, G, N) == \E f \in [0..N -> D] : f[0] = d /\ \A n \in 1..N : f[n] = G[f[n - 1]]

LEMMA Iterates ==
    ASSUME NEW D, NEW d \in D, NEW G \in [D -> D], NEW N \in Nat
    PROVE  Iterated(D, d, G, N)
<1> DEFINE Good(M, f) == f[0] = d /\ \A n \in 1..M : f[n] = G[f[n - 1]]
           Bad == {M \in Nat : ~ \E f \in [0..M -> D] : Good(M, f)}
<1> SUFFICES Bad = {}
  BY DEF Iterated
<1> SUFFICES ASSUME Bad # {} PROVE FALSE
  OBVIOUS
<1>1. PICK M \in Bad : \A k \in Bad : M <= k
  <2>1. Bad \in SUBSET Nat
    OBVIOUS
  <2> HIDE DEF Bad
  <2> QED BY <2>1, LeastMember
<1>2. M \in Nat /\ ~ \E f \in [0..M -> D] : Good(M, f)
  BY <1>1
<1>3. CASE M = 0
  <2> DEFINE f == [n \in 0..0 |-> d]
  <2>1. f \in [0..0 -> D] /\ Good(0, f)
    OBVIOUS
  <2> QED BY <1>2, <1>3, <2>1
<1>4. CASE M # 0
  <2>1. M - 1 \in Nat /\ ~(M <= M - 1)
    BY <1>2, <1>4
  <2>2. PICK g \in [0..(M - 1) -> D] : Good(M - 1, g)
    BY <1>1, <2>1
  <2> DEFINE k == [n \in 0..M |-> IF n = M THEN G[g[M - 1]] ELSE g[n]]
  <2>3. M - 1 \in 0..(M - 1) /\ G[g[M - 1]] \in D
    BY <2>1, <2>2
  <2>4. k \in [0..M -> D]
    BY <1>2, <2>1, <2>2, <2>3
  <2>5. k[M] = G[g[M - 1]] /\ \A n \in 0..(M - 1) : k[n] = g[n]
    BY <1>2, <2>1
  <2> HIDE DEF k
  <2>6. Good(M, k)
    <3>1. k[0] = d
      BY <2>1, <2>2, <2>5
    <3>2. ASSUME NEW n \in 1..M PROVE k[n] = G[k[n - 1]]
      <4>1. CASE n = M
        BY <2>3, <2>5, <4>1
      <4>2. CASE n # M
        <5>1. n \in 1..(M - 1) /\ n \in 0..(M - 1) /\ n - 1 \in 0..(M - 1)
          BY <1>2, <4>2
        <5> QED BY <2>2, <2>5, <5>1
      <4> QED BY <4>1, <4>2
    <3> QED BY <3>1, <3>2
  <2> HIDE DEF Good
  <2> QED BY <1>2, <2>4, <2>6
<1> QED BY <1>3, <1>4

\* What the functional says of an argument depends on smaller arguments only.
Local(F, Dom, Val, mu) ==
    \A a, b \in [Dom -> Val] : \A p \in Dom :
        (\A q \in Dom : mu[q] < mu[p] => a[q] = b[q]) => F[a][p] = F[b][p]

Solvable(F, Dom, Val) == \E g \in [Dom -> Val] : g = F[g]

LEMMA Recursion ==
    ASSUME NEW Dom, NEW Val, NEW v \in Val, NEW F \in [[Dom -> Val] -> [Dom -> Val]],
           NEW M \in Nat, NEW mu \in [Dom -> 0..M], Local(F, Dom, Val, mu)
    PROVE  Solvable(F, Dom, Val)
<1>0. PICK D, N : D = [Dom -> Val] /\ N = M + 2
  OBVIOUS
<1>1. N \in Nat /\ F \in [D -> D] /\ [p \in Dom |-> v] \in D
  BY <1>0
<1>2. PICK start \in D : TRUE
  BY <1>1
<1>3. PICK f \in [0..N -> D] : f[0] = start /\ \A n \in 1..N : f[n] = F[f[n - 1]]
  <2>1. Iterated(D, start, F, N)
    BY <1>1, <1>2, Iterates
  <2> QED BY <2>1 DEF Iterated
<1> DEFINE Agree(n) == \A p \in Dom : mu[p] < n => f[n][p] = f[n + 1][p]
           Bad == {n \in 0..(M + 1) : ~Agree(n)}
<1>4. Bad = {}
  <2> SUFFICES ASSUME Bad # {} PROVE FALSE
    OBVIOUS
  <2>1. PICK n \in Bad : \A k \in Bad : n <= k
    <3>1. Bad \in SUBSET Nat
      OBVIOUS
    <3> HIDE DEF Bad
    <3> QED BY <3>1, LeastMember
  <2>2. n \in 0..(M + 1) /\ ~Agree(n)
    BY <2>1
  <2>3. PICK p \in Dom : mu[p] < n /\ f[n][p] # f[n + 1][p]
    BY <2>2
  <2>4. n > 0 /\ n - 1 \in 0..(M + 1) /\ ~(n <= n - 1)
    BY <2>2, <2>3
  <2>5. Agree(n - 1)
    <3> HIDE DEF Agree
    <3> QED BY <2>1, <2>4
  <2>6. \A q \in Dom : mu[q] < mu[p] => f[n - 1][q] = f[n][q]
    BY <2>2, <2>3, <2>4, <2>5
  <2>7. n - 1 \in 0..N /\ n \in 0..N /\ n \in 1..N /\ n + 1 \in 1..N /\ (n + 1) - 1 = n
    BY <1>0, <2>2, <2>4
  <2>8. f[n - 1] \in D /\ f[n] \in D /\ f[n] = F[f[n - 1]] /\ f[n + 1] = F[f[n]]
    BY <1>3, <2>7, Zenon
  <2>9. PICK a, b : a = f[n - 1] /\ b = f[n]
    OBVIOUS
  <2>10. a \in [Dom -> Val] /\ b \in [Dom -> Val] /\ \A q \in Dom : mu[q] < mu[p] => a[q] = b[q]
    BY <1>0, <2>6, <2>8, <2>9
  <2>11. F[a][p] = F[b][p]
    BY <2>3, <2>10, Zenon DEF Local
  <2> QED BY <2>3, <2>8, <2>9, <2>11
<1>5. M + 1 \in 0..(M + 1) /\ M + 1 \in 0..N /\ M + 2 \in 1..N /\ (M + 2) - 1 = M + 1 /\ (M + 1) + 1 = M + 2
  BY <1>0
<1>6. Agree(M + 1)
  <2> HIDE DEF Agree
  <2> QED BY <1>4, <1>5
<1>7. PICK g : g = f[M + 1]
  OBVIOUS
<1>8. g \in D /\ f[M + 2] = F[g] /\ F[g] \in D
  <2>1. g \in D /\ f[M + 2] = F[f[(M + 2) - 1]]
    BY <1>3, <1>5, <1>7
  <2> QED BY <1>1, <1>5, <1>7, <2>1
<1>9. \A p \in Dom : g[p] = F[g][p]
  <2>1. \A p \in Dom : mu[p] < M + 1
    OBVIOUS
  <2> QED BY <1>5, <1>6, <1>7, <1>8, <2>1
<1>10. PICK k : k = F[g]
  OBVIOUS
<1>11. g \in [Dom -> Val] /\ k \in [Dom -> Val] /\ \A p \in Dom : g[p] = k[p]
  BY <1>0, <1>8, <1>9, <1>10
<1> QED BY <1>10, <1>11 DEF Solvable

-----------------------------------------------------------------------------
(* What is reached along dependencies: the least set that is closed.       *)

Grown(R, deps)   == R \cup UNION {deps[x] : x \in R \cap DOMAIN deps}
Closed(T, deps)  == \A x \in T \cap DOMAIN deps : deps[x] \subseteq T
Within(S)        == \A x \in DOMAIN S : S[x] \subseteq Ids

LEMMA GrownFacts ==
    ASSUME NEW R \in SUBSET Ids, NEW deps, Within(deps)
    PROVE  /\ Grown(R, deps) \in SUBSET Ids /\ R \subseteq Grown(R, deps)
           /\ Grown(R, deps) = R <=> Closed(R, deps)
           /\ \A T : R \subseteq T /\ Closed(T, deps) => Grown(R, deps) \subseteq T
BY DEF Grown, Closed, Within

\* R is what S has grown to in N rounds.
GrowsTo(R, S, deps, N) ==
    \E f \in [0..N -> SUBSET Ids] :
        /\ f[0] = S /\ \A n \in 1..N : f[n] = Grown(f[n - 1], deps)
        /\ R = f[N]

LEMMA ReachedRounds ==
    ASSUME NEW S \in SUBSET Ids, NEW deps, Within(deps), NEW N \in Nat, N = Cardinality(Ids)
    PROVE  GrowsTo(Reached(S, deps), S, deps, N)
<1>1. PICK G : G = [R \in SUBSET Ids |-> Grown(R, deps)]
  OBVIOUS
<1>2. G \in [SUBSET Ids -> SUBSET Ids]
  BY <1>1, GrownFacts
<1>3. Iterated(SUBSET Ids, S, G, N)
  BY <1>2, Iterates
<1> DEFINE Body(f) == [n \in 0..N |-> IF n = 0 THEN S ELSE Grown(f[n - 1], deps)]
<1>4. PICK g \in [0..N -> SUBSET Ids] : g[0] = S /\ \A n \in 1..N : g[n] = G[g[n - 1]]
  BY <1>3 DEF Iterated
<1>5. \A n \in 1..N : n - 1 \in 0..N /\ g[n - 1] \in SUBSET Ids /\ g[n] = Grown(g[n - 1], deps)
  <2> SUFFICES ASSUME NEW n \in 1..N
               PROVE  n - 1 \in 0..N /\ g[n - 1] \in SUBSET Ids /\ g[n] = Grown(g[n - 1], deps)
    OBVIOUS
  <2>1. n - 1 \in 0..N /\ g[n - 1] \in SUBSET Ids /\ g[n] = G[g[n - 1]]
    BY <1>4
  <2> QED BY <1>1, <2>1
<1>6. g = Body(g)
  <2>1. \A n \in 0..N : g[n] = IF n = 0 THEN S ELSE Grown(g[n - 1], deps)
    BY <1>4, <1>5
  <2> QED BY <1>4, <2>1
<1>7. PICK f : f = CHOOSE any : any = Body(any)
  OBVIOUS
<1>8. f = Body(f)
  <2> HIDE DEF Body
  <2> QED BY <1>6, <1>7
<1>9. Reached(S, deps) = f[N]
  BY <1>7 DEF Reached, Grown
<1>10. f[0] = S /\ \A n \in 1..N : f[n] = Grown(f[n - 1], deps)
  BY <1>8
<1> DEFINE Bad == {n \in 0..N : f[n] # g[n]}
<1>11. Bad = {}
  <2> SUFFICES ASSUME Bad # {} PROVE FALSE
    OBVIOUS
  <2>1. PICK n \in Bad : \A k \in Bad : n <= k
    <3>1. Bad \in SUBSET Nat
      OBVIOUS
    <3> HIDE DEF Bad
    <3> QED BY <3>1, LeastMember
  <2>2. n \in 0..N /\ f[n] # g[n] /\ n # 0
    BY <1>4, <1>10, <2>1
  <2>3. n \in 1..N /\ n - 1 \in 0..N /\ ~(n <= n - 1)
    BY <2>2
  <2>4. f[n - 1] = g[n - 1]
    BY <2>1, <2>3
  <2> QED BY <1>5, <1>10, <2>2, <2>3, <2>4
<1>12. f = g
  <2>1. f = [n \in 0..N |-> f[n]]
    BY <1>8
  <2>2. g = [n \in 0..N |-> g[n]]
    BY <1>4
  <2>3. \A n \in 0..N : f[n] = g[n]
    BY <1>11
  <2> QED BY <2>1, <2>2, <2>3
<1> QED BY <1>4, <1>5, <1>9, <1>12 DEF GrowsTo

LEMMA ReachedFacts ==
    ASSUME NEW S \in SUBSET Ids, NEW deps, Within(deps)
    PROVE  /\ Reached(S, deps) \in SUBSET Ids /\ S \subseteq Reached(S, deps)
           /\ Closed(Reached(S, deps), deps)
           /\ \A T : S \subseteq T /\ Closed(T, deps) => Reached(S, deps) \subseteq T
<1>1. PICK N \in Nat : N = Cardinality(Ids)
  BY IdsFinite, FS_CardinalityType
<1>2. PICK f \in [0..N -> SUBSET Ids] :
         f[0] = S /\ (\A n \in 1..N : f[n] = Grown(f[n - 1], deps)) /\ Reached(S, deps) = f[N]
  <2>1. GrowsTo(Reached(S, deps), S, deps, N)
    BY <1>1, ReachedRounds
  <2> QED BY <2>1 DEF GrowsTo
<1>3. N \in 0..N /\ 0 \in 0..N /\ \A n \in 1..N : n \in 0..N /\ n - 1 \in 0..N /\ n # 0 /\ n > n - 1
  BY <1>1
<1>4. \A n \in 1..N : f[n - 1] \in SUBSET Ids /\ f[n] = Grown(f[n - 1], deps)
  BY <1>2, <1>3
<1> DEFINE Rule(n) == /\ S \subseteq f[n]
                      /\ \A T : S \subseteq T /\ Closed(T, deps) => f[n] \subseteq T
                      /\ Closed(f[n], deps) \/ n <= Cardinality(f[n])
           Bad == {n \in 0..N : ~Rule(n)}
<1>5. \A R \in SUBSET Ids : Cardinality(R) \in Nat /\ Cardinality(R) <= N /\ (Cardinality(R) = N => R = Ids)
  <2> SUFFICES ASSUME NEW R \in SUBSET Ids
               PROVE  Cardinality(R) \in Nat /\ Cardinality(R) <= N /\ (Cardinality(R) = N => R = Ids)
    OBVIOUS
  <2> QED BY <1>1, IdsFinite, FS_Subset, FS_CardinalityType
<1>6. \A R, T \in SUBSET Ids : R \subseteq T /\ R # T => Cardinality(T) >= Cardinality(R) + 1
  <2> SUFFICES ASSUME NEW R \in SUBSET Ids, NEW T \in SUBSET Ids, R \subseteq T, R # T
               PROVE  Cardinality(T) >= Cardinality(R) + 1
    OBVIOUS
  <2>1. Cardinality(R) <= Cardinality(T) /\ Cardinality(R) # Cardinality(T)
    BY IdsFinite, FS_Subset
  <2> QED BY <1>5, <2>1
<1>7. Bad = {}
  <2> SUFFICES ASSUME Bad # {} PROVE FALSE
    OBVIOUS
  <2>1. PICK n \in Bad : \A k \in Bad : n <= k
    <3>1. Bad \in SUBSET Nat
      OBVIOUS
    <3> HIDE DEF Bad
    <3> QED BY <3>1, LeastMember
  <2>2. n \in 0..N /\ ~Rule(n)
    BY <2>1
  <2>3. n # 0
    <3>1. Rule(0)
      BY <1>2, <1>5
    <3> QED BY <2>2, <3>1
  <2>4. n \in 1..N /\ n - 1 \in 0..N /\ ~(n <= n - 1)
    BY <2>2, <2>3
  <2>5. Rule(n - 1)
    <3> HIDE DEF Rule
    <3> QED BY <2>1, <2>4
  <2>6. PICK R \in SUBSET Ids, Q \in SUBSET Ids : R = f[n - 1] /\ Q = f[n] /\ Q = Grown(R, deps)
    BY <1>2, <1>4, <2>2, <2>4
  <2>7. /\ S \subseteq R /\ (\A T : S \subseteq T /\ Closed(T, deps) => R \subseteq T)
        /\ Closed(R, deps) \/ n - 1 <= Cardinality(R)
    BY <2>5, <2>6
  <2>8. R \subseteq Q /\ \A T : S \subseteq T /\ Closed(T, deps) => Q \subseteq T
    <3>1. R \subseteq Q
      BY <2>6, GrownFacts
    <3>2. ASSUME NEW T, S \subseteq T, Closed(T, deps) PROVE Q \subseteq T
      BY <2>6, <2>7, <3>2, GrownFacts
    <3> QED BY <3>1, <3>2
  <2>9. Closed(Q, deps) \/ n <= Cardinality(Q)
    <3>1. CASE Closed(R, deps)
      BY <2>6, <3>1, GrownFacts
    <3>2. CASE ~Closed(R, deps)
      <4>1. R # Q
        BY <2>6, <3>2, GrownFacts
      <4>2. Cardinality(Q) >= Cardinality(R) + 1 /\ Cardinality(R) \in Nat /\ Cardinality(Q) \in Nat
        BY <1>5, <1>6, <2>6, <2>8, <4>1
      <4> QED BY <2>4, <2>7, <3>2, <4>2
    <3> QED BY <3>1, <3>2
  <2>10. S \subseteq Q
    BY <2>7, <2>8
  <2> QED BY <2>2, <2>6, <2>8, <2>9, <2>10
<1>8. Rule(N)
  <2> HIDE DEF Rule
  <2> QED BY <1>3, <1>7
<1>9. f[N] \in SUBSET Ids
  BY <1>2, <1>3
<1>10. Closed(f[N], deps)
  <2>1. CASE N <= Cardinality(f[N])
    <3>1. f[N] = Ids
      <4>1. Cardinality(f[N]) \in Nat /\ Cardinality(f[N]) <= N
        BY <1>5, <1>9
      <4> QED BY <1>5, <1>9, <2>1, <4>1
    <3> QED BY <3>1 DEF Closed, Within
  <2> QED BY <1>8, <2>1
<1> QED BY <1>2, <1>8, <1>9, <1>10

-----------------------------------------------------------------------------
(* The walk: what it goes through, and that the recursion is well founded. *)

LEMMA RangeFacts ==
    ASSUME NEW S, NEW q \in Seq(S)
    PROVE  /\ q \in Seq(Range(q)) /\ Range(q) \in SUBSET S /\ Len(q) \in Nat /\ DOMAIN q = 1..Len(q)
           /\ \A x : x \in Range(q) <=> \E n \in 1..Len(q) : q[n] = x
<1>1. Len(q) \in Nat /\ q \in [1..Len(q) -> S] /\ DOMAIN q = 1..Len(q)
  BY LenProperties
<1>2. Range(q) \in SUBSET S /\ \A x : x \in Range(q) <=> \E n \in 1..Len(q) : q[n] = x
  BY <1>1 DEF Range
<1>3. q \in [1..Len(q) -> Range(q)]
  BY <1>1 DEF Range
<1>4. q \in Seq(Range(q))
  BY <1>1, <1>3, IsASeq
<1> QED BY <1>1, <1>2, <1>4

LEMMA PushFacts ==
    ASSUME NEW S, NEW q \in Seq(S), NEW e \in S
    PROVE  /\ Append(q, e) \in Seq(S) /\ Len(Append(q, e)) = Len(q) + 1 /\ Len(q) \in Nat
           /\ Append(q, e)[Len(q) + 1] = e /\ \A n \in 1..Len(q) : Append(q, e)[n] = q[n]
           /\ Range(Append(q, e)) = Range(q) \cup {e}
<1>1. /\ Append(q, e) \in Seq(S) /\ Len(Append(q, e)) = Len(q) + 1
      /\ Append(q, e)[Len(q) + 1] = e /\ \A n \in 1..Len(q) : Append(q, e)[n] = q[n]
  BY AppendProperties
<1>2. q \in Seq(Range(q)) /\ Len(q) \in Nat
  BY RangeFacts
<1>3. \A x : x \in Range(Append(q, e)) <=> x \in Range(q) \/ x = e
  BY <1>2, AppendFacts
<1> QED BY <1>1, <1>2, <1>3

LEMMA LeastFacts ==
    ASSUME NEW S \in SUBSET Ids, S # {}
    PROVE  Least(S) \in S /\ \A y \in S : Position(IdOrder, Least(S)) <= Position(IdOrder, y)
<1>1. \A x \in Ids : Position(IdOrder, x) \in Nat
  <2>1. IdOrder \in Seq(Range(IdOrder)) /\ Len(IdOrder) \in Nat
    BY IdOrderAssumption, SeqFacts
  <2>2. \A x \in Ids : Position(IdOrder, x) \in 1..Len(IdOrder)
    BY <2>1, PositionFacts DEF Ids
  <2> QED BY <2>1, <2>2
<1>2. PICK T : T = {Position(IdOrder, x) : x \in S}
  OBVIOUS
<1>3. T \in SUBSET Nat /\ T # {}
  BY <1>1, <1>2
<1>4. PICK n \in T : \A m \in T : n <= m
  BY <1>3, LeastMember
<1>5. \E x \in S : \A y \in S : Position(IdOrder, x) <= Position(IdOrder, y)
  BY <1>2, <1>4
<1> QED BY <1>5 DEF Least

\* Where the witness of a ring has its identities.
LEMMA WitnessFacts ==
    ASSUME NEW S \in SUBSET Ids, NEW ring \in Seq(S), Len(ring) > 0
    PROVE  \E l \in 1..Len(ring) :
              /\ Len(ring) \in Nat /\ Witness(ring) \in Seq(S) /\ Len(Witness(ring)) = Len(ring) + 1
              /\ \A n \in 1..(Len(ring) - l + 1) : Witness(ring)[n] = ring[l + n - 1]
              /\ \A n \in (Len(ring) - l + 2)..Len(ring) : Witness(ring)[n] = ring[n - (Len(ring) - l + 1)]
              /\ Witness(ring)[Len(ring) + 1] = ring[l]
              /\ \A n \in 1..Len(ring) : Position(IdOrder, ring[l]) <= Position(IdOrder, ring[n])
<1>1. PICK L \in Nat : L = Len(ring) /\ L > 0 /\ DOMAIN ring = 1..L /\ ring \in [1..L -> S]
  BY LenProperties
<1>2. Range(ring) \in SUBSET Ids /\ ring[1] \in Range(ring) /\ \A n \in 1..L : ring[n] \in Range(ring)
  BY <1>1 DEF Range
<1>3. PICK x : x = Least(Range(ring))
  OBVIOUS
<1>4. x \in Range(ring) /\ \A y \in Range(ring) : Position(IdOrder, x) <= Position(IdOrder, y)
  BY <1>2, <1>3, LeastFacts
<1>5. PICK l : l = Position(ring, x)
  OBVIOUS
<1>6. l \in 1..L /\ ring[l] = x
  BY <1>1, <1>4, <1>5, RangeFacts, PositionFacts
<1>7. PICK a, b : a = SubSeq(ring, l, L) /\ b = SubSeq(ring, 1, l - 1)
  OBVIOUS
<1>8. a \in Seq(S) /\ Len(a) = L - l + 1 /\ \A n \in 1..(L - l + 1) : a[n] = ring[l + n - 1]
  <2>1. l \in Int /\ L \in Int /\ l <= L /\ \A n \in l..L : ring[n] \in S
    BY <1>1, <1>6
  <2> QED BY <1>7, <2>1, SubSeqProperties
<1>9. b \in Seq(S) /\ Len(b) = l - 1 /\ \A n \in 1..(l - 1) : b[n] = ring[n]
  <2>1. 1 \in Int /\ l - 1 \in Int /\ \A n \in 1..(l - 1) : ring[n] \in S
    BY <1>1, <1>6
  <2>2. b \in Seq(S) /\ Len(b) = (IF 1 <= l - 1 THEN (l - 1) - 1 + 1 ELSE 0)
        /\ \A n \in 1..((l - 1) - 1 + 1) : b[n] = ring[1 + n - 1]
    BY <1>7, <2>1, SubSeqProperties
  <2>3. \A n \in 1..(l - 1) : 1 + n - 1 = n /\ n \in 1..((l - 1) - 1 + 1)
    BY <1>6
  <2> QED BY <1>6, <2>2, <2>3
<1>10. PICK t : t = a \o b
  OBVIOUS
<1>11. /\ t \in Seq(S) /\ Len(t) = L
       /\ \A n \in 1..L : t[n] = IF n <= L - l + 1 THEN a[n] ELSE b[n - (L - l + 1)]
  <2>1. t \in Seq(S) /\ Len(t) = (L - l + 1) + (l - 1)
        /\ \A n \in 1..((L - l + 1) + (l - 1)) : t[n] = IF n <= L - l + 1 THEN a[n] ELSE b[n - (L - l + 1)]
    <3>1. a \in Seq(S) /\ b \in Seq(S)
      BY <1>8, <1>9
    <3>2. t \in Seq(S) /\ Len(t) = Len(a) + Len(b)
          /\ \A n \in 1..(Len(a) + Len(b)) : t[n] = IF n <= Len(a) THEN a[n] ELSE b[n - Len(a)]
      BY <1>10, <3>1, ConcatProperties
    <3> QED BY <1>8, <1>9, <3>2
  <2> QED BY <1>6, <2>1
<1>12. Witness(ring) = Append(t, t[1])
  BY <1>1, <1>3, <1>5, <1>7, <1>10 DEF Witness
<1>13. t[1] = ring[l] /\ t[1] \in S
  <2>1. 1 \in 1..L /\ 1 <= L - l + 1 /\ 1 \in 1..(L - l + 1) /\ l + 1 - 1 = l
    BY <1>1, <1>6
  <2> QED BY <1>1, <1>6, <1>8, <1>11, <2>1
<1>14. PICK c : c = Witness(ring)
  OBVIOUS
<1>15. c \in Seq(S) /\ Len(c) = L + 1 /\ c[L + 1] = ring[l] /\ \A n \in 1..L : c[n] = t[n]
  BY <1>11, <1>12, <1>13, <1>14, PushFacts
<1>16. \A n \in 1..(L - l + 1) : c[n] = ring[l + n - 1]
  <2>1. \A n \in 1..(L - l + 1) : n \in 1..L /\ n <= L - l + 1
    BY <1>6
  <2> QED BY <1>8, <1>11, <1>15, <2>1
<1>17. \A n \in (L - l + 2)..L : c[n] = ring[n - (L - l + 1)]
  <2>1. \A n \in (L - l + 2)..L : n \in 1..L /\ ~(n <= L - l + 1) /\ n - (L - l + 1) \in 1..(l - 1)
    BY <1>6
  <2> QED BY <1>9, <1>11, <1>15, <2>1
<1>18. \A n \in 1..L : Position(IdOrder, ring[l]) <= Position(IdOrder, ring[n])
  BY <1>2, <1>4, <1>6
<1> QED BY <1>1, <1>6, <1>14, <1>15, <1>16, <1>17, <1>18

\* The ring a walk closes is a part of its path.
LEMMA RingFacts ==
    ASSUME NEW S \in SUBSET Ids, NEW stack \in Seq(S), NEW node \in Range(stack)
    PROVE  \E k \in 1..Len(stack) :
              /\ Len(stack) \in Nat /\ stack[k] = node
              /\ RingAt(stack, node) \in Seq(S) /\ Len(RingAt(stack, node)) = Len(stack) - k + 1
              /\ \A n \in 1..(Len(stack) - k + 1) : RingAt(stack, node)[n] = stack[k + n - 1]
<1>1. PICK L \in Nat : L = Len(stack) /\ DOMAIN stack = 1..L /\ stack \in [1..L -> S]
  BY LenProperties
<1>2. PICK k : k = Position(stack, node)
  OBVIOUS
<1>3. k \in 1..L /\ stack[k] = node
  BY <1>1, <1>2, RangeFacts, PositionFacts
<1>4. k \in Int /\ L \in Int /\ k <= L /\ \A n \in k..L : stack[n] \in S
  BY <1>1, <1>3
<1>5. PICK ring : ring = SubSeq(stack, k, L)
  OBVIOUS
<1>6. ring \in Seq(S) /\ Len(ring) = L - k + 1 /\ \A n \in 1..(L - k + 1) : ring[n] = stack[k + n - 1]
  BY <1>4, <1>5, SubSeqProperties
<1>7. ring = RingAt(stack, node)
  BY <1>1, <1>2, <1>5 DEF RingAt
<1> QED BY <1>1, <1>3, <1>6, <1>7

LEMMA WitnessTyped ==
    ASSUME NEW stack \in Seq(Ids), NEW node \in Range(stack)
    PROVE  Witness(RingAt(stack, node)) \in Seq(Ids)
<1>1. PICK k \in 1..Len(stack) :
         /\ Len(stack) \in Nat
         /\ RingAt(stack, node) \in Seq(Ids) /\ Len(RingAt(stack, node)) = Len(stack) - k + 1
  BY RingFacts
<1>2. Len(RingAt(stack, node)) > 0
  BY <1>1
<1> QED BY <1>1, <1>2, WitnessFacts

\* A call goes down to a point of lower height.
Height(p) == Cardinality(Ids \ Range(p.stack)) * (Cardinality(Ids) + 1) + Cardinality(p.kids)

LEMMA Lower ==
    ASSUME NEW c \in Nat, NEW d \in Nat, NEW k \in Nat, NEW l \in Nat, NEW N \in Nat, d < c, l <= N
    PROVE  d * (N + 1) + l < c * (N + 1) + k
<1>1. PICK e \in Nat : c = d + 1 + e
  <2>1. c - d - 1 \in Nat /\ c = d + 1 + (c - d - 1)
    OBVIOUS
  <2> QED BY <2>1
<1>2. PICK a \in Nat, b \in Nat : a = d * (N + 1) /\ b = e * (N + 1)
  <2>1. d * (N + 1) \in Nat /\ e * (N + 1) \in Nat
    BY <1>1
  <2> QED BY <2>1
<1>3. c * (N + 1) = a + (N + 1) + b
  <2>1. (d + 1 + e) * (N + 1) = d * (N + 1) + (N + 1) + e * (N + 1)
    BY <1>1
  <2> QED BY <1>1, <1>2, <2>1
<1> QED BY <1>2, <1>3

HeightBound == Cardinality(Ids) * (Cardinality(Ids) + 1) + Cardinality(Ids)

LEMMA HeightFacts ==
    ASSUME NEW kids \in SUBSET Ids, NEW stack \in Seq(Ids), NEW state
    PROVE  /\ Height(At(kids, stack, state)) \in 0..HeightBound /\ HeightBound \in Nat
           /\ \A node \in kids : \A m : Height(At(kids \ {node}, stack, m)) < Height(At(kids, stack, state))
           /\ \A node \in Ids \ Range(stack), below \in SUBSET Ids : \A m :
                 Height(At(below, Append(stack, node), m)) < Height(At(kids, stack, state))
<1>1. PICK N \in Nat : N = Cardinality(Ids)
  BY IdsFinite, FS_CardinalityType
<1>2. \A S \in SUBSET Ids : IsFiniteSet(S) /\ Cardinality(S) \in Nat /\ Cardinality(S) <= N
  <2> SUFFICES ASSUME NEW S \in SUBSET Ids PROVE IsFiniteSet(S) /\ Cardinality(S) \in Nat /\ Cardinality(S) <= N
    OBVIOUS
  <2> QED BY <1>1, IdsFinite, FS_Subset, FS_CardinalityType
<1>3. PICK c \in Nat, k \in Nat : c = Cardinality(Ids \ Range(stack)) /\ k = Cardinality(kids) /\ c <= N /\ k <= N
  <2>1. Ids \ Range(stack) \in SUBSET Ids
    OBVIOUS
  <2> QED BY <1>2, <2>1
<1>4. Height(At(kids, stack, state)) = c * (N + 1) + k
  BY <1>1, <1>3 DEF Height, At
<1>5. c * (N + 1) + k \in 0..(N * (N + 1) + N) /\ N * (N + 1) + N \in Nat
  <2>1. CASE c = N
    <3>1. N * (N + 1) \in Nat
      OBVIOUS
    <3> QED BY <1>3, <2>1, <3>1
  <2>2. CASE c # N
    <3>1. c < N
      BY <1>3, <2>2
    <3>2. c * (N + 1) + k < N * (N + 1) + N
      BY <1>3, <3>1, Lower
    <3>3. c * (N + 1) \in Nat /\ N * (N + 1) \in Nat
      OBVIOUS
    <3> QED BY <3>2, <3>3
  <2> QED BY <2>1, <2>2
<1>6. ASSUME NEW node \in kids, NEW m
      PROVE  Height(At(kids \ {node}, stack, m)) < Height(At(kids, stack, state))
  <2>1. Cardinality(kids \ {node}) = k - 1
    BY <1>2, <1>3, FS_RemoveElement
  <2>2. Height(At(kids \ {node}, stack, m)) = c * (N + 1) + (k - 1)
    BY <1>1, <1>3, <2>1 DEF Height, At
  <2>3. c * (N + 1) \in Nat
    OBVIOUS
  <2> QED BY <1>4, <2>2, <2>3
<1>7. ASSUME NEW node \in Ids \ Range(stack), NEW below \in SUBSET Ids, NEW m
      PROVE  Height(At(below, Append(stack, node), m)) < Height(At(kids, stack, state))
  <2>1. Range(Append(stack, node)) = Range(stack) \cup {node}
    BY PushFacts
  <2>2. Ids \ Range(Append(stack, node)) = (Ids \ Range(stack)) \ {node}
    BY <2>1
  <2>3. PICK free : free = Ids \ Range(stack)
    OBVIOUS
  <2>4. IsFiniteSet(free) /\ Cardinality(free) = c /\ node \in free
    BY <1>2, <1>3, <2>3
  <2>5. Cardinality(free \ {node}) = c - 1
    BY <2>4, FS_RemoveElement
  <2>6. c - 1 \in Nat /\ c - 1 < c
    <3>1. Cardinality(free \ {node}) \in Nat
      BY <1>2, <2>3
    <3> QED BY <2>5, <3>1
  <2>7. PICK l \in Nat : l = Cardinality(below) /\ l <= N
    BY <1>2
  <2>8. Height(At(below, Append(stack, node), m)) = (c - 1) * (N + 1) + l
    BY <1>1, <2>2, <2>3, <2>5, <2>7 DEF Height, At
  <2>9. PICK d : d = c - 1
    OBVIOUS
  <2>10. d * (N + 1) + l < c * (N + 1) + k
    BY <2>6, <2>7, <2>9, Lower
  <2> QED BY <1>4, <2>8, <2>9, <2>10
<1>8. HeightBound = N * (N + 1) + N
  BY <1>1 DEF HeightBound
<1> QED BY <1>4, <1>5, <1>6, <1>7, <1>8

LEMMA PointFacts ==
    ASSUME NEW nodes, NEW States
    PROVE  /\ \A kids \in SUBSET nodes, stack \in Seq(Ids), state \in States :
                 At(kids, stack, state) \in Points(nodes, States)
           /\ \A p \in Points(nodes, States) :
                 /\ p.kids \in SUBSET nodes /\ p.stack \in Seq(Ids) /\ p.state \in States
                 /\ p = At(p.kids, p.stack, p.state)
BY DEF Points, At

\* The dependencies of a walk lead to nodes it has, and each has a gate.
Walkable(gate, deps, Codes) ==
    /\ DOMAIN deps \subseteq Ids /\ \A x \in DOMAIN deps : deps[x] \subseteq DOMAIN deps /\ gate[x] \in Codes
    /\ "PRESENT" \in Codes /\ "CYCLE" \notin Codes

Called(v)                 == [v EXCEPT !.calls = @ + 1]
Seen(gate, deps, node, v) == [Called(v) EXCEPT !.code = gate[node],
                                !.trail = Append(@, [id |-> node, code |-> gate[node], deps |-> deps[node]])]
Closing(stack, node, v)   == [Called(v) EXCEPT !.code = "CYCLE", !.cycle = Witness(RingAt(stack, node))]
Rec(gate, deps, node)     == [id |-> node, code |-> gate[node], deps |-> deps[node]]

LEMMA StateFacts ==
    ASSUME NEW gate, NEW deps, NEW Codes, Walkable(gate, deps, Codes), NEW v \in WalkState(Codes),
           NEW node \in DOMAIN deps
    PROVE  /\ Called(v) \in WalkState(Codes) /\ Seen(gate, deps, node, v) \in WalkState(Codes)
           /\ Finish(v, node) \in WalkState(Codes)
           /\ \A stack \in Seq(Ids) : node \in Range(stack) => Closing(stack, node, v) \in WalkState(Codes)
           /\ Called(v) = [visited |-> v.visited, trail |-> v.trail, code |-> v.code, cycle |-> v.cycle,
                           calls |-> v.calls + 1]
           /\ Seen(gate, deps, node, v) =
                 [visited |-> v.visited, trail |-> Append(v.trail, Rec(gate, deps, node)), code |-> gate[node],
                  cycle |-> v.cycle, calls |-> v.calls + 1]
           /\ Finish(v, node) = [visited |-> IF v.code = "PRESENT" THEN v.visited \cup {node} ELSE v.visited,
                                 trail |-> v.trail, code |-> v.code, cycle |-> v.cycle, calls |-> v.calls]
           /\ \A stack : Closing(stack, node, v) =
                 [visited |-> v.visited, trail |-> v.trail, code |-> "CYCLE",
                  cycle |-> Witness(RingAt(stack, node)), calls |-> v.calls + 1]
           /\ Rec(gate, deps, node) \in Record(Codes)
<1>1. /\ v.visited \in SUBSET Ids /\ v.trail \in Seq(Record(Codes)) /\ v.code \in Codes \cup {"CYCLE"}
      /\ v.cycle \in Seq(Ids) /\ v.calls \in Nat
      /\ v = [visited |-> v.visited, trail |-> v.trail, code |-> v.code, cycle |-> v.cycle, calls |-> v.calls]
  BY DEF WalkState
<1>2. PICK vi, tr, co, cy, ca : vi = v.visited /\ tr = v.trail /\ co = v.code /\ cy = v.cycle /\ ca = v.calls
  OBVIOUS
<1>3. v = [visited |-> vi, trail |-> tr, code |-> co, cycle |-> cy, calls |-> ca]
  BY <1>1, <1>2
<1>4. Called(v) = [visited |-> vi, trail |-> tr, code |-> co, cycle |-> cy, calls |-> ca + 1]
  BY <1>3 DEF Called
<1>5. Seen(gate, deps, node, v) =
         [visited |-> vi, trail |-> Append(tr, Rec(gate, deps, node)), code |-> gate[node],
          cycle |-> cy, calls |-> ca + 1]
  <2>1. PICK w, g, r, c : w = Called(v) /\ g = gate[node] /\ r = Rec(gate, deps, node) /\ c = ca + 1
    OBVIOUS
  <2>2. w = [visited |-> vi, trail |-> tr, code |-> co, cycle |-> cy, calls |-> c]
    BY <1>4, <2>1
  <2>3. Seen(gate, deps, node, v) = [w EXCEPT !.code = g, !.trail = Append(@, r)]
    BY <2>1 DEF Seen, Rec
  <2>4. Seen(gate, deps, node, v) = [visited |-> vi, trail |-> Append(tr, r), code |-> g, cycle |-> cy, calls |-> c]
    BY <2>2, <2>3
  <2> QED BY <2>1, <2>4
<1>6. Finish(v, node) = [visited |-> IF co = "PRESENT" THEN vi \cup {node} ELSE vi,
                         trail |-> tr, code |-> co, cycle |-> cy, calls |-> ca]
  BY <1>3 DEF Finish
<1>7. \A stack : Closing(stack, node, v) =
         [visited |-> vi, trail |-> tr, code |-> "CYCLE", cycle |-> Witness(RingAt(stack, node)), calls |-> ca + 1]
  <2> TAKE stack
  <2>1. PICK w, y, c : w = Called(v) /\ y = Witness(RingAt(stack, node)) /\ c = ca + 1
    OBVIOUS
  <2>2. w = [visited |-> vi, trail |-> tr, code |-> co, cycle |-> cy, calls |-> c]
    BY <1>4, <2>1
  <2>3. Closing(stack, node, v) = [w EXCEPT !.code = "CYCLE", !.cycle = y]
    BY <2>1 DEF Closing
  <2>4. Closing(stack, node, v) = [visited |-> vi, trail |-> tr, code |-> "CYCLE", cycle |-> y, calls |-> c]
    BY <2>2, <2>3
  <2> QED BY <2>1, <2>4
<1>8. Rec(gate, deps, node) \in Record(Codes)
  BY DEF Rec, Record, Walkable
<1>9. Append(tr, Rec(gate, deps, node)) \in Seq(Record(Codes))
  BY <1>1, <1>2, <1>8, PushFacts
<1>10. /\ vi \in SUBSET Ids /\ vi \cup {node} \in SUBSET Ids /\ tr \in Seq(Record(Codes))
       /\ co \in Codes \cup {"CYCLE"} /\ cy \in Seq(Ids) /\ ca \in Nat /\ ca + 1 \in Nat
       /\ gate[node] \in Codes \cup {"CYCLE"}
  BY <1>1, <1>2 DEF Walkable
<1>11. Called(v) \in WalkState(Codes) /\ Seen(gate, deps, node, v) \in WalkState(Codes)
  BY <1>4, <1>5, <1>9, <1>10 DEF WalkState
<1>12. Finish(v, node) \in WalkState(Codes)
  BY <1>6, <1>10 DEF WalkState
<1>13. ASSUME NEW stack \in Seq(Ids), node \in Range(stack) PROVE Closing(stack, node, v) \in WalkState(Codes)
  <2>1. Witness(RingAt(stack, node)) \in Seq(Ids)
    BY <1>13, WitnessTyped
  <2> QED BY <1>7, <1>10, <2>1 DEF WalkState
<1> QED BY <1>2, <1>4, <1>5, <1>6, <1>7, <1>8, <1>11, <1>12, <1>13

LEMMA WalkNode ==
    ASSUME NEW gate, NEW deps, NEW Codes, Walkable(gate, deps, Codes),
           NEW kids \in SUBSET DOMAIN deps, NEW node, node = Least(kids)
    PROVE  kids # {} => node \in kids /\ node \in DOMAIN deps
<1>1. kids \in SUBSET Ids
  BY DEF Walkable
<1> QED BY <1>1, LeastFacts

LEMMA WalkStops ==
    ASSUME NEW f, NEW gate, NEW deps, NEW kids, NEW stack, NEW v, kids = {} \/ v.code # "PRESENT"
    PROVE  WalkStep(f, gate, deps, At(kids, stack, v)) = v
BY DEF WalkStep, At

\* The state in which a walk goes on to the other children.
Met(f, gate, deps, stack, v, node) ==
    IF node \in Range(stack) THEN Closing(stack, node, v)
    ELSE IF node \in Called(v).visited THEN Called(v)
    ELSE IF gate[node] # "PRESENT" THEN Seen(gate, deps, node, v)
    ELSE Finish(f[At(deps[node], Append(stack, node), Seen(gate, deps, node, v))], node)

LEMMA WalkGoes ==
    ASSUME NEW f, NEW gate, NEW deps, NEW kids, NEW stack, NEW v, NEW node, node = Least(kids),
           kids # {}, v.code = "PRESENT"
    PROVE  WalkStep(f, gate, deps, At(kids, stack, v)) = f[At(kids \ {node}, stack, Met(f, gate, deps, stack, v, node))]
<1>1. PICK p : p = At(kids, stack, v)
  OBVIOUS
<1>2. p.kids = kids /\ p.stack = stack /\ p.state = v
  BY <1>1 DEF At
<1>3. PICK w : w = Called(v)
  OBVIOUS
<1>4. PICK met : met = Met(f, gate, deps, stack, v, node)
  OBVIOUS
<1>5. met = IF node \in Range(stack) THEN Closing(stack, node, v)
            ELSE IF node \in w.visited THEN w
            ELSE IF gate[node] # "PRESENT" THEN Seen(gate, deps, node, v)
            ELSE Finish(f[At(deps[node], Append(stack, node), Seen(gate, deps, node, v))], node)
  BY <1>3, <1>4 DEF Met
<1>6. WalkStep(f, gate, deps, p) =
         IF kids = {} \/ v.code # "PRESENT" THEN v ELSE f[At(kids \ {node}, stack, met)]
  BY <1>2, <1>3, <1>5 DEF WalkStep, Seen, Closing, Called
<1> QED BY <1>1, <1>4, <1>6

LEMMA CalledFacts ==
    ASSUME NEW Codes, NEW v \in WalkState(Codes)
    PROVE  Called(v).visited = v.visited
BY DEF Called, WalkState

LEMMA WalkCases ==
    ASSUME NEW gate, NEW deps, NEW Codes, Walkable(gate, deps, Codes),
           NEW kids \in SUBSET DOMAIN deps, NEW stack, NEW v \in WalkState(Codes),
           NEW f, NEW node, node = Least(kids), kids # {}, v.code = "PRESENT"
    PROVE  /\ node \in kids /\ node \in DOMAIN deps
           /\ node \in Range(stack) =>
                 WalkStep(f, gate, deps, At(kids, stack, v)) = f[At(kids \ {node}, stack, Closing(stack, node, v))]
           /\ node \notin Range(stack) /\ node \in v.visited =>
                 WalkStep(f, gate, deps, At(kids, stack, v)) = f[At(kids \ {node}, stack, Called(v))]
           /\ node \notin Range(stack) /\ node \notin v.visited /\ gate[node] # "PRESENT" =>
                 WalkStep(f, gate, deps, At(kids, stack, v)) = f[At(kids \ {node}, stack, Seen(gate, deps, node, v))]
<1>1. node \in kids /\ node \in DOMAIN deps
  BY WalkNode
<1>2. Called(v).visited = v.visited
  BY CalledFacts
<1>3. WalkStep(f, gate, deps, At(kids, stack, v)) = f[At(kids \ {node}, stack, Met(f, gate, deps, stack, v, node))]
  BY WalkGoes
<1> QED BY <1>1, <1>2, <1>3, Zenon DEF Met

\* What the call below a node leaves.
Below(f, gate, deps, stack, v, node, u) ==
    u = Finish(f[At(deps[node], Append(stack, node), Seen(gate, deps, node, v))], node)

\* The walk enters its first child.
Enters(gate, kids, stack, v, node) ==
    /\ node = Least(kids) /\ kids # {} /\ v.code = "PRESENT" /\ node \notin Range(stack)
    /\ node \notin v.visited /\ node \notin Called(v).visited /\ gate[node] = "PRESENT"

\* The walk goes on to the other children in the state u.
GoesOn(f, gate, deps, kids, stack, v, node, u) ==
    WalkStep(f, gate, deps, At(kids, stack, v)) = f[At(kids \ {node}, stack, u)]

LEMMA WalkDescends ==
    ASSUME NEW f, NEW gate, NEW deps, NEW kids, NEW stack, NEW v, NEW node, NEW u,
           Enters(gate, kids, stack, v, node), Below(f, gate, deps, stack, v, node, u)
    PROVE  GoesOn(f, gate, deps, kids, stack, v, node, u)
<1>1. WalkStep(f, gate, deps, At(kids, stack, v)) = f[At(kids \ {node}, stack, Met(f, gate, deps, stack, v, node))]
  BY WalkGoes DEF Enters
<1>2. Met(f, gate, deps, stack, v, node) = u
  BY DEF Met, Below, Enters
<1> QED BY <1>1, <1>2 DEF GoesOn

\* Two functions agree on the points below one, and are of that type there.
SameBelow(a, b, p, Dom, Val) == \A q \in Dom : Height(q) < Height(p) => a[q] = b[q] /\ b[q] \in Val

LEMMA WalkCongruence ==
    ASSUME NEW gate, NEW deps, NEW Codes, Walkable(gate, deps, Codes),
           NEW p \in Points(DOMAIN deps, WalkState(Codes)), NEW a, NEW b,
           SameBelow(a, b, p, Points(DOMAIN deps, WalkState(Codes)), WalkState(Codes))
    PROVE  WalkStep(a, gate, deps, p) = WalkStep(b, gate, deps, p) /\ WalkStep(b, gate, deps, p) \in WalkState(Codes)
<1>1. PICK kids \in SUBSET DOMAIN deps, stack \in Seq(Ids), v \in WalkState(Codes) : p = At(kids, stack, v)
  BY PointFacts
<1>2. kids \in SUBSET Ids
  BY DEF Walkable
<1>3. PICK node : node = Least(kids)
  OBVIOUS
<1>4. CASE kids = {} \/ v.code # "PRESENT"
  <2>1. WalkStep(a, gate, deps, At(kids, stack, v)) = v /\ WalkStep(b, gate, deps, At(kids, stack, v)) = v
    BY <1>4, WalkStops
  <2> QED BY <1>1, <2>1
<1>5. CASE kids # {} /\ v.code = "PRESENT"
  <2>1. node \in kids /\ node \in DOMAIN deps
    BY <1>3, <1>5, WalkNode
  <2>2. ASSUME NEW m \in WalkState(Codes)
        PROVE  a[At(kids \ {node}, stack, m)] = b[At(kids \ {node}, stack, m)]
               /\ b[At(kids \ {node}, stack, m)] \in WalkState(Codes)
    <3>1. At(kids \ {node}, stack, m) \in Points(DOMAIN deps, WalkState(Codes))
      BY PointFacts
    <3>2. Height(At(kids \ {node}, stack, m)) < Height(p)
      BY <1>1, <1>2, <2>1, HeightFacts
    <3> QED BY <3>1, <3>2 DEF SameBelow
  <2>3. CASE node \in Range(stack)
    <3>1. PICK m : m = Closing(stack, node, v)
      OBVIOUS
    <3>2. m \in WalkState(Codes)
      BY <2>1, <2>3, <3>1, StateFacts
    <3>3. WalkStep(a, gate, deps, p) = a[At(kids \ {node}, stack, m)] /\ WalkStep(b, gate, deps, p) = b[At(kids \ {node}, stack, m)]
      BY <1>1, <1>3, <1>5, <2>3, <3>1, WalkCases
    <3> QED BY <2>2, <3>2, <3>3
  <2>4. CASE node \notin Range(stack) /\ node \in v.visited
    <3>1. PICK m : m = Called(v)
      OBVIOUS
    <3>2. m \in WalkState(Codes)
      BY <2>1, <3>1, StateFacts
    <3>3. WalkStep(a, gate, deps, p) = a[At(kids \ {node}, stack, m)] /\ WalkStep(b, gate, deps, p) = b[At(kids \ {node}, stack, m)]
      BY <1>1, <1>3, <1>5, <2>4, <3>1, WalkCases
    <3> QED BY <2>2, <3>2, <3>3
  <2>5. CASE node \notin Range(stack) /\ node \notin v.visited /\ gate[node] # "PRESENT"
    <3>1. PICK m : m = Seen(gate, deps, node, v)
      OBVIOUS
    <3>2. m \in WalkState(Codes)
      BY <2>1, <3>1, StateFacts
    <3>3. WalkStep(a, gate, deps, p) = a[At(kids \ {node}, stack, m)] /\ WalkStep(b, gate, deps, p) = b[At(kids \ {node}, stack, m)]
      BY <1>1, <1>3, <1>5, <2>5, <3>1, WalkCases
    <3> QED BY <2>2, <3>2, <3>3
  <2>6. CASE node \notin Range(stack) /\ node \notin v.visited /\ gate[node] = "PRESENT"
    <3>1. PICK m, q : m = Seen(gate, deps, node, v) /\ q = At(deps[node], Append(stack, node), m)
      OBVIOUS
    <3>2. m \in WalkState(Codes) /\ deps[node] \in SUBSET DOMAIN deps /\ deps[node] \in SUBSET Ids
          /\ node \in Ids \ Range(stack) /\ Append(stack, node) \in Seq(Ids)
      BY <2>1, <2>6, <3>1, StateFacts, PushFacts DEF Walkable
    <3>3. q \in Points(DOMAIN deps, WalkState(Codes)) /\ Height(q) < Height(p)
      BY <1>1, <1>2, <3>1, <3>2, PointFacts, HeightFacts
    <3>4. a[q] = b[q] /\ b[q] \in WalkState(Codes)
      BY <3>3 DEF SameBelow
    <3>5. PICK u : u = Finish(b[q], node)
      OBVIOUS
    <3>6. u \in WalkState(Codes)
      BY <2>1, <3>4, <3>5, StateFacts
    <3>7. WalkStep(a, gate, deps, p) = a[At(kids \ {node}, stack, u)] /\ WalkStep(b, gate, deps, p) = b[At(kids \ {node}, stack, u)]
      <4>1. Below(a, gate, deps, stack, v, node, u) /\ Below(b, gate, deps, stack, v, node, u)
        BY <3>1, <3>4, <3>5 DEF Below
      <4>2. Enters(gate, kids, stack, v, node)
        BY <1>1, <1>3, <1>5, <2>6, CalledFacts DEF Enters
      <4>3. GoesOn(a, gate, deps, kids, stack, v, node, u) /\ GoesOn(b, gate, deps, kids, stack, v, node, u)
        BY <4>1, <4>2, WalkDescends
      <4> QED BY <1>1, <4>3 DEF GoesOn
    <3> QED BY <2>2, <3>6, <3>7
  <2> QED BY <2>3, <2>4, <2>5, <2>6
<1> QED BY <1>4, <1>5

\* The function a walk follows.
Visits(visit, gate, deps, Codes) ==
    /\ visit \in [Points(DOMAIN deps, WalkState(Codes)) -> WalkState(Codes)]
    /\ \A p \in Points(DOMAIN deps, WalkState(Codes)) : visit[p] = WalkStep(visit, gate, deps, p)

LEMMA WalkRuns ==
    ASSUME NEW gate, NEW deps, NEW Codes, Walkable(gate, deps, Codes), NEW root, NEW first
    PROVE  \E visit : /\ Visits(visit, gate, deps, Codes)
                      /\ Walk(root, first, gate, deps, Codes) = visit[At(first, <<root>>, WalkStart)]
<1>1. PICK Dom, Val : Dom = Points(DOMAIN deps, WalkState(Codes)) /\ Val = WalkState(Codes)
  OBVIOUS
<1>2. PICK mu : mu = [p \in Dom |-> Height(p)]
  OBVIOUS
<1>3. HeightBound \in Nat /\ mu \in [Dom -> 0..HeightBound] /\ \A p \in Dom : mu[p] = Height(p)
  <2>1. ASSUME NEW p \in Dom PROVE HeightBound \in Nat /\ Height(p) \in 0..HeightBound
    <3>1. p.kids \in SUBSET Ids /\ p.stack \in Seq(Ids) /\ p = At(p.kids, p.stack, p.state)
      BY <1>1, PointFacts DEF Walkable
    <3> QED BY <3>1, HeightFacts
  <2>2. HeightBound \in Nat
    <3>1. {} \in SUBSET Ids /\ <<>> \in Seq(Ids)
      BY EmptySeq
    <3> QED BY <3>1, HeightFacts
  <2> QED BY <1>2, <2>1, <2>2
<1>4. WalkStart \in Val
  BY <1>1, EmptySeq DEF WalkStart, WalkState, Walkable
<1>5. PICK F : F = [f \in [Dom -> Val] |-> [p \in Dom |-> WalkStep(f, gate, deps, p)]]
  OBVIOUS
<1>6. ASSUME NEW a \in [Dom -> Val], NEW b \in [Dom -> Val], NEW p \in Dom,
             \A q \in Dom : mu[q] < mu[p] => a[q] = b[q]
      PROVE  WalkStep(a, gate, deps, p) = WalkStep(b, gate, deps, p) /\ WalkStep(b, gate, deps, p) \in Val
  <2>1. \A q \in Dom : Height(q) < Height(p) => a[q] = b[q] /\ b[q] \in Val
    BY <1>3, <1>6
  <2>2. SameBelow(a, b, p, Dom, Val)
    BY <2>1 DEF SameBelow
  <2> QED BY <1>1, <2>2, WalkCongruence
<1>7. \A a \in [Dom -> Val] : \A p \in Dom : WalkStep(a, gate, deps, p) \in Val
  BY <1>6
<1>8. F \in [[Dom -> Val] -> [Dom -> Val]]
  BY <1>5, <1>7
<1>9. \A a \in [Dom -> Val] : \A p \in Dom : F[a][p] = WalkStep(a, gate, deps, p)
  BY <1>5
<1>10. \A a, b \in [Dom -> Val] : \A p \in Dom :
          (\A q \in Dom : mu[q] < mu[p] => a[q] = b[q]) => F[a][p] = F[b][p]
  <2> SUFFICES ASSUME NEW a \in [Dom -> Val], NEW b \in [Dom -> Val], NEW p \in Dom,
                      \A q \in Dom : mu[q] < mu[p] => a[q] = b[q]
               PROVE  F[a][p] = F[b][p]
    OBVIOUS
  <2>1. WalkStep(a, gate, deps, p) = WalkStep(b, gate, deps, p)
    BY <1>6
  <2> QED BY <1>9, <2>1
<1>11. PICK g \in [Dom -> Val] : g = F[g]
  <2>1. Local(F, Dom, Val, mu)
    BY <1>10, Zenon DEF Local
  <2>2. Solvable(F, Dom, Val)
    BY <1>3, <1>4, <1>8, <2>1, Recursion
  <2> QED BY <2>2 DEF Solvable
<1> DEFINE Body(f) == [p \in Dom |-> WalkStep(f, gate, deps, p)]
<1>12. g = Body(g)
  <2>1. F[g] = [p \in Dom |-> WalkStep(g, gate, deps, p)]
    BY <1>5
  <2> QED BY <1>11, <2>1
<1>13. PICK f : f = CHOOSE any : any = Body(any)
  OBVIOUS
<1>14. f = Body(f)
  <2> HIDE DEF Body
  <2> QED BY <1>12, <1>13
<1>15. Walk(root, first, gate, deps, Codes) = f[At(first, <<root>>, WalkStart)]
  BY <1>1, <1>13 DEF Walk
<1>16. (\A p \in Dom : f[p] = WalkStep(f, gate, deps, p)) /\ (\A p \in Dom : g[p] = WalkStep(g, gate, deps, p))
  BY <1>12, <1>14
<1> DEFINE Bad == {n \in Nat : \E p \in Dom : n = Height(p) /\ f[p] # g[p]}
<1>17. Bad = {}
  <2> SUFFICES ASSUME Bad # {} PROVE FALSE
    OBVIOUS
  <2>1. PICK n \in Bad : \A k \in Bad : n <= k
    <3>1. Bad \in SUBSET Nat
      OBVIOUS
    <3> HIDE DEF Bad
    <3> QED BY <3>1, LeastMember
  <2>2. PICK p \in Dom : n = Height(p) /\ f[p] # g[p]
    BY <2>1
  <2>3. \A q \in Dom : Height(q) \in Nat
    BY <1>3
  <2>4. ASSUME NEW q \in Dom, Height(q) < Height(p) PROVE f[q] = g[q] /\ g[q] \in Val
    <3>1. ~(n <= Height(q))
      BY <2>2, <2>3, <2>4
    <3>2. Height(q) \notin Bad
      <4> HIDE DEF Bad
      <4> QED BY <2>1, <3>1
    <3> QED BY <1>11, <2>3, <3>2
  <2>5. WalkStep(f, gate, deps, p) = WalkStep(g, gate, deps, p)
    <3>1. SameBelow(f, g, p, Dom, Val)
      BY <2>4 DEF SameBelow
    <3> QED BY <1>1, <2>2, <3>1, WalkCongruence
  <2> QED BY <1>16, <2>2, <2>5
<1>18. \A p \in Dom : f[p] = g[p]
  BY <1>3, <1>17
<1>19. f = g
  <2>1. DOMAIN f = Dom /\ f = [p \in Dom |-> f[p]]
    BY <1>14
  <2> QED BY <1>11, <1>18, <2>1
<1>20. Visits(f, gate, deps, Codes)
  BY <1>1, <1>11, <1>16, <1>19 DEF Visits
<1> QED BY <1>15, <1>20

\* What a walk does at a point where it does not stop.
Moves(visit, gate, deps, Codes, kids, stack, v, node, u, m) ==
    /\ node \in kids /\ node \in DOMAIN deps /\ node = Least(kids) /\ m \in WalkState(Codes)
    /\ visit[At(kids, stack, v)] = visit[At(kids \ {node}, stack, m)]
    /\ \/ node \in Range(stack) /\ m = Closing(stack, node, v)
       \/ node \notin Range(stack) /\ node \in v.visited /\ m = Called(v)
       \/ /\ node \notin Range(stack) /\ node \notin v.visited /\ gate[node] # "PRESENT"
          /\ m = Seen(gate, deps, node, v)
       \/ /\ node \notin Range(stack) /\ node \notin v.visited /\ gate[node] = "PRESENT"
          /\ u \in WalkState(Codes) /\ m = Finish(u, node)
          /\ u = visit[At(deps[node], Append(stack, node), Seen(gate, deps, node, v))]

LEMMA WalkMoves ==
    ASSUME NEW gate, NEW deps, NEW Codes, Walkable(gate, deps, Codes),
           NEW visit, Visits(visit, gate, deps, Codes),
           NEW kids \in SUBSET DOMAIN deps, NEW stack \in Seq(Ids), NEW v \in WalkState(Codes)
    PROVE  /\ visit[At(kids, stack, v)] \in WalkState(Codes)
           /\ kids = {} \/ v.code # "PRESENT" => visit[At(kids, stack, v)] = v
           /\ kids # {} /\ v.code = "PRESENT" =>
                 \E node, u, m : Moves(visit, gate, deps, Codes, kids, stack, v, node, u, m)
<1>1. PICK p : p = At(kids, stack, v)
  OBVIOUS
<1>2. p \in Points(DOMAIN deps, WalkState(Codes))
  BY <1>1, PointFacts
<1>3. visit[p] \in WalkState(Codes) /\ visit[p] = WalkStep(visit, gate, deps, p)
  BY <1>2 DEF Visits
<1>4. ASSUME kids = {} \/ v.code # "PRESENT" PROVE visit[p] = v
  <2>1. WalkStep(visit, gate, deps, At(kids, stack, v)) = v
    BY <1>4, WalkStops
  <2> QED BY <1>1, <1>3, <2>1
<1>5. ASSUME kids # {} /\ v.code = "PRESENT"
      PROVE  \E node, u, m : Moves(visit, gate, deps, Codes, kids, stack, v, node, u, m)
  <2>1. PICK node : node = Least(kids)
    OBVIOUS
  <2>2. node \in kids /\ node \in DOMAIN deps
    BY <1>5, <2>1, WalkNode
  <2>3. CASE node \in Range(stack)
    <3>1. PICK m : m = Closing(stack, node, v)
      OBVIOUS
    <3>2. m \in WalkState(Codes)
      BY <2>2, <2>3, <3>1, StateFacts
    <3>3. WalkStep(visit, gate, deps, At(kids, stack, v)) = visit[At(kids \ {node}, stack, m)]
      BY <1>5, <2>1, <2>3, <3>1, WalkCases
    <3>4. visit[At(kids, stack, v)] = visit[At(kids \ {node}, stack, m)]
      BY <1>1, <1>3, <3>3
    <3> QED BY <2>1, <2>2, <2>3, <3>1, <3>2, <3>4 DEF Moves
  <2>4. CASE node \notin Range(stack) /\ node \in v.visited
    <3>1. PICK m : m = Called(v)
      OBVIOUS
    <3>2. m \in WalkState(Codes)
      BY <2>2, <3>1, StateFacts
    <3>3. WalkStep(visit, gate, deps, At(kids, stack, v)) = visit[At(kids \ {node}, stack, m)]
      BY <1>5, <2>1, <2>4, <3>1, WalkCases
    <3>4. visit[At(kids, stack, v)] = visit[At(kids \ {node}, stack, m)]
      BY <1>1, <1>3, <3>3
    <3> QED BY <2>1, <2>2, <2>4, <3>1, <3>2, <3>4 DEF Moves
  <2>5. CASE node \notin Range(stack) /\ node \notin v.visited /\ gate[node] # "PRESENT"
    <3>1. PICK m : m = Seen(gate, deps, node, v)
      OBVIOUS
    <3>2. m \in WalkState(Codes)
      BY <2>2, <3>1, StateFacts
    <3>3. WalkStep(visit, gate, deps, At(kids, stack, v)) = visit[At(kids \ {node}, stack, m)]
      BY <1>5, <2>1, <2>5, <3>1, WalkCases
    <3>4. visit[At(kids, stack, v)] = visit[At(kids \ {node}, stack, m)]
      BY <1>1, <1>3, <3>3
    <3> QED BY <2>1, <2>2, <2>5, <3>1, <3>2, <3>4 DEF Moves
  <2>6. CASE node \notin Range(stack) /\ node \notin v.visited /\ gate[node] = "PRESENT"
    <3>1. PICK s, q : s = Seen(gate, deps, node, v) /\ q = At(deps[node], Append(stack, node), s)
      OBVIOUS
    <3>2. s \in WalkState(Codes) /\ deps[node] \in SUBSET DOMAIN deps /\ Append(stack, node) \in Seq(Ids)
      BY <2>2, <3>1, StateFacts, PushFacts DEF Walkable
    <3>3. q \in Points(DOMAIN deps, WalkState(Codes))
      BY <3>1, <3>2, PointFacts
    <3>4. PICK u \in WalkState(Codes) : u = visit[q]
      BY <3>3 DEF Visits
    <3>5. PICK m : m = Finish(u, node)
      OBVIOUS
    <3>6. m \in WalkState(Codes)
      BY <2>2, <3>4, <3>5, StateFacts
    <3>7. Below(visit, gate, deps, stack, v, node, m)
      BY <3>1, <3>4, <3>5 DEF Below
    <3>8. Enters(gate, kids, stack, v, node)
      BY <1>5, <2>1, <2>6, CalledFacts DEF Enters
    <3>9. GoesOn(visit, gate, deps, kids, stack, v, node, m)
      BY <3>7, <3>8, WalkDescends
    <3>10. visit[At(kids, stack, v)] = visit[At(kids \ {node}, stack, m)]
      BY <1>1, <1>3, <3>9 DEF GoesOn
    <3>11. u \in WalkState(Codes) /\ u = visit[At(deps[node], Append(stack, node), Seen(gate, deps, node, v))]
      BY <3>1, <3>4
    <3> QED BY <2>1, <2>2, <2>6, <3>5, <3>6, <3>10, <3>11 DEF Moves
  <2> QED BY <2>3, <2>4, <2>5, <2>6
<1> QED BY <1>1, <1>3, <1>4, <1>5

-----------------------------------------------------------------------------
(* What a walk establishes.                                                *)

\* The path to where a walk is, from the root along dependencies.
Path(stack, root, deps) ==
    /\ stack \in Seq(DOMAIN deps) /\ Len(stack) > 0 /\ stack[1] = root
    /\ \A n \in 1..(Len(stack) - 1) : stack[n + 1] \in deps[stack[n]]
    /\ Range(stack) \subseteq {root} \cup Reached(deps[root], deps)

\* A ring of dependencies that the root is on or leads to.
IsRing(ring, root, deps) ==
    /\ ring \in Seq(DOMAIN deps) /\ Len(ring) > 0 /\ ring[1] \in deps[ring[Len(ring)]]
    /\ \A n \in 1..(Len(ring) - 1) : ring[n + 1] \in deps[ring[n]]
    /\ Range(ring) \subseteq {root} \cup Reached(deps[root], deps)

TrailIds(v) == {v.trail[n].id : n \in 1..Len(v.trail)}

\* The records are those of the nodes, each once.
Kept(v, gate, deps) ==
    /\ \A n \in 1..Len(v.trail) : v.trail[n] = Rec(gate, deps, v.trail[n].id)
    /\ \A m, n \in 1..Len(v.trail) : v.trail[m].id = v.trail[n].id => m = n

\* What holds while no node failed.
Sound(v, stack, root, gate, deps) ==
    /\ v.visited \subseteq Reached(deps[root], deps) /\ v.visited \cap Range(stack) = {}
    /\ \A x \in v.visited : gate[x] = "PRESENT" /\ deps[x] \subseteq v.visited /\ ~OnCycle(x, deps)
    /\ TrailIds(v) = (v.visited \cup Range(stack)) \ {root}
    /\ \A n \in 1..Len(v.trail) : v.trail[n].code = "PRESENT"

\* How a walk ends that did not pass.
Failed(v, root, gate, deps) ==
    \/ v.code = "CYCLE" /\ \E ring : IsRing(ring, root, deps) /\ v.cycle = Witness(ring)
    \/ v.code # "CYCLE" /\ \E x \in Reached(deps[root], deps) : gate[x] = v.code

\* What a call leaves of the state it was made in.
Leaves(v, kids, stack, root, gate, deps) ==
    /\ Kept(v, gate, deps)
    /\ v.code = "PRESENT" => Sound(v, stack, root, gate, deps) /\ kids \subseteq v.visited
    /\ v.code # "PRESENT" => Failed(v, root, gate, deps)

LEMMA ReachedNodes ==
    ASSUME NEW gate, NEW deps, NEW Codes, Walkable(gate, deps, Codes), NEW x \in DOMAIN deps
    PROVE  /\ Within(deps) /\ deps[x] \in SUBSET Ids /\ Reached(deps[x], deps) \in SUBSET DOMAIN deps
           /\ deps[x] \subseteq Reached(deps[x], deps) /\ Closed(Reached(deps[x], deps), deps)
           /\ \A T : deps[x] \subseteq T /\ Closed(T, deps) => Reached(deps[x], deps) \subseteq T
<1>1. Within(deps) /\ deps[x] \in SUBSET Ids
  BY DEF Walkable, Within
<1>2. Closed(DOMAIN deps, deps) /\ deps[x] \subseteq DOMAIN deps
  BY DEF Walkable, Closed
<1>3. /\ deps[x] \subseteq Reached(deps[x], deps) /\ Closed(Reached(deps[x], deps), deps)
      /\ \A T : deps[x] \subseteq T /\ Closed(T, deps) => Reached(deps[x], deps) \subseteq T
  BY <1>1, ReachedFacts
<1>4. Reached(deps[x], deps) \subseteq DOMAIN deps
  BY <1>2, <1>3
<1> QED BY <1>1, <1>3, <1>4

LEMMA PathPush ==
    ASSUME NEW gate, NEW deps, NEW Codes, Walkable(gate, deps, Codes), NEW root \in DOMAIN deps,
           NEW stack, Path(stack, root, deps), NEW node, node \in deps[stack[Len(stack)]]
    PROVE  /\ Path(Append(stack, node), root, deps) /\ Append(stack, node)[Len(Append(stack, node))] = node
           /\ Range(Append(stack, node)) = Range(stack) \cup {node} /\ node \in Reached(deps[root], deps)
           /\ stack \in Seq(Ids) /\ root \in Range(stack)
<1>1. stack \in Seq(DOMAIN deps) /\ Len(stack) \in Nat /\ Len(stack) > 0 /\ DOMAIN stack = 1..Len(stack)
  BY RangeFacts DEF Path
<1>2. PICK L \in Nat : L = Len(stack) /\ L > 0
  BY <1>1
<1>3. PICK last : last = stack[L]
  OBVIOUS
<1>4. L \in 1..L /\ 1 \in 1..L /\ last \in Range(stack) /\ root \in Range(stack)
  BY <1>1, <1>2, <1>3 DEF Range, Path
<1>5. last \in DOMAIN deps /\ node \in DOMAIN deps /\ node \in deps[last]
  <2>1. last \in DOMAIN deps
    BY <1>1, <1>4, RangeFacts
  <2> QED BY <1>2, <1>3, <2>1 DEF Walkable
<1>6. node \in Reached(deps[root], deps)
  <2>1. last = root \/ last \in Reached(deps[root], deps)
    BY <1>4 DEF Path
  <2> QED BY <1>5, <2>1, ReachedNodes DEF Closed
<1>7. PICK t : t = Append(stack, node)
  OBVIOUS
<1>8. /\ t \in Seq(DOMAIN deps) /\ Len(t) = L + 1 /\ t[L + 1] = node /\ \A n \in 1..L : t[n] = stack[n]
      /\ Range(t) = Range(stack) \cup {node}
  BY <1>1, <1>2, <1>5, <1>7, PushFacts
<1>9. ASSUME NEW n \in 1..(Len(t) - 1) PROVE t[n + 1] \in deps[t[n]]
  <2>1. n \in 1..L
    BY <1>8
  <2>2. CASE n = L
    BY <1>3, <1>5, <1>8, <2>1, <2>2
  <2>3. CASE n # L
    <3>1. n \in 1..(Len(stack) - 1) /\ n + 1 \in 1..L
      BY <1>2, <2>1, <2>3
    <3>2. stack[n + 1] \in deps[stack[n]]
      BY <3>1 DEF Path
    <3> QED BY <1>8, <2>1, <3>1, <3>2
  <2> QED BY <2>2, <2>3
<1>10. Path(t, root, deps)
  <2>1. t[1] = root /\ Len(t) > 0
    BY <1>2, <1>4, <1>8 DEF Path
  <2>2. Range(t) \subseteq {root} \cup Reached(deps[root], deps)
    BY <1>6, <1>8 DEF Path
  <2> QED BY <1>8, <1>9, <2>1, <2>2 DEF Path
<1>11. stack \in Seq(Ids)
  <2>1. DOMAIN deps \subseteq Ids
    BY DEF Walkable
  <2> QED BY <1>1, <2>1, SeqMonotonic
<1> QED BY <1>4, <1>6, <1>7, <1>8, <1>10, <1>11

LEMMA RingOfPath ==
    ASSUME NEW gate, NEW deps, NEW Codes, Walkable(gate, deps, Codes), NEW root \in DOMAIN deps,
           NEW stack, Path(stack, root, deps), NEW node \in Range(stack), node \in deps[stack[Len(stack)]]
    PROVE  IsRing(RingAt(stack, node), root, deps)
<1>1. stack \in Seq(DOMAIN deps) /\ DOMAIN deps \in SUBSET Ids
  BY DEF Path, Walkable
<1>2. PICK ring, L : ring = RingAt(stack, node) /\ L = Len(stack)
  OBVIOUS
<1>3. PICK k \in 1..L :
         /\ L \in Nat /\ stack[k] = node /\ ring \in Seq(DOMAIN deps) /\ Len(ring) = L - k + 1
         /\ \A n \in 1..(L - k + 1) : ring[n] = stack[k + n - 1]
  BY <1>1, <1>2, RingFacts
<1>4. PICK M \in Nat : M = L - k + 1 /\ M > 0 /\ Len(ring) = M /\ k + 1 - 1 = k /\ k + M - 1 = L
  <2>1. L - k + 1 \in Nat /\ L - k + 1 > 0 /\ k + 1 - 1 = k /\ k + (L - k + 1) - 1 = L
    BY <1>3
  <2> QED BY <1>3, <2>1
<1>5. ring[1] = node /\ ring[M] = stack[L]
  <2>1. 1 \in 1..M /\ M \in 1..M
    BY <1>4
  <2> QED BY <1>3, <1>4, <2>1
<1>6. ASSUME NEW n \in 1..(M - 1) PROVE ring[n + 1] \in deps[ring[n]]
  <2>1. n \in 1..M /\ n + 1 \in 1..M /\ k + n - 1 \in 1..(L - 1) /\ k + (n + 1) - 1 = (k + n - 1) + 1
    BY <1>3, <1>4
  <2>2. stack[(k + n - 1) + 1] \in deps[stack[k + n - 1]]
    BY <1>2, <2>1 DEF Path
  <2>3. ring[n] = stack[k + n - 1] /\ ring[n + 1] = stack[k + (n + 1) - 1]
    BY <1>3, <1>4, <2>1
  <2> QED BY <2>1, <2>2, <2>3
<1>7. Range(ring) \subseteq Range(stack)
  <2>1. \A n \in 1..M : ring[n] = stack[k + n - 1] /\ k + n - 1 \in 1..L
    BY <1>3, <1>4
  <2>2. \A n \in 1..L : stack[n] \in Range(stack)
    BY <1>1, <1>2, RangeFacts
  <2>3. \A x \in Range(ring) : \E n \in 1..M : ring[n] = x
    BY <1>3, <1>4, RangeFacts
  <2> QED BY <2>1, <2>2, <2>3
<1>8. Range(ring) \subseteq {root} \cup Reached(deps[root], deps)
  BY <1>7 DEF Path
<1> QED BY <1>2, <1>3, <1>4, <1>5, <1>6, <1>8 DEF IsRing

\* The fields of the state after one step.
LEMMA SeenIs ==
    ASSUME NEW gate, NEW deps, NEW node, NEW Codes, NEW v \in WalkState(Codes)
    PROVE  /\ Seen(gate, deps, node, v).visited = v.visited /\ Seen(gate, deps, node, v).code = gate[node]
           /\ Seen(gate, deps, node, v).trail = Append(v.trail, Rec(gate, deps, node))
           /\ Seen(gate, deps, node, v).cycle = v.cycle /\ Seen(gate, deps, node, v).calls = v.calls + 1
BY DEF Seen, Called, Rec, WalkState

LEMMA FinishIs ==
    ASSUME NEW node, NEW Codes, NEW u \in WalkState(Codes)
    PROVE  /\ Finish(u, node).trail = u.trail /\ Finish(u, node).code = u.code
           /\ Finish(u, node).cycle = u.cycle /\ Finish(u, node).calls = u.calls
           /\ u.code = "PRESENT" => Finish(u, node).visited = u.visited \cup {node}
           /\ u.code # "PRESENT" => Finish(u, node) = u
BY DEF Finish, WalkState

LEMMA CalledIs ==
    ASSUME NEW Codes, NEW v \in WalkState(Codes)
    PROVE  /\ Called(v).visited = v.visited /\ Called(v).code = v.code /\ Called(v).trail = v.trail
           /\ Called(v).cycle = v.cycle /\ Called(v).calls = v.calls + 1
BY DEF Called, WalkState

LEMMA ClosingIs ==
    ASSUME NEW stack, NEW node, NEW Codes, NEW v \in WalkState(Codes)
    PROVE  /\ Closing(stack, node, v).visited = v.visited /\ Closing(stack, node, v).code = "CYCLE"
           /\ Closing(stack, node, v).trail = v.trail /\ Closing(stack, node, v).calls = v.calls + 1
           /\ Closing(stack, node, v).cycle = Witness(RingAt(stack, node))
BY DEF Closing, Called, WalkState

LEMMA SeenKept ==
    ASSUME NEW gate, NEW deps, NEW Codes, Walkable(gate, deps, Codes), NEW root, NEW stack,
           NEW v \in WalkState(Codes), Kept(v, gate, deps), Sound(v, stack, root, gate, deps),
           NEW node \in DOMAIN deps, node \notin Range(stack), node \notin v.visited,
           root \in Range(stack), NEW s, s = Seen(gate, deps, node, v)
    PROVE  /\ Kept(s, gate, deps) /\ s.visited = v.visited /\ s.code = gate[node]
           /\ \A t : gate[node] = "PRESENT" /\ Range(t) = Range(stack) \cup {node} => Sound(s, t, root, gate, deps)
<1>1. /\ s.visited = v.visited /\ s.code = gate[node]
      /\ s.trail = Append(v.trail, Rec(gate, deps, node))
  BY SeenIs
<1>2. PICK old, new, r : old = v.trail /\ new = s.trail /\ r = Rec(gate, deps, node)
  OBVIOUS
<1>3. new = Append(old, r) /\ old \in Seq(Record(Codes)) /\ r \in Record(Codes) /\ r.id = node /\ r.code = gate[node]
  <2>1. r \in Record(Codes)
    BY <1>2, StateFacts
  <2> QED BY <1>1, <1>2, <2>1 DEF WalkState, Rec
<1>4. PICK L \in Nat : /\ L = Len(old) /\ Len(new) = L + 1 /\ new[L + 1] = r /\ \A n \in 1..L : new[n] = old[n]
  BY <1>3, PushFacts
<1>5. /\ \A n \in 1..L : old[n] = Rec(gate, deps, old[n].id)
      /\ \A m, n \in 1..L : old[m].id = old[n].id => m = n
  BY <1>2, <1>4 DEF Kept
<1>6. {old[n].id : n \in 1..L} = (v.visited \cup Range(stack)) \ {root} /\ \A n \in 1..L : old[n].code = "PRESENT"
  BY <1>2, <1>4 DEF Sound, TrailIds
<1>7. \A n \in 1..L : old[n].id # node
  BY <1>6
<1>8. \A n \in 1..(L + 1) : n = L + 1 \/ n \in 1..L
  OBVIOUS
<1>9. Kept(s, gate, deps)
  <2>1. \A n \in 1..(L + 1) : new[n] = Rec(gate, deps, new[n].id)
    BY <1>2, <1>3, <1>4, <1>5, <1>8
  <2>2. \A m, n \in 1..(L + 1) : new[m].id = new[n].id => m = n
    BY <1>3, <1>4, <1>5, <1>7, <1>8
  <2> QED BY <1>2, <1>4, <2>1, <2>2 DEF Kept
<1>10. ASSUME NEW t, gate[node] = "PRESENT", Range(t) = Range(stack) \cup {node}
       PROVE  Sound(s, t, root, gate, deps)
  <2>1. TrailIds(s) = (v.visited \cup Range(t)) \ {root}
    <3>1. TrailIds(s) = {new[n].id : n \in 1..(L + 1)}
      BY <1>2, <1>4 DEF TrailIds
    <3>2. {new[n].id : n \in 1..(L + 1)} = {old[n].id : n \in 1..L} \cup {node}
      <4>1. \A n \in 1..L : n \in 1..(L + 1)
        OBVIOUS
      <4>2. L + 1 \in 1..(L + 1)
        OBVIOUS
      <4> QED BY <1>3, <1>4, <1>8, <4>1, <4>2
    <3>3. node # root
      OBVIOUS
    <3> QED BY <1>6, <1>10, <3>1, <3>2, <3>3
  <2>2. \A n \in 1..(L + 1) : new[n].code = "PRESENT"
    BY <1>3, <1>4, <1>6, <1>8, <1>10
  <2>3. s.visited = v.visited
    BY <1>1
  <2>4. v.visited \cap Range(t) = {}
    BY <1>10 DEF Sound
  <2> QED BY <1>2, <1>4, <2>1, <2>2, <2>3, <2>4 DEF Sound
<1>11. s.visited = v.visited /\ s.code = gate[node]
  BY <1>1
<1> QED BY <1>9, <1>10, <1>11

\* The children of a node passed or failed, and what the node leaves then.
Passed(u, node, t, stack, root, gate, deps) ==
    /\ node \notin Range(stack) /\ gate[node] = "PRESENT" /\ Range(t) = Range(stack) \cup {node}
    /\ node \in Reached(deps[root], deps) /\ root \in Range(stack) /\ Leaves(u, deps[node], t, root, gate, deps)

Finishes(m, u, node, stack, root, gate, deps) ==
    /\ Kept(m, gate, deps) /\ m.code = u.code
    /\ m.code = "PRESENT" => Sound(m, stack, root, gate, deps) /\ node \in m.visited /\ u.visited \subseteq m.visited
    /\ m.code # "PRESENT" => Failed(m, root, gate, deps)

LEMMA FinishSound ==
    ASSUME NEW gate, NEW deps, NEW Codes, Walkable(gate, deps, Codes), NEW root, NEW stack,
           NEW u \in WalkState(Codes), NEW node \in DOMAIN deps, NEW t,
           Passed(u, node, t, stack, root, gate, deps), NEW m, m = Finish(u, node)
    PROVE  Finishes(m, u, node, stack, root, gate, deps)
<1>1. /\ node \notin Range(stack) /\ gate[node] = "PRESENT" /\ Range(t) = Range(stack) \cup {node}
      /\ node \in Reached(deps[root], deps) /\ root \in Range(stack) /\ Leaves(u, deps[node], t, root, gate, deps)
  BY DEF Passed
<1>2. /\ m.trail = u.trail /\ m.code = u.code /\ m.cycle = u.cycle
      /\ m.code = "PRESENT" => m.visited = u.visited \cup {node}
  BY FinishIs
<1>3. Kept(m, gate, deps)
  BY <1>1, <1>2 DEF Leaves, Kept
<1>4. ASSUME m.code = "PRESENT" PROVE Sound(m, stack, root, gate, deps)
  <2>1. Sound(u, t, root, gate, deps) /\ deps[node] \subseteq u.visited /\ m.visited = u.visited \cup {node}
    BY <1>1, <1>2, <1>4 DEF Leaves
  <2>2. ~OnCycle(node, deps)
    <3>1. Closed(u.visited, deps)
      BY <2>1 DEF Sound, Closed
    <3>2. Reached(deps[node], deps) \subseteq u.visited
      BY <2>1, <3>1, ReachedNodes
    <3>3. node \notin u.visited
      BY <1>1, <2>1 DEF Sound
    <3> QED BY <3>2, <3>3 DEF OnCycle
  <2>3. \A x \in m.visited : gate[x] = "PRESENT" /\ deps[x] \subseteq m.visited /\ ~OnCycle(x, deps)
    BY <1>1, <2>1, <2>2 DEF Sound
  <2>4. m.visited \subseteq Reached(deps[root], deps) /\ m.visited \cap Range(stack) = {}
    BY <1>1, <2>1 DEF Sound
  <2>5. TrailIds(m) = (m.visited \cup Range(stack)) \ {root}
    <3>1. TrailIds(m) = TrailIds(u)
      BY <1>2 DEF TrailIds
    <3>2. TrailIds(u) = (u.visited \cup Range(t)) \ {root}
      BY <1>1, <2>1 DEF Sound
    <3> QED BY <1>1, <2>1, <3>1, <3>2
  <2>6. \A n \in 1..Len(m.trail) : m.trail[n].code = "PRESENT"
    BY <1>2, <2>1 DEF Sound
  <2> QED BY <2>3, <2>4, <2>5, <2>6 DEF Sound
<1>5. ASSUME m.code # "PRESENT" PROVE Failed(m, root, gate, deps)
  <2>1. Failed(u, root, gate, deps)
    BY <1>1, <1>2, <1>5 DEF Leaves
  <2> QED BY <1>2, <2>1 DEF Failed
<1>6. m.code = "PRESENT" => node \in m.visited /\ u.visited \subseteq m.visited
  BY <1>2
<1> QED BY <1>2, <1>3, <1>4, <1>5, <1>6 DEF Finishes

\* Where a walk may be while no node failed.
Ready(kids, stack, v, root, gate, deps) ==
    /\ Path(stack, root, deps) /\ kids \subseteq deps[stack[Len(stack)]]
    /\ v.code = "PRESENT" /\ Kept(v, gate, deps) /\ Sound(v, stack, root, gate, deps)

\* How a call ends that is made there.
Ends(w, kids, stack, v, root, gate, deps) ==
    Leaves(w, kids, stack, root, gate, deps) /\ (w.code = "PRESENT" => v.visited \subseteq w.visited)

\* All calls of lower height end so.
EndsBelow(visit, n, root, gate, deps, Codes) ==
    \A kids \in SUBSET DOMAIN deps, stack \in Seq(Ids), v \in WalkState(Codes) :
        Height(At(kids, stack, v)) < n /\ Ready(kids, stack, v, root, gate, deps)
            => Ends(visit[At(kids, stack, v)], kids, stack, v, root, gate, deps)

\* One child.
Passes(m, node, stack, v, root, gate, deps) ==
    /\ Kept(m, gate, deps)
    /\ m.code = "PRESENT" => /\ Sound(m, stack, root, gate, deps)
                             /\ node \in m.visited /\ v.visited \subseteq m.visited
    /\ m.code # "PRESENT" => Failed(m, root, gate, deps)

LEMMA ChildPasses ==
    ASSUME NEW gate, NEW deps, NEW Codes, Walkable(gate, deps, Codes), NEW root \in DOMAIN deps,
           NEW visit, Visits(visit, gate, deps, Codes),
           NEW kids \in SUBSET DOMAIN deps, NEW stack \in Seq(Ids), NEW v \in WalkState(Codes),
           Ready(kids, stack, v, root, gate, deps),
           NEW n, n = Height(At(kids, stack, v)), EndsBelow(visit, n, root, gate, deps, Codes),
           NEW node, NEW u, NEW m, Moves(visit, gate, deps, Codes, kids, stack, v, node, u, m)
    PROVE  Passes(m, node, stack, v, root, gate, deps)
<1>1. /\ Path(stack, root, deps) /\ kids \subseteq deps[stack[Len(stack)]]
      /\ v.code = "PRESENT" /\ Kept(v, gate, deps) /\ Sound(v, stack, root, gate, deps)
  BY DEF Ready
<1>2. node \in kids /\ node \in DOMAIN deps /\ node \in deps[stack[Len(stack)]] /\ m \in WalkState(Codes)
  BY <1>1 DEF Moves
<1>3. PICK t : t = Append(stack, node)
  OBVIOUS
<1>4. /\ Path(t, root, deps) /\ t[Len(t)] = node /\ Range(t) = Range(stack) \cup {node}
      /\ node \in Reached(deps[root], deps) /\ root \in Range(stack)
  BY <1>1, <1>2, <1>3, PathPush
<1>5. CASE node \in Range(stack) /\ m = Closing(stack, node, v)
  <2>1. m.code = "CYCLE" /\ m.trail = v.trail /\ m.cycle = Witness(RingAt(stack, node))
    BY <1>5, ClosingIs
  <2>2. IsRing(RingAt(stack, node), root, deps)
    BY <1>1, <1>2, <1>5, RingOfPath
  <2>3. Failed(m, root, gate, deps)
    BY <2>1, <2>2 DEF Failed
  <2>4. Kept(m, gate, deps)
    BY <1>1, <2>1 DEF Kept
  <2> QED BY <2>1, <2>3, <2>4 DEF Passes
<1>6. CASE node \notin Range(stack) /\ node \in v.visited /\ m = Called(v)
  <2>1. m.visited = v.visited /\ m.code = v.code /\ m.trail = v.trail
    BY <1>6, CalledIs
  <2>2. Kept(m, gate, deps)
    BY <1>1, <2>1 DEF Kept
  <2>3. Sound(m, stack, root, gate, deps)
    BY <1>1, <2>1 DEF Sound, TrailIds
  <2> QED BY <1>1, <1>6, <2>1, <2>2, <2>3 DEF Passes
<1>7. CASE node \notin Range(stack) /\ node \notin v.visited /\ gate[node] # "PRESENT" /\ m = Seen(gate, deps, node, v)
  <2>1. Kept(m, gate, deps) /\ m.code = gate[node]
    BY <1>1, <1>2, <1>4, <1>7, SeenKept
  <2>2. gate[node] # "CYCLE"
    BY <1>2 DEF Walkable
  <2>3. Failed(m, root, gate, deps)
    BY <1>4, <2>1, <2>2 DEF Failed
  <2> QED BY <1>7, <2>1, <2>3 DEF Passes
<1>8. CASE /\ node \notin Range(stack) /\ node \notin v.visited /\ gate[node] = "PRESENT"
           /\ u \in WalkState(Codes) /\ m = Finish(u, node)
           /\ u = visit[At(deps[node], Append(stack, node), Seen(gate, deps, node, v))]
  <2>1. PICK s : s = Seen(gate, deps, node, v)
    OBVIOUS
  <2>2. Kept(s, gate, deps) /\ s.visited = v.visited /\ s.code = "PRESENT" /\ Sound(s, t, root, gate, deps)
    <3>1. /\ Kept(s, gate, deps) /\ s.visited = v.visited /\ s.code = gate[node]
          /\ \A y : gate[node] = "PRESENT" /\ Range(y) = Range(stack) \cup {node} => Sound(s, y, root, gate, deps)
      BY <1>1, <1>2, <1>4, <1>8, <2>1, SeenKept
    <3> QED BY <1>4, <1>8, <3>1
  <2>3. s \in WalkState(Codes) /\ deps[node] \in SUBSET DOMAIN deps /\ t \in Seq(Ids)
    BY <1>2, <1>3, <2>1, StateFacts, PushFacts DEF Walkable
  <2>4. deps[node] \in SUBSET Ids /\ node \in Ids \ Range(stack) /\ kids \in SUBSET Ids
    BY <1>2, <1>8 DEF Walkable
  <2>5. Height(At(deps[node], t, s)) < n
    BY <1>3, <2>4, HeightFacts
  <2>6. Ready(deps[node], t, s, root, gate, deps)
    BY <1>4, <2>2 DEF Ready
  <2>7. Ends(u, deps[node], t, s, root, gate, deps)
    BY <1>3, <1>8, <2>1, <2>3, <2>5, <2>6 DEF EndsBelow
  <2>8. /\ Kept(m, gate, deps) /\ m.code = u.code
        /\ m.code = "PRESENT" => Sound(m, stack, root, gate, deps) /\ node \in m.visited /\ u.visited \subseteq m.visited
        /\ m.code # "PRESENT" => Failed(m, root, gate, deps)
    <3>1. Passed(u, node, t, stack, root, gate, deps)
      BY <1>4, <1>8, <2>7 DEF Ends, Passed
    <3>2. u \in WalkState(Codes) /\ node \in DOMAIN deps /\ m = Finish(u, node)
      BY <1>2, <1>8
    <3>3. Finishes(m, u, node, stack, root, gate, deps)
      BY <3>1, <3>2, FinishSound
    <3> QED BY <3>3 DEF Finishes
  <2>9. m.code = "PRESENT" => v.visited \subseteq m.visited
    BY <2>2, <2>7, <2>8 DEF Ends
  <2> QED BY <2>8, <2>9 DEF Passes
<1> QED BY <1>5, <1>6, <1>7, <1>8 DEF Moves

LEMMA WalkEnds ==
    ASSUME NEW gate, NEW deps, NEW Codes, Walkable(gate, deps, Codes), NEW root \in DOMAIN deps,
           NEW visit, Visits(visit, gate, deps, Codes),
           NEW kids \in SUBSET DOMAIN deps, NEW stack \in Seq(Ids), NEW v \in WalkState(Codes),
           Ready(kids, stack, v, root, gate, deps),
           NEW n, n = Height(At(kids, stack, v)), EndsBelow(visit, n, root, gate, deps, Codes)
    PROVE  Ends(visit[At(kids, stack, v)], kids, stack, v, root, gate, deps)
<1>1. /\ Path(stack, root, deps) /\ kids \subseteq deps[stack[Len(stack)]]
      /\ v.code = "PRESENT" /\ Kept(v, gate, deps) /\ Sound(v, stack, root, gate, deps)
  BY DEF Ready
<1>2. CASE kids = {}
  <2>1. visit[At(kids, stack, v)] = v
    BY <1>2, WalkMoves
  <2>2. Ends(v, kids, stack, v, root, gate, deps)
    BY <1>1, <1>2 DEF Ends, Leaves
  <2> QED BY <2>1, <2>2
<1>3. CASE kids # {}
  <2>1. PICK node, u, m : Moves(visit, gate, deps, Codes, kids, stack, v, node, u, m)
    BY <1>1, <1>3, WalkMoves
  <2>2. PICK rest, w : rest = kids \ {node} /\ w = visit[At(rest, stack, m)]
    OBVIOUS
  <2>3. /\ node \in kids /\ node \in DOMAIN deps /\ m \in WalkState(Codes) /\ visit[At(kids, stack, v)] = w
        /\ rest \in SUBSET DOMAIN deps /\ kids \in SUBSET Ids
    BY <2>1, <2>2 DEF Moves, Walkable
  <2>4. Passes(m, node, stack, v, root, gate, deps)
    BY <2>1, ChildPasses
  <2>5. CASE m.code # "PRESENT"
    <3>1. w = m
      BY <2>2, <2>3, <2>5, WalkMoves
    <3>2. Ends(m, kids, stack, v, root, gate, deps)
      BY <2>4, <2>5 DEF Ends, Leaves, Passes
    <3> QED BY <2>3, <3>1, <3>2
  <2>6. CASE m.code = "PRESENT"
    <3>1. Ready(rest, stack, m, root, gate, deps)
      BY <1>1, <2>2, <2>4, <2>6 DEF Ready, Passes
    <3>2. Height(At(rest, stack, m)) < n
      BY <2>2, <2>3, HeightFacts
    <3>3. Ends(w, rest, stack, m, root, gate, deps)
      BY <2>2, <2>3, <3>1, <3>2 DEF EndsBelow
    <3>4. Ends(w, kids, stack, v, root, gate, deps)
      BY <2>2, <2>4, <2>6, <3>3 DEF Ends, Leaves, Passes
    <3> QED BY <2>3, <3>4
  <2> QED BY <2>5, <2>6
<1> QED BY <1>2, <1>3

LEMMA WalkLeaves ==
    ASSUME NEW gate, NEW deps, NEW Codes, Walkable(gate, deps, Codes), NEW root \in DOMAIN deps,
           NEW visit, Visits(visit, gate, deps, Codes),
           NEW kids \in SUBSET DOMAIN deps, NEW stack \in Seq(Ids), NEW v \in WalkState(Codes),
           Ready(kids, stack, v, root, gate, deps)
    PROVE  Ends(visit[At(kids, stack, v)], kids, stack, v, root, gate, deps)
<1> DEFINE Leaving(k, s, w) == Ready(k, s, w, root, gate, deps) => Ends(visit[At(k, s, w)], k, s, w, root, gate, deps)
           Bad == {n \in Nat : \E k \in SUBSET DOMAIN deps, s \in Seq(Ids), w \in WalkState(Codes) :
                      n = Height(At(k, s, w)) /\ ~Leaving(k, s, w)}
<1>1. \A k \in SUBSET DOMAIN deps, s \in Seq(Ids), w \in WalkState(Codes) : Height(At(k, s, w)) \in Nat
  <2> SUFFICES ASSUME NEW k \in SUBSET DOMAIN deps, NEW s \in Seq(Ids), NEW w \in WalkState(Codes)
               PROVE  Height(At(k, s, w)) \in Nat
    OBVIOUS
  <2>1. k \in SUBSET Ids
    BY DEF Walkable
  <2>2. Height(At(k, s, w)) \in 0..HeightBound /\ HeightBound \in Nat
    BY <2>1, HeightFacts
  <2> QED BY <2>2
<1>2. Bad = {}
  <2> SUFFICES ASSUME Bad # {} PROVE FALSE
    OBVIOUS
  <2>1. PICK n \in Bad : \A k \in Bad : n <= k
    <3>1. Bad \in SUBSET Nat
      OBVIOUS
    <3> HIDE DEF Bad
    <3> QED BY <3>1, LeastMember
  <2>2. PICK k \in SUBSET DOMAIN deps, s \in Seq(Ids), w \in WalkState(Codes) :
           n = Height(At(k, s, w)) /\ ~Leaving(k, s, w)
    BY <2>1
  <2>3. EndsBelow(visit, n, root, gate, deps, Codes)
    <3> SUFFICES ASSUME NEW a \in SUBSET DOMAIN deps, NEW b \in Seq(Ids), NEW c \in WalkState(Codes),
                        Height(At(a, b, c)) < n
                 PROVE  Leaving(a, b, c)
      BY DEF EndsBelow
    <3>1. Height(At(a, b, c)) \in Nat /\ n \in Nat /\ ~(n <= Height(At(a, b, c)))
      BY <1>1, <2>2
    <3>2. Height(At(a, b, c)) \notin Bad
      <4> HIDE DEF Bad
      <4> QED BY <2>1, <3>1
    <3> HIDE DEF Leaving
    <3> QED BY <3>1, <3>2
  <2> QED BY <2>2, <2>3, WalkEnds
<1>3. Leaving(kids, stack, v)
  <2> HIDE DEF Leaving
  <2> QED BY <1>1, <1>2
<1> QED BY <1>3

\* A cycle that is one: its edges are dependencies, and it starts at the smallest.
Closes(c, deps) ==
    /\ Len(c) > 1 /\ c[1] = c[Len(c)]
    /\ \A n \in 1..(Len(c) - 1) : c[n + 1] \in deps[c[n]]
    /\ \A n \in 1..Len(c) : Position(IdOrder, c[1]) <= Position(IdOrder, c[n])

LEMMA RingCloses ==
    ASSUME NEW gate, NEW deps, NEW Codes, Walkable(gate, deps, Codes), NEW root, NEW ring, IsRing(ring, root, deps)
    PROVE  Closes(Witness(ring), deps)
<1>1. ring \in Seq(DOMAIN deps) /\ DOMAIN deps \in SUBSET Ids /\ Len(ring) > 0
  BY DEF IsRing, Walkable
<1>2. PICK l \in 1..Len(ring) :
         /\ Len(ring) \in Nat /\ Witness(ring) \in Seq(DOMAIN deps) /\ Len(Witness(ring)) = Len(ring) + 1
         /\ \A n \in 1..(Len(ring) - l + 1) : Witness(ring)[n] = ring[l + n - 1]
         /\ \A n \in (Len(ring) - l + 2)..Len(ring) : Witness(ring)[n] = ring[n - (Len(ring) - l + 1)]
         /\ Witness(ring)[Len(ring) + 1] = ring[l]
         /\ \A n \in 1..Len(ring) : Position(IdOrder, ring[l]) <= Position(IdOrder, ring[n])
  BY <1>1, WitnessFacts
<1>3. PICK L \in Nat, K \in Nat : L = Len(ring) /\ K = L - l + 1 /\ L > 0 /\ K > 0
  <2>1. Len(ring) \in Nat /\ Len(ring) - l + 1 \in Nat /\ Len(ring) - l + 1 > 0
    BY <1>2
  <2> QED BY <1>1, <2>1
<1>4. PICK c : c = Witness(ring)
  OBVIOUS
<1>5. /\ Len(c) = L + 1 /\ (\A n \in 1..K : c[n] = ring[l + n - 1])
      /\ (\A n \in (K + 1)..L : c[n] = ring[n - K]) /\ c[L + 1] = ring[l]
  <2>1. Len(ring) - l + 2 = K + 1 /\ Len(ring) - l + 1 = K
    BY <1>2, <1>3
  <2> QED BY <1>2, <1>3, <1>4, <2>1
<1>6. ring[1] \in deps[ring[L]] /\ \A n \in 1..(L - 1) : ring[n + 1] \in deps[ring[n]]
  BY <1>3 DEF IsRing
<1>7. ASSUME NEW n \in 1..L PROVE c[n + 1] \in deps[c[n]]
  <2>1. CASE n < K
    <3>1. n \in 1..K /\ n + 1 \in 1..K /\ l + (n + 1) - 1 = (l + n - 1) + 1 /\ l + n - 1 \in 1..(L - 1)
      BY <1>2, <1>3, <2>1
    <3>2. c[n] = ring[l + n - 1] /\ c[n + 1] = ring[l + (n + 1) - 1]
      BY <1>5, <3>1
    <3> QED BY <1>6, <3>1, <3>2
  <2>2. CASE n = K
    <3>1. n \in 1..K /\ l + n - 1 = L
      BY <1>2, <1>3, <2>2
    <3>2. c[n] = ring[L]
      BY <1>5, <3>1
    <3>3. c[n + 1] = ring[1]
      <4>1. CASE n = L
        <5>1. l = 1
          BY <1>2, <1>3, <2>2, <4>1
        <5> QED BY <1>5, <4>1, <5>1
      <4>2. CASE n # L
        <5>1. n + 1 \in (K + 1)..L /\ (n + 1) - K = 1
          BY <1>3, <2>2, <4>2
        <5> QED BY <1>5, <5>1
      <4> QED BY <4>1, <4>2
    <3> QED BY <1>6, <3>2, <3>3
  <2>3. CASE n > K
    <3>1. PICK j \in 1..(l - 1) : j = n - K
      <4>1. n - K \in 1..(l - 1)
        BY <1>2, <1>3, <2>3
      <4> QED BY <4>1
    <3>2. n \in (K + 1)..L /\ j \in 1..(L - 1)
      BY <1>2, <1>3, <2>3, <3>1
    <3>3. c[n] = ring[j]
      BY <1>5, <3>1, <3>2
    <3>4. c[n + 1] = ring[j + 1]
      <4>1. CASE n = L
        <5>1. j + 1 = l
          BY <1>2, <1>3, <3>1, <4>1
        <5> QED BY <1>5, <4>1, <5>1
      <4>2. CASE n # L
        <5>1. n + 1 \in (K + 1)..L /\ (n + 1) - K = j + 1
          BY <1>3, <3>1, <3>2, <4>2
        <5> QED BY <1>5, <5>1
      <4> QED BY <4>1, <4>2
    <3> QED BY <1>6, <3>2, <3>3, <3>4
  <2>4. n < K \/ n = K \/ n > K
    BY <1>3
  <2> QED BY <2>1, <2>2, <2>3, <2>4
<1>8. c[1] = ring[l]
  <2>1. 1 \in 1..K /\ l + 1 - 1 = l
    BY <1>2, <1>3
  <2> QED BY <1>5, <2>1
<1>9. ASSUME NEW n \in 1..(L + 1) PROVE \E k \in 1..L : c[n] = ring[k]
  <2>1. CASE n \in 1..K
    <3>1. l + n - 1 \in 1..L
      BY <1>2, <1>3, <2>1
    <3> QED BY <1>5, <2>1, <3>1
  <2>2. CASE n \in (K + 1)..L
    <3>1. n - K \in 1..L
      BY <1>3, <2>2
    <3> QED BY <1>5, <2>2, <3>1
  <2>3. CASE n = L + 1
    BY <1>2, <1>3, <1>5, <2>3
  <2>4. n \in 1..K \/ n \in (K + 1)..L \/ n = L + 1
    BY <1>3
  <2> QED BY <2>1, <2>2, <2>3, <2>4
<1>10. \A n \in 1..(L + 1) : Position(IdOrder, c[1]) <= Position(IdOrder, c[n])
  BY <1>2, <1>3, <1>8, <1>9
<1>11. Len(c) > 1 /\ Len(c) - 1 = L
  BY <1>3, <1>5
<1> QED BY <1>4, <1>5, <1>7, <1>8, <1>10, <1>11 DEF Closes

LEMMA RingOnCycle ==
    ASSUME NEW gate, NEW deps, NEW Codes, Walkable(gate, deps, Codes), NEW root, NEW ring, IsRing(ring, root, deps)
    PROVE  \E x \in {root} \cup Reached(deps[root], deps) : x \in DOMAIN deps /\ OnCycle(x, deps)
<1>1. /\ ring \in Seq(DOMAIN deps) /\ Len(ring) > 0 /\ ring[1] \in deps[ring[Len(ring)]]
      /\ \A n \in 1..(Len(ring) - 1) : ring[n + 1] \in deps[ring[n]]
      /\ Range(ring) \subseteq {root} \cup Reached(deps[root], deps)
  BY DEF IsRing
<1>2. PICK L \in Nat : L = Len(ring) /\ L > 0 /\ \A n \in 1..L : ring[n] \in DOMAIN deps /\ ring[n] \in Range(ring)
  BY <1>1, RangeFacts
<1>3. PICK x : x = ring[L]
  OBVIOUS
<1>4. x \in DOMAIN deps /\ x \in {root} \cup Reached(deps[root], deps)
  BY <1>1, <1>2, <1>3
<1>5. PICK T : T = Reached(deps[x], deps)
  OBVIOUS
<1>6. deps[x] \subseteq T /\ Closed(T, deps)
  BY <1>4, <1>5, ReachedNodes
<1> DEFINE Bad == {n \in 1..L : ring[n] \notin T}
<1>7. Bad = {}
  <2> SUFFICES ASSUME Bad # {} PROVE FALSE
    OBVIOUS
  <2>1. PICK n \in Bad : \A k \in Bad : n <= k
    <3>1. Bad \in SUBSET Nat
      OBVIOUS
    <3> HIDE DEF Bad
    <3> QED BY <3>1, LeastMember
  <2>2. n \in 1..L /\ ring[n] \notin T /\ n # 1
    BY <1>1, <1>2, <1>3, <1>6, <2>1
  <2>3. n - 1 \in 1..L /\ n - 1 \in 1..(Len(ring) - 1) /\ ~(n <= n - 1) /\ (n - 1) + 1 = n
    BY <1>2, <2>2
  <2>4. ring[n - 1] \in T
    BY <2>1, <2>3
  <2>5. ring[n] \in deps[ring[n - 1]]
    BY <1>1, <2>3
  <2> QED BY <1>2, <1>6, <2>2, <2>3, <2>4, <2>5 DEF Closed
<1>8. x \in T
  BY <1>2, <1>3, <1>7
<1> QED BY <1>4, <1>5, <1>8 DEF OnCycle

\* How a walk ends: it passes exactly when all it reaches passes and nothing
\* there is on a cycle.
Concludes(w, root, gate, deps) ==
    /\ Kept(w, gate, deps)
    /\ w.code = "PRESENT" <=> /\ \A x \in Reached(deps[root], deps) : gate[x] = "PRESENT"
                              /\ \A x \in Reached(deps[root], deps) \cup {root} : ~OnCycle(x, deps)
    /\ w.code = "PRESENT" => /\ TrailIds(w) = Reached(deps[root], deps)
                             /\ \A n \in 1..Len(w.trail) : w.trail[n].code = "PRESENT"
    /\ w.code = "CYCLE" => Closes(w.cycle, deps)

LEMMA StartReady ==
    ASSUME NEW gate, NEW deps, NEW Codes, Walkable(gate, deps, Codes), NEW root \in DOMAIN deps
    PROVE  /\ WalkStart \in WalkState(Codes) /\ <<root>> \in Seq(Ids) /\ deps[root] \in SUBSET DOMAIN deps
           /\ Ready(deps[root], <<root>>, WalkStart, root, gate, deps) /\ Range(<<root>>) = {root}
<1>1. WalkStart \in WalkState(Codes)
  BY EmptySeq DEF WalkStart, WalkState, Walkable
<1>2. <<root>> \in Seq(DOMAIN deps) /\ Len(<<root>>) = 1 /\ <<root>>[1] = root
  OBVIOUS
<1>3. <<root>> \in Seq(Ids) /\ deps[root] \in SUBSET DOMAIN deps
  BY DEF Walkable
<1>4. Range(<<root>>) = {root}
  <2>1. \A x : x \in Range(<<root>>) <=> \E n \in 1..1 : <<root>>[n] = x
    BY <1>2, RangeFacts
  <2> QED BY <1>2, <2>1
<1>5. Path(<<root>>, root, deps)
  BY <1>2, <1>4 DEF Path
<1>6. WalkStart.visited = {} /\ WalkStart.trail = <<>> /\ WalkStart.code = "PRESENT" /\ Len(<<>>) = 0
  BY EmptySeq DEF WalkStart
<1>7. Kept(WalkStart, gate, deps)
  BY <1>6 DEF Kept
<1>8. Sound(WalkStart, <<root>>, root, gate, deps)
  <2>1. TrailIds(WalkStart) = {}
    BY <1>6 DEF TrailIds
  <2> QED BY <1>4, <1>6, <2>1 DEF Sound
<1> QED BY <1>1, <1>2, <1>3, <1>4, <1>5, <1>6, <1>7, <1>8 DEF Ready

LEMMA WalkConcludes ==
    ASSUME NEW gate, NEW deps, NEW Codes, Walkable(gate, deps, Codes), NEW root \in DOMAIN deps
    PROVE  /\ Walk(root, deps[root], gate, deps, Codes) \in WalkState(Codes)
           /\ Concludes(Walk(root, deps[root], gate, deps, Codes), root, gate, deps)
<1>1. PICK visit : /\ Visits(visit, gate, deps, Codes)
                   /\ Walk(root, deps[root], gate, deps, Codes) = visit[At(deps[root], <<root>>, WalkStart)]
  BY WalkRuns
<1>2. PICK w : w = visit[At(deps[root], <<root>>, WalkStart)]
  OBVIOUS
<1>3. /\ WalkStart \in WalkState(Codes) /\ <<root>> \in Seq(Ids) /\ deps[root] \in SUBSET DOMAIN deps
      /\ Ready(deps[root], <<root>>, WalkStart, root, gate, deps) /\ Range(<<root>>) = {root}
  BY StartReady
<1>4. w \in WalkState(Codes)
  BY <1>1, <1>2, <1>3, WalkMoves
<1>5. Ends(w, deps[root], <<root>>, WalkStart, root, gate, deps)
  BY <1>1, <1>2, <1>3, WalkLeaves
<1>6. Leaves(w, deps[root], <<root>>, root, gate, deps)
  BY <1>5 DEF Ends
<1>7. PICK R : R = Reached(deps[root], deps)
  OBVIOUS
<1>8. ASSUME w.code = "PRESENT"
      PROVE  /\ TrailIds(w) = R /\ \A n \in 1..Len(w.trail) : w.trail[n].code = "PRESENT"
             /\ \A x \in R : gate[x] = "PRESENT"
             /\ \A x \in R \cup {root} : ~OnCycle(x, deps)
  <2>1. Sound(w, <<root>>, root, gate, deps) /\ deps[root] \subseteq w.visited
    BY <1>6, <1>8 DEF Leaves
  <2>2. w.visited = R
    <3>1. Closed(w.visited, deps)
      BY <2>1 DEF Sound, Closed
    <3>2. R \subseteq w.visited
      BY <1>7, <2>1, <3>1, ReachedNodes
    <3>3. w.visited \subseteq R
      BY <1>7, <2>1 DEF Sound
    <3> QED BY <3>2, <3>3
  <2>3. root \notin R
    BY <1>3, <2>1, <2>2 DEF Sound
  <2>4. ~OnCycle(root, deps)
    BY <1>7, <2>3 DEF OnCycle
  <2>5. \A x \in R : gate[x] = "PRESENT" /\ ~OnCycle(x, deps)
    BY <2>1, <2>2 DEF Sound
  <2>6. TrailIds(w) = R /\ \A n \in 1..Len(w.trail) : w.trail[n].code = "PRESENT"
    BY <1>3, <2>1, <2>2, <2>3 DEF Sound
  <2> QED BY <2>4, <2>5, <2>6
<1>9. ASSUME w.code # "PRESENT"
      PROVE  ~((\A x \in R : gate[x] = "PRESENT") /\ \A x \in R \cup {root} : ~OnCycle(x, deps))
  <2>1. Failed(w, root, gate, deps)
    BY <1>6, <1>9 DEF Leaves
  <2>2. CASE w.code = "CYCLE"
    <3>1. PICK ring : IsRing(ring, root, deps)
      BY <2>1, <2>2 DEF Failed
    <3> QED BY <1>7, <3>1, RingOnCycle
  <2>3. CASE w.code # "CYCLE"
    BY <1>7, <1>9, <2>1, <2>3 DEF Failed
  <2> QED BY <2>2, <2>3
<1>10. w.code = "CYCLE" => Closes(w.cycle, deps)
  <2> SUFFICES ASSUME w.code = "CYCLE" PROVE Closes(w.cycle, deps)
    OBVIOUS
  <2>1. Failed(w, root, gate, deps)
    BY <1>6 DEF Leaves
  <2>2. PICK ring : IsRing(ring, root, deps) /\ w.cycle = Witness(ring)
    BY <2>1 DEF Failed
  <2> QED BY <2>2, RingCloses
<1>11. Concludes(w, root, gate, deps)
  <2>1. Kept(w, gate, deps)
    BY <1>6 DEF Leaves
  <2> QED BY <1>7, <1>8, <1>9, <1>10, <2>1, Zenon DEF Concludes
<1> QED BY <1>1, <1>2, <1>4, <1>11

-----------------------------------------------------------------------------
(* Admission: what a receipt says of a candidate.                          *)

DeclaredBy(held) == [x \in Assumptions |->
    IF held[x] # <<>> /\ LegalAssumption(x, held[x]) THEN AssumptionAt(x, held[x]).declared.deps ELSE {}]

DependencyGates(held) == [x \in Assumptions |-> DependencyGate(held, x)]
UseGates(held, clock) == [x \in Assumptions |-> UseGate(held, x, clock)]
RetainedBy(held)      == [x \in Assumptions |-> DependenciesOf(held, x)]

\* A proposal that is held declares assumptions and evidence.
LEMMA HeldDeclares ==
    ASSUME NEW held, Registered(held), NEW x \in Assumptions, held[x] # <<>>, LegalAssumption(x, held[x])
    PROVE  /\ Declares(AssumptionAt(x, held[x]).declared)
           /\ AssumptionAt(x, held[x]).declared = held[x][1].arg
<1>1. PICK h : h = held[x]
  OBVIOUS
<1>2. History(h) /\ h # <<>> /\ \A e \in Range(h) : e.op = "PROPOSE" => Declares(e.arg)
  BY <1>1, AssumptionsAssumption DEF Registered
<1>3. PICK s : s \in AssumptionStates(x, h)
  BY <1>1 DEF LegalAssumption
<1>4. AssumptionAt(x, h) = s /\ s.declared = h[1].arg /\ h[1].op = "PROPOSE" /\ h[1] \in Range(h)
  BY <1>2, <1>3, AssumptionAtEnd
<1> QED BY <1>1, <1>2, <1>4

LEMMA DependenciesWalkable ==
    ASSUME NEW held, Registered(held), NEW clock
    PROVE  /\ RetainedBy(held) = DeclaredBy(held) /\ DOMAIN DeclaredBy(held) = Assumptions
           /\ \A x \in Assumptions : DependenciesOf(held, x) = DeclaredBy(held)[x]
           /\ Walkable(DependencyGates(held), DeclaredBy(held), DependencyCodes)
           /\ Walkable(UseGates(held, clock), DeclaredBy(held), UseCodes)
<1>1. \A x \in Assumptions : DependenciesOf(held, x) =
         IF held[x] # <<>> /\ LegalAssumption(x, held[x]) THEN AssumptionAt(x, held[x]).declared.deps ELSE {}
  BY DEF DependenciesOf, DependencyGate
<1>2. RetainedBy(held) = DeclaredBy(held)
  BY <1>1 DEF RetainedBy, DeclaredBy
<1>3. DOMAIN DeclaredBy(held) = Assumptions
  BY DEF DeclaredBy
<1>4. \A x \in Assumptions : DeclaredBy(held)[x] \subseteq Assumptions
  <2> SUFFICES ASSUME NEW x \in Assumptions PROVE DeclaredBy(held)[x] \subseteq Assumptions
    OBVIOUS
  <2>1. CASE held[x] # <<>> /\ LegalAssumption(x, held[x])
    <3>1. Declares(AssumptionAt(x, held[x]).declared)
      BY <2>1, HeldDeclares
    <3> QED BY <2>1, <3>1 DEF DeclaredBy, Declares
  <2>2. CASE ~(held[x] # <<>> /\ LegalAssumption(x, held[x]))
    BY <2>2 DEF DeclaredBy
  <2> QED BY <2>1, <2>2
<1>5. \A x \in Assumptions : DependencyGates(held)[x] \in DependencyCodes
  BY DEF DependencyGates, DependencyGate, DependencyCodes
<1>6. \A x \in Assumptions : UseGates(held, clock)[x] \in UseCodes
  <2> SUFFICES ASSUME NEW x \in Assumptions PROVE UseGate(held, x, clock) \in UseCodes
    BY DEF UseGates
  <2> QED BY Zenon DEF UseGate, UseCodes
<1>7. Walkable(DependencyGates(held), DeclaredBy(held), DependencyCodes)
  <2>1. "PRESENT" \in DependencyCodes /\ "CYCLE" \notin DependencyCodes
    BY DEF DependencyCodes
  <2> QED BY <1>3, <1>4, <1>5, <2>1, AssumptionsAssumption DEF Walkable
<1>8. Walkable(UseGates(held, clock), DeclaredBy(held), UseCodes)
  <2>1. "PRESENT" \in UseCodes /\ "CYCLE" \notin UseCodes
    BY DEF UseCodes
  <2> QED BY <1>3, <1>4, <1>6, <2>1, AssumptionsAssumption DEF Walkable
<1>9. \A x \in Assumptions : DependenciesOf(held, x) = DeclaredBy(held)[x]
  BY <1>2 DEF RetainedBy
<1> QED BY <1>2, <1>3, <1>7, <1>8, <1>9

\* The evidence decisions are those of the first units, up to the first refusal.
Decides(d, held, ids, clock) ==
    /\ d \in Seq(Range(d)) /\ Len(d) \in Nat /\ Len(d) <= Cardinality(ids)
    /\ \A n \in 1..Len(d) :
          /\ d[n].id = Ordered(ids)[n] /\ Ordered(ids)[n] \in ids
          /\ d[n].code = EligibilityCode(Ordered(ids)[n], held[Ordered(ids)[n]], clock)
          /\ n < Len(d) => d[n].code = "ELIGIBLE"
    /\ \/ Len(d) = Cardinality(ids) /\ \A n \in 1..Len(d) : d[n].code = "ELIGIBLE"
       \/ Len(d) > 0 /\ d[Len(d)].code # "ELIGIBLE"

LEMMA DecidedFacts ==
    ASSUME NEW held, NEW ids \in SUBSET Ids, NEW clock
    PROVE  Decides(Decided(held, ids, clock), held, ids, clock)
<1>0. PICK d, all : d = Decided(held, ids, clock) /\ all = Ordered(ids)
  OBVIOUS
<1> DEFINE code(e) == EligibilityCode(e, held[e], clock)
<1>1. PICK N : /\ N = Len(all) /\ N = Cardinality(ids) /\ N \in Nat
               /\ all \in [1..N -> ids]
  BY <1>0, OrderedLists
<1> DEFINE refused == {n \in 1..N : code(all[n]) # "ELIGIBLE"}
           last == IF refused = {} THEN N ELSE CHOOSE n \in refused : \A m \in refused : n <= m
<1>2. d = [n \in 1..last |-> [id |-> all[n], code |-> code(all[n])]]
  BY <1>0, <1>1 DEF Decided
<1>3. refused \in SUBSET Nat /\ refused \subseteq 1..N
  BY <1>1
<1>4. refused # {} => last \in refused /\ \A m \in refused : last <= m
  <2> HIDE DEF refused
  <2> QED BY <1>3, LeastMember
<1>5. last \in 0..N /\ last \in Nat
  BY <1>1, <1>3, <1>4
<1>6. \A n \in 1..N : n \notin refused => code(all[n]) = "ELIGIBLE"
  BY <1>1
<1>7. \A n \in refused : n \in 1..N /\ code(all[n]) # "ELIGIBLE"
  BY <1>1
<1>8. refused = {} => last = N
  OBVIOUS
<1> HIDE DEF refused, last, code
<1>9. d \in Seq(Range(d)) /\ Len(d) = last
  <2>1. d \in [1..last -> Range(d)]
    BY <1>2 DEF Range
  <2> QED BY <1>5, <2>1, FunctionSeq
<1>10. \A n \in 1..last : d[n].id = all[n] /\ d[n].code = code(all[n]) /\ n \in 1..N /\ all[n] \in ids
  BY <1>1, <1>2, <1>5
<1>11. \A n \in 1..last : n < last => d[n].code = "ELIGIBLE"
  <2> SUFFICES ASSUME NEW n \in 1..last, n < last PROVE code(all[n]) = "ELIGIBLE"
    BY <1>10
  <2>1. n \in 1..N /\ ~(last <= n)
    <3>1. n \in Nat /\ n >= 1 /\ n < last /\ last <= N
      BY <1>1, <1>5
    <3> QED BY <1>1, <1>5, <3>1
  <2>2. n \notin refused
    BY <1>4, <2>1
  <2> QED BY <1>6, <2>1, <2>2
<1>12. \/ last = N /\ \A n \in 1..last : d[n].code = "ELIGIBLE"
       \/ last > 0 /\ d[last].code # "ELIGIBLE"
  <2>1. CASE refused = {}
    BY <1>6, <1>8, <1>10, <2>1
  <2>2. CASE refused # {}
    <3>1. last \in 1..N /\ code(all[last]) # "ELIGIBLE"
      BY <1>4, <1>7, <2>2
    <3>2. last \in 1..last /\ last > 0
      BY <1>5, <3>1
    <3> QED BY <1>10, <3>1, <3>2
  <2> QED BY <2>1, <2>2
<1>13. Decides(d, held, ids, clock)
  BY <1>0, <1>1, <1>5, <1>9, <1>10, <1>11, <1>12 DEF Decides, code
<1> QED BY <1>0, <1>13

\* What a receipt promises of the registries it was made on.
ReceiptTells(r, held, id, clock) ==
    /\ r.passed <=>
          /\ \A x \in Reached(DeclaredBy(held)[id], DeclaredBy(held)) : held[x] # <<>> /\ LegalAssumption(x, held[x])
          /\ \A x \in Reached(DeclaredBy(held)[id], DeclaredBy(held)) \cup {id} : ~OnCycle(x, DeclaredBy(held))
          /\ \A e \in AssumptionAt(id, held[id]).declared.evidence : EligibilityCode(e, held[e], clock) = "ELIGIBLE"
    /\ r.code = "CYCLE" => Closes(r.cycle, DeclaredBy(held))

LEMMA CodesOfEvidence ==
    ASSUME NEW id, NEW h, NEW clock
    PROVE  EligibilityCode(id, h, clock) \notin {"CYCLE", "MISSING", "HISTORY_INVALID", "PRESENT", "PASS"}
BY DEF EligibilityCode

\* The parts of a receipt.
LEMMA ReceiptParts ==
    ASSUME NEW held, Registered(held), NEW id \in Assumptions, NEW clock, Proposed(held, id, clock),
           NEW declared, declared = AssumptionAt(id, held[id]).declared
    PROVE  \E w, d : /\ Receipt(held, id, declared, clock) = WalkReceipt(id, declared, clock, w, d)
                     /\ w = Walk(id, DeclaredBy(held)[id], DependencyGates(held), DeclaredBy(held), DependencyCodes)
                     /\ d = IF w.code = "PRESENT" THEN Decided(held, declared.evidence, clock) ELSE <<>>
                     /\ declared.deps = DeclaredBy(held)[id] /\ Declares(declared)
<1>1. held[id] # <<>> /\ LegalAssumption(id, held[id])
  BY LenOne DEF Proposed
<1>2. Declares(declared) /\ declared.deps = DeclaredBy(held)[id]
  BY <1>1, HeldDeclares DEF DeclaredBy
<1>3. PICK w : w = Walk(id, declared.deps, DependencyGates(held), RetainedBy(held), DependencyCodes)
  OBVIOUS
<1>4. Receipt(held, id, declared, clock) =
         WalkReceipt(id, declared, clock, w, IF w.code = "PRESENT" THEN Decided(held, declared.evidence, clock) ELSE <<>>)
  BY <1>3, Zenon DEF Receipt, DependencyGates, RetainedBy
<1>5. w = Walk(id, DeclaredBy(held)[id], DependencyGates(held), DeclaredBy(held), DependencyCodes)
  BY <1>2, <1>3, DependenciesWalkable
<1> QED BY <1>2, <1>4, <1>5

LEMMA ReceiptConcludes ==
    ASSUME NEW held, Registered(held), NEW id \in Assumptions, NEW clock, Proposed(held, id, clock),
           NEW r, r = Receipt(held, id, AssumptionAt(id, held[id]).declared, clock)
    PROVE  ReceiptTells(r, held, id, clock)
<1>1. PICK declared, gate, deps : /\ declared = AssumptionAt(id, held[id]).declared
                                  /\ gate = DependencyGates(held) /\ deps = DeclaredBy(held)
  OBVIOUS
<1>2. PICK w, d : /\ r = WalkReceipt(id, declared, clock, w, d)
                  /\ w = Walk(id, deps[id], gate, deps, DependencyCodes)
                  /\ d = IF w.code = "PRESENT" THEN Decided(held, declared.evidence, clock) ELSE <<>>
                  /\ Declares(declared)
  BY <1>1, ReceiptParts
<1>3. Walkable(gate, deps, DependencyCodes) /\ id \in DOMAIN deps /\ DOMAIN deps = Assumptions
  BY <1>1, DependenciesWalkable
<1>4. Concludes(w, id, gate, deps)
  BY <1>2, <1>3, WalkConcludes
<1>5. /\ r.code = ReceiptCode(w, d) /\ r.cycle = w.cycle
      /\ r.passed = (w.code = "PRESENT" /\ \A n \in 1..Len(d) : d[n].code = "ELIGIBLE")
  BY <1>2 DEF WalkReceipt
<1>6. Reached(deps[id], deps) \subseteq Assumptions
  BY <1>3, ReachedNodes
<1>7. \A x \in Assumptions : gate[x] = "PRESENT" <=> held[x] # <<>> /\ LegalAssumption(x, held[x])
  BY <1>1 DEF DependencyGates, DependencyGate
<1>8. w.code = "PRESENT" <=>
         /\ \A x \in Reached(deps[id], deps) : held[x] # <<>> /\ LegalAssumption(x, held[x])
         /\ \A x \in Reached(deps[id], deps) \cup {id} : ~OnCycle(x, deps)
  BY <1>4, <1>6, <1>7 DEF Concludes
<1>9. ASSUME w.code = "PRESENT"
      PROVE  /\ (\A n \in 1..Len(d) : d[n].code = "ELIGIBLE")
                    <=> \A e \in declared.evidence : EligibilityCode(e, held[e], clock) = "ELIGIBLE"
             /\ r.code # "CYCLE"
  <2>1. declared.evidence \in SUBSET Ids /\ d = Decided(held, declared.evidence, clock)
    BY <1>2, <1>9 DEF Declares, EvidenceIds
  <2>2. PICK all : all = Ordered(declared.evidence)
    OBVIOUS
  <2>3. /\ d \in Seq(Range(d)) /\ Len(d) \in Nat
        /\ \A n \in 1..Len(d) : /\ all[n] \in declared.evidence
                                /\ d[n].code = EligibilityCode(all[n], held[all[n]], clock)
    <3>1. Decides(d, held, declared.evidence, clock)
      BY <2>1, DecidedFacts
    <3> QED BY <2>2, <3>1 DEF Decides
  <2>4. (\A n \in 1..Len(d) : d[n].code = "ELIGIBLE")
            => \A e \in declared.evidence : EligibilityCode(e, held[e], clock) = "ELIGIBLE"
    BY <2>1, DecidedAll
  <2>5. r.code # "CYCLE"
    <3>1. CASE d # <<>>
      <4>1. Len(d) > 0
        BY <2>3, <3>1, SeqFacts
      <4>2. Len(d) \in 1..Len(d)
        BY <2>3, <4>1
      <4>3. d[Len(d)].code # "CYCLE"
        BY <2>3, <4>2, CodesOfEvidence
      <4> QED BY <1>5, <1>9, <4>3 DEF ReceiptCode
    <3>2. CASE d = <<>>
      BY <1>5, <1>9, <3>2 DEF ReceiptCode
    <3> QED BY <3>1, <3>2
  <2> QED BY <2>3, <2>4, <2>5
<1>10. ASSUME w.code # "PRESENT" PROVE r.code = w.code
  BY <1>5, <1>10 DEF ReceiptCode
<1>11. r.code = "CYCLE" => Closes(r.cycle, deps)
  BY <1>4, <1>5, <1>9, <1>10 DEF Concludes
<1>12. r.passed <=> /\ w.code = "PRESENT"
                    /\ \A e \in declared.evidence : EligibilityCode(e, held[e], clock) = "ELIGIBLE"
  BY <1>5, <1>9
<1> QED BY <1>1, <1>8, <1>11, <1>12 DEF ReceiptTells

\* A candidate passes exactly when all it depends on was proposed and is legal,
\* nothing it reaches lies on a cycle and all its evidence is eligible, and a cycle
\* that its receipt reports is one.
THEOREM ReceiptsSound == Spec => []ReceiptSound
<1> DEFINE Rule == Asked("admission") => ReceiptTells(answer.receipt, hs, answer.id, answer.clock)
<1>1. Init => Rule
  BY DEF Init, Asked
<1>2. Held /\ Rule /\ [Next]_vars => Rule'
  <2> SUFFICES ASSUME Held, Rule, [Next]_vars PROVE Rule'
    OBVIOUS
  <2>1. CASE UNCHANGED vars
    BY <2>1 DEF vars, Asked
  <2>2. ASSUME NEW id \in Assumptions, NEW clock, Validate(id, clock), Next PROVE Rule'
    <3>1. hs' = hs
      BY <2>2 DEF Validate
    <3>2. PICK r : /\ r = Receipt(hs, id, AssumptionAt(id, hs[id]).declared, clock)
                   /\ answer' = [to |-> "admission", id |-> id, clock |-> clock, receipt |-> r]
      BY <2>2 DEF Validate
    <3>3. Registered(hs) /\ Proposed(hs, id, clock)
      BY <2>2, HeldRegistered DEF Validate
    <3>4. ReceiptTells(r, hs, id, clock)
      BY <3>2, <3>3, ReceiptConcludes
    <3>5. answer'.receipt = r /\ answer'.id = id /\ answer'.clock = clock
      BY <3>2
    <3> QED BY <3>1, <3>4, <3>5
  <2>3. CASE Next /\ answer'.to # "admission"
    BY <2>3 DEF Asked
  <2> QED BY <2>1, <2>2, <2>3, OneQuestion
<1>3. Rule => ReceiptSound
  <2>1. Declared = DeclaredBy(hs)
    BY DEF Declared, DeclaredBy
  <2> SUFFICES ASSUME Rule, Asked("admission") PROVE ReceiptSound
    BY DEF ReceiptSound
  <2>2. ReceiptTells(answer.receipt, hs, answer.id, answer.clock)
    OBVIOUS
  <2> QED BY <2>1, <2>2, Zenon DEF ReceiptSound, ReceiptTells, Closure, Acyclic, RealCycle, Closes
<1> HIDE DEF Rule
<1> QED BY <1>1, <1>2, <1>3, HeldAlways, PTL DEF Spec

-----------------------------------------------------------------------------
(* Use: what an evaluation says of an assumption.                          *)

InForceBy(held, x, clock) ==
    /\ held[x] # <<>> /\ LegalAssumption(x, held[x])
    /\ LET a == AssumptionAt(x, held[x])
       IN  /\ Status(a) \in ActiveStandings
           /\ a.declared.validFrom <= clock
           /\ a.declared.expires # None => clock < a.declared.expires
           /\ \A e \in a.declared.evidence :
                  Admissible([v \in EvidenceIds |-> held[v]], UseRequest(held, x, e, clock))

EvidenceOf(held, x) == AssumptionAt(x, held[x]).declared.evidence
Allowed(held, x, e, clock) == Admissible([v \in EvidenceIds |-> held[v]], UseRequest(held, x, e, clock))

LEMMA GateInForce ==
    ASSUME NEW held, Registered(held), NEW x \in Assumptions, NEW clock \in Int
    PROVE  InForceBy(held, x, clock) <=> /\ UseGate(held, x, clock) = "PRESENT"
                                         /\ \A e \in EvidenceOf(held, x) : Allowed(held, x, e, clock)
<1>1. CASE held[x] # <<>> /\ LegalAssumption(x, held[x])
  <2>1. PICK a : a = AssumptionAt(x, held[x])
    OBVIOUS
  <2>2. Declares(a.declared)
    BY <1>1, <2>1, HeldDeclares
  <2>3. a.declared.validFrom \in Int /\ (a.declared.expires # None => a.declared.expires \in Int)
    BY <2>2 DEF Declares, Dated
  <2>4. UseGate(held, x, clock) = "PRESENT" <=>
           /\ a.standing \notin TerminalStandings /\ a.standing \in ActiveStandings /\ a.challenges = {}
           /\ ~(clock < a.declared.validFrom)
           /\ ~(a.declared.expires # None /\ (a.declared.expires # None => clock >= a.declared.expires))
    BY <1>1, <2>1 DEF UseGate
  <2>5. Status(a) \in ActiveStandings <=> a.standing \notin TerminalStandings /\ a.standing \in ActiveStandings /\ a.challenges = {}
    BY DEF Status, ActiveStandings, TerminalStandings
  <2>6. a.declared.validFrom <= clock <=> ~(clock < a.declared.validFrom)
    BY <2>3
  <2>7. (a.declared.expires # None => clock < a.declared.expires) <=>
           ~(a.declared.expires # None /\ (a.declared.expires # None => clock >= a.declared.expires))
    BY <2>3
  <2>8. InForceBy(held, x, clock) <=>
           /\ Status(a) \in ActiveStandings /\ a.declared.validFrom <= clock
           /\ (a.declared.expires # None => clock < a.declared.expires)
           /\ \A e \in EvidenceOf(held, x) : Allowed(held, x, e, clock)
    BY <1>1, <2>1, Zenon DEF InForceBy, EvidenceOf, Allowed
  <2> QED BY <2>4, <2>5, <2>6, <2>7, <2>8
<1>2. CASE ~(held[x] # <<>> /\ LegalAssumption(x, held[x]))
  BY <1>2 DEF InForceBy, UseGate
<1> QED BY <1>1, <1>2

-----------------------------------------------------------------------------
(* The evidence that nodes declare.                                        *)

NamedBy(held, nodes) ==
    UNION {{[place |-> n, owner |-> nodes[n], id |-> e] : e \in EvidenceOf(held, nodes[n])} : n \in DOMAIN nodes}

Nodelike(held, nodes, L) == DOMAIN nodes = 0..L /\ \A n \in 0..L : EvidenceOf(held, nodes[n]) \subseteq Ids

Naming(named, held, nodes, L) ==
    /\ IsFiniteSet(named)
    /\ \A p \in named : /\ p.place \in 0..L /\ p.owner = nodes[p.place] /\ p.id \in Ids
                        /\ p.id \in EvidenceOf(held, p.owner)
    /\ \A n \in 0..L : \A e \in EvidenceOf(held, nodes[n]) :
          \E p \in named : p.place = n /\ p.owner = nodes[n] /\ p.id = e
    /\ \A p, q \in named : p.place = q.place /\ p.id = q.id => p = q

LEMMA NamedFacts ==
    ASSUME NEW held, NEW L \in Nat, NEW nodes, Nodelike(held, nodes, L)
    PROVE  Naming(NamedBy(held, nodes), held, nodes, L)
<1>0. DOMAIN nodes = 0..L /\ \A n \in 0..L : EvidenceOf(held, nodes[n]) \subseteq Ids
  BY DEF Nodelike
<1>1. PICK named : named = NamedBy(held, nodes)
  OBVIOUS
<1>2. \A p : p \in named <=> \E n \in 0..L : \E e \in EvidenceOf(held, nodes[n]) :
                                p = [place |-> n, owner |-> nodes[n], id |-> e]
  BY <1>0, <1>1 DEF NamedBy
<1>3. \A p \in named : /\ p.place \in 0..L /\ p.owner = nodes[p.place] /\ p.id \in Ids
                       /\ p.id \in EvidenceOf(held, p.owner)
                       /\ p = [place |-> p.place, owner |-> nodes[p.place], id |-> p.id]
  BY <1>0, <1>2
<1>4. \A n \in 0..L : \A e \in EvidenceOf(held, nodes[n]) :
         \E p \in named : p.place = n /\ p.owner = nodes[n] /\ p.id = e
  <2> SUFFICES ASSUME NEW n \in 0..L, NEW e \in EvidenceOf(held, nodes[n])
               PROVE  \E p \in named : p.place = n /\ p.owner = nodes[n] /\ p.id = e
    OBVIOUS
  <2>1. PICK p : p = [place |-> n, owner |-> nodes[n], id |-> e]
    OBVIOUS
  <2>2. p \in named /\ p.place = n /\ p.owner = nodes[n] /\ p.id = e
    BY <1>2, <2>1
  <2> QED BY <2>2
<1>5. \A p, q \in named : p.place = q.place /\ p.id = q.id => p = q
  BY <1>3
<1>6. IsFiniteSet(named)
  <2> DEFINE key == [p \in named |-> <<p.place, p.id>>]
  <2>1. key \in [named -> (0..L) \X Ids]
    BY <1>3
  <2>2. \A p, q \in named : key[p] = key[q] => p = q
    BY <1>5
  <2>3. IsFiniteSet((0..L) \X Ids)
    <3>1. IsFiniteSet(0..L)
      BY FS_Interval
    <3> QED BY <3>1, IdsFinite, FS_Product
  <2> HIDE DEF key
  <2>4. key \in Injection(named, (0..L) \X Ids)
    BY <2>1, <2>2 DEF Injection, IsInjective
  <2> QED BY <2>3, <2>4, FS_Injection
<1> QED BY <1>1, <1>3, <1>4, <1>5, <1>6 DEF Naming

LEMMA NamedOrders ==
    ASSUME NEW named, \A p \in named : p.place \in Nat /\ p.id \in Ids,
           \A p, q \in named : p.place = q.place /\ p.id = q.id => p = q,
           NEW R, R = {p \in named \X named :
                            \/ p[1].place < p[2].place
                            \/ p[1].place = p[2].place /\ <<p[1].id, p[2].id>> \in EarlierId}
    PROVE  Orders(R, named)
<1> DEFINE at(p) == Position(IdOrder, p.id)
           place(p) == p.place
<1>1. \A p \in named : at(p) \in Nat /\ IdOrder[at(p)] = p.id
  <2>1. IdOrder \in Seq(Range(IdOrder)) /\ Len(IdOrder) \in Nat
    BY IdOrderAssumption, SeqFacts
  <2> QED BY <2>1, PositionFacts DEF Ids
<1>2. \A p, q \in named : <<p.id, q.id>> \in EarlierId <=> at(p) < at(q)
  BY DEF EarlierId
<1>3. \A p, q \in named : <<p, q>> \in R <=> place(p) < place(q) \/ (place(p) = place(q) /\ at(p) < at(q))
  BY <1>2
<1>4. \A p, q \in named : place(p) = place(q) /\ at(p) = at(q) => p = q
  BY <1>1
<1>5. \A p \in named : place(p) \in Nat /\ at(p) \in Nat
  BY <1>1
<1> HIDE DEF at, place
<1> QED BY <1>3, <1>4, <1>5 DEF Orders

\* The pairs name each unit of each node, once.
Names(pairs, held, nodes, L) ==
    /\ pairs \in Seq(Range(pairs)) /\ Len(pairs) \in Nat
    /\ \A n \in 1..Len(pairs) : \E k \in 0..L : /\ pairs[n].owner = nodes[k]
                                                /\ pairs[n].id \in EvidenceOf(held, nodes[k])
    /\ \A k \in 0..L : \A e \in EvidenceOf(held, nodes[k]) :
          \E n \in 1..Len(pairs) : pairs[n].owner = nodes[k] /\ pairs[n].id = e

LEMMA PairsName ==
    ASSUME NEW held, NEW L \in Nat, NEW nodes, Nodelike(held, nodes, L)
    PROVE  Names(EvidencePairs(held, nodes), held, nodes, L)
<1>1. PICK named : named = NamedBy(held, nodes)
  OBVIOUS
<1>2. PICK R : R = {p \in named \X named :
                        \/ p[1].place < p[2].place
                        \/ p[1].place = p[2].place /\ <<p[1].id, p[2].id>> \in EarlierId}
  OBVIOUS
<1>3. PICK pairs : pairs = EvidencePairs(held, nodes)
  OBVIOUS
<1>4. pairs = InOrder(named, R)
  BY <1>1, <1>2, <1>3, Zenon DEF EvidencePairs, NamedBy, EvidenceOf
<1>5. /\ IsFiniteSet(named)
      /\ \A p \in named : /\ p.place \in 0..L /\ p.owner = nodes[p.place] /\ p.id \in Ids
                          /\ p.id \in EvidenceOf(held, p.owner)
      /\ \A n \in 0..L : \A e \in EvidenceOf(held, nodes[n]) :
            \E p \in named : p.place = n /\ p.owner = nodes[n] /\ p.id = e
      /\ \A p, q \in named : p.place = q.place /\ p.id = q.id => p = q
  <2>1. Naming(named, held, nodes, L)
    BY <1>1, NamedFacts
  <2> QED BY <2>1 DEF Naming
<1>6. Orders(R, named)
  BY <1>2, <1>5, NamedOrders
<1>7. PICK N \in Nat : /\ N = Cardinality(named) /\ pairs \in [1..N -> named] /\ pairs \in Seq(Range(pairs))
                       /\ Len(pairs) = N /\ \A x \in named : \E n \in 1..N : pairs[n] = x
  BY <1>4, <1>5, <1>6, InOrderLists
<1>10. \A n \in 1..N : pairs[n] \in named
  BY <1>7
<1>8. \A n \in 1..N : \E k \in 0..L : pairs[n].owner = nodes[k] /\ pairs[n].id \in EvidenceOf(held, nodes[k])
  BY <1>5, <1>10
<1>9. \A k \in 0..L : \A e \in EvidenceOf(held, nodes[k]) :
         \E n \in 1..N : pairs[n].owner = nodes[k] /\ pairs[n].id = e
  <2> SUFFICES ASSUME NEW k \in 0..L, NEW e \in EvidenceOf(held, nodes[k])
               PROVE  \E n \in 1..N : pairs[n].owner = nodes[k] /\ pairs[n].id = e
    OBVIOUS
  <2>1. PICK p \in named : p.owner = nodes[k] /\ p.id = e
    BY <1>5
  <2> QED BY <1>7, <2>1
<1>11. Names(pairs, held, nodes, L)
  <2>1. pairs \in Seq(Range(pairs)) /\ Len(pairs) = N
    BY <1>7
  <2> QED BY <1>8, <1>9, <2>1 DEF Names
<1> QED BY <1>3, <1>11

\* The evaluations are those of the first pairs, up to the first refusal.
Evaluates(evals, pairs, held, clock) ==
    /\ evals \in Seq(Range(evals)) /\ Len(evals) \in Nat /\ Len(evals) <= Len(pairs)
    /\ \A n \in 1..Len(evals) :
          /\ evals[n].owner = pairs[n].owner /\ evals[n].id = pairs[n].id
          /\ evals[n].allowed <=> Allowed(held, pairs[n].owner, pairs[n].id, clock)
          /\ n < Len(evals) => evals[n].allowed
    /\ \/ Len(evals) = Len(pairs) /\ \A n \in 1..Len(evals) : evals[n].allowed
       \/ Len(evals) > 0 /\ ~evals[Len(evals)].allowed

LEMMA EvaluatedFacts ==
    ASSUME NEW held, NEW pairs, Len(pairs) \in Nat, NEW clock
    PROVE  Evaluates(EvidenceEvaluated(held, pairs, clock), pairs, held, clock)
<1> DEFINE ok(n) == Allowed(held, pairs[n].owner, pairs[n].id, clock)
<1>1. PICK N, evals : N \in Nat /\ N = Len(pairs) /\ evals = EvidenceEvaluated(held, pairs, clock)
  OBVIOUS
<1> DEFINE refused == {n \in 1..N : ~ok(n)}
           last == IF refused = {} THEN N ELSE CHOOSE n \in refused : \A m \in refused : n <= m
<1>2. evals = [n \in 1..last |-> [owner |-> pairs[n].owner, id |-> pairs[n].id, allowed |-> n \notin refused]]
  BY <1>1 DEF EvidenceEvaluated, Allowed
<1>3. refused \in SUBSET Nat /\ refused \subseteq 1..N
  BY <1>1
<1>4. refused # {} => last \in refused /\ \A m \in refused : last <= m
  <2> HIDE DEF refused
  <2> QED BY <1>3, LeastMember
<1>5. last \in 0..N /\ last \in Nat
  BY <1>1, <1>3, <1>4
<1>6. \A n \in 1..N : n \notin refused <=> ok(n)
  BY <1>1
<1>7. refused = {} => last = N
  OBVIOUS
<1> HIDE DEF refused, last, ok
<1>8. evals \in Seq(Range(evals)) /\ Len(evals) = last
  <2>1. evals \in [1..last -> Range(evals)]
    BY <1>2 DEF Range
  <2> QED BY <1>5, <2>1, FunctionSeq
<1>9. \A n \in 1..last : n \in 1..N
  BY <1>1, <1>5
<1>10. \A n \in 1..last : /\ evals[n].owner = pairs[n].owner /\ evals[n].id = pairs[n].id
                          /\ evals[n].allowed = (n \notin refused)
  BY <1>2
<1>11. \A n \in 1..last : evals[n].allowed <=> ok(n)
  BY <1>6, <1>9, <1>10
<1>12. \A n \in 1..last : n < last => n \notin refused
  <2> SUFFICES ASSUME NEW n \in 1..last, n < last, n \in refused PROVE FALSE
    OBVIOUS
  <2> QED BY <1>4, <1>5
<1>13. \A n \in 1..last : n < last => evals[n].allowed
  BY <1>10, <1>12
<1>14. \/ last = N /\ \A n \in 1..last : evals[n].allowed
       \/ last > 0 /\ ~evals[last].allowed
  <2>1. CASE refused = {}
    BY <1>7, <1>10, <2>1
  <2>2. CASE refused # {}
    <3>1. last \in refused /\ last \in 1..N
      BY <1>3, <1>4, <2>2
    <3>2. last \in 1..last /\ last > 0
      BY <1>5, <3>1
    <3> QED BY <1>10, <3>1, <3>2
  <2> QED BY <2>1, <2>2
<1>15. \A n \in 1..last : evals[n].allowed <=> Allowed(held, pairs[n].owner, pairs[n].id, clock)
  BY <1>11 DEF ok
<1>16. Evaluates(evals, pairs, held, clock)
  BY <1>1, <1>5, <1>8, <1>10, <1>13, <1>14, <1>15 DEF Evaluates
<1> QED BY <1>1, <1>16

\* The nodes of a walk that passed: the assumption and all it reaches.
Lists(nodes, L, S) == DOMAIN nodes = 0..L /\ \A x : (\E n \in 0..L : nodes[n] = x) <=> x \in S

LEMMA NodesFacts ==
    ASSUME NEW id, NEW trail, NEW L \in Nat
    PROVE  Lists(NodesAt(id, trail, 1..L), L, {id} \cup {trail[n].id : n \in 1..L})
<1>1. PICK nodes, S : nodes = NodesAt(id, trail, 1..L) /\ S = {id} \cup {trail[n].id : n \in 1..L}
  OBVIOUS
<1>2. {0} \cup 1..L = 0..L
  OBVIOUS
<1>3. nodes = [n \in 0..L |-> IF n = 0 THEN id ELSE trail[n].id]
  BY <1>1, <1>2 DEF NodesAt
<1>4. DOMAIN nodes = 0..L /\ nodes[0] = id /\ \A n \in 1..L : nodes[n] = trail[n].id
  BY <1>3
<1>5. 0 \in 0..L /\ \A n : n \in 0..L <=> n = 0 \/ n \in 1..L
  OBVIOUS
<1>6. \A x : (\E n \in 0..L : nodes[n] = x) <=> x \in S
  BY <1>1, <1>4, <1>5
<1> QED BY <1>1, <1>4, <1>6 DEF Lists

\* The pairs are those of the evidence of some assumptions.
CoversAll(pairs, held, S) ==
    /\ Len(pairs) \in Nat
    /\ \A x \in S : \A e \in EvidenceOf(held, x) : \E n \in 1..Len(pairs) : pairs[n].owner = x /\ pairs[n].id = e
    /\ \A n \in 1..Len(pairs) : pairs[n].owner \in S /\ pairs[n].id \in EvidenceOf(held, pairs[n].owner)

\* What an evaluation promises of the registries it was made on.
EvaluationTells(ev, held, id, clock) ==
    /\ ev.id = id
    /\ ev.code = "ALLOWED" <=>
          /\ \A x \in Reached(DeclaredBy(held)[id], DeclaredBy(held)) \cup {id} : InForceBy(held, x, clock)
          /\ \A x \in Reached(DeclaredBy(held)[id], DeclaredBy(held)) \cup {id} : ~OnCycle(x, DeclaredBy(held))
    /\ ev.code = "CYCLE" => Closes(ev.cycle, DeclaredBy(held))

\* The parts of an evaluation.
LEMMA EvaluationParts ==
    ASSUME NEW held, Registered(held), NEW id \in Assumptions, NEW clock
    PROVE  \E w : /\ w = Walk(id, DeclaredBy(held)[id], UseGates(held, clock), DeclaredBy(held), UseCodes)
                  /\ UseGate(held, id, clock) # "PRESENT" =>
                        Evaluation(held, id, clock) = GateEvaluation(held, id, UseGate(held, id, clock))
                  /\ UseGate(held, id, clock) = "PRESENT" =>
                        Evaluation(held, id, clock) = WalkEvaluation(held, id, w,
                            IF w.code = "PRESENT"
                            THEN EvidenceEvaluated(held, EvidencePairs(held, NodesAt(id, w.trail, 1..Len(w.trail))), clock)
                            ELSE <<>>)
<1>1. PICK w : w = Walk(id, Retained(held, id), [x \in Assumptions |-> UseGate(held, x, clock)],
                        [x \in Assumptions |-> Retained(held, x)], UseCodes)
  OBVIOUS
<1>2. [x \in Assumptions |-> Retained(held, x)] = DeclaredBy(held) /\ Retained(held, id) = DeclaredBy(held)[id]
  BY DependenciesWalkable DEF RetainedBy, Retained
<1>3. w = Walk(id, DeclaredBy(held)[id], UseGates(held, clock), DeclaredBy(held), UseCodes)
  BY <1>1, <1>2 DEF UseGates
<1>4. /\ UseGate(held, id, clock) # "PRESENT" =>
            Evaluation(held, id, clock) = GateEvaluation(held, id, UseGate(held, id, clock))
      /\ UseGate(held, id, clock) = "PRESENT" =>
            Evaluation(held, id, clock) = WalkEvaluation(held, id, w,
                IF w.code = "PRESENT"
                THEN EvidenceEvaluated(held, EvidencePairs(held, NodesAt(id, w.trail, 1..Len(w.trail))), clock)
                ELSE <<>>)
  BY <1>1, Zenon DEF Evaluation
<1> QED BY <1>3, <1>4

\* The evidence of a walk that passed.
LEMMA WalkedEvidence ==
    ASSUME NEW held, Registered(held), NEW id \in Assumptions, NEW clock, UseGate(held, id, clock) = "PRESENT",
           NEW w \in WalkState(UseCodes), w.code = "PRESENT",
           Concludes(w, id, UseGates(held, clock), DeclaredBy(held)),
           NEW nodes, nodes = NodesAt(id, w.trail, 1..Len(w.trail)),
           NEW pairs, pairs = EvidencePairs(held, nodes)
    PROVE  CoversAll(pairs, held, Reached(DeclaredBy(held)[id], DeclaredBy(held)) \cup {id})
<1>1. PICK gate, deps, R : gate = UseGates(held, clock) /\ deps = DeclaredBy(held) /\ R = Reached(deps[id], deps)
  OBVIOUS
<1>2. Walkable(gate, deps, UseCodes) /\ id \in DOMAIN deps /\ DOMAIN deps = Assumptions
  BY <1>1, DependenciesWalkable
<1>3. R \subseteq Assumptions
  BY <1>1, <1>2, ReachedNodes
<1>4. TrailIds(w) = R /\ \A x \in R : gate[x] = "PRESENT"
  BY <1>1 DEF Concludes
<1>5. \A x \in R \cup {id} : x \in Assumptions /\ UseGate(held, x, clock) = "PRESENT"
  BY <1>1, <1>3, <1>4 DEF UseGates
<1>6. \A x \in R \cup {id} : EvidenceOf(held, x) \subseteq Ids
  <2> SUFFICES ASSUME NEW x \in R \cup {id} PROVE EvidenceOf(held, x) \subseteq Ids
    OBVIOUS
  <2>1. x \in Assumptions /\ held[x] # <<>> /\ LegalAssumption(x, held[x])
    BY <1>5, Zenon DEF UseGate
  <2>2. Declares(AssumptionAt(x, held[x]).declared)
    BY <2>1, HeldDeclares
  <2> QED BY <2>2 DEF Declares, EvidenceIds, EvidenceOf
<1>7. PICK L, trail : L = Len(trail) /\ trail = w.trail
  OBVIOUS
<1>8. trail \in Seq(Record(UseCodes))
  BY <1>7 DEF WalkState
<1>9. L \in Nat
  BY <1>7, <1>8, LenProperties
<1>10. TrailIds(w) = {trail[n].id : n \in 1..L}
  BY <1>7 DEF TrailIds
<1>11. DOMAIN nodes = 0..L /\ \A x : (\E n \in 0..L : nodes[n] = x) <=> x \in R \cup {id}
  <2>1. Lists(nodes, L, {id} \cup {trail[n].id : n \in 1..L})
    BY <1>7, <1>9, NodesFacts
  <2> QED BY <1>4, <1>10, <2>1 DEF Lists
<1>12. \A n \in 0..L : nodes[n] \in R \cup {id}
  BY <1>11
<1>13. Nodelike(held, nodes, L)
  BY <1>6, <1>11, <1>12 DEF Nodelike
<1>14. Names(pairs, held, nodes, L)
  BY <1>9, <1>13, PairsName
<1>15. ASSUME NEW x \in R \cup {id}, NEW e \in EvidenceOf(held, x)
       PROVE  \E n \in 1..Len(pairs) : pairs[n].owner = x /\ pairs[n].id = e
  <2>1. PICK k \in 0..L : nodes[k] = x
    BY <1>11
  <2> QED BY <1>14, <2>1 DEF Names
<1>16. ASSUME NEW n \in 1..Len(pairs)
       PROVE  pairs[n].owner \in R \cup {id} /\ pairs[n].id \in EvidenceOf(held, pairs[n].owner)
  <2>1. PICK k \in 0..L : pairs[n].owner = nodes[k] /\ pairs[n].id \in EvidenceOf(held, nodes[k])
    BY <1>14 DEF Names
  <2> QED BY <1>12, <2>1
<1>17. Len(pairs) \in Nat
  BY <1>14 DEF Names
<1> QED BY <1>1, <1>15, <1>16, <1>17 DEF CoversAll

LEMMA EvaluationConcludes ==
    ASSUME NEW held, Registered(held), NEW id \in Assumptions, NEW clock \in Int,
           NEW ev, ev = Evaluation(held, id, clock)
    PROVE  EvaluationTells(ev, held, id, clock)
<1>1. PICK gate, deps, R, self : /\ gate = UseGates(held, clock) /\ deps = DeclaredBy(held)
                                 /\ R = Reached(deps[id], deps) /\ self = UseGate(held, id, clock)
  OBVIOUS
<1>2. PICK w : /\ w = Walk(id, deps[id], gate, deps, UseCodes)
               /\ self # "PRESENT" => ev = GateEvaluation(held, id, self)
               /\ self = "PRESENT" => ev = WalkEvaluation(held, id, w,
                     IF w.code = "PRESENT"
                     THEN EvidenceEvaluated(held, EvidencePairs(held, NodesAt(id, w.trail, 1..Len(w.trail))), clock)
                     ELSE <<>>)
  BY <1>1, EvaluationParts
<1>3. Walkable(gate, deps, UseCodes) /\ id \in DOMAIN deps /\ DOMAIN deps = Assumptions
  BY <1>1, DependenciesWalkable
<1>4. w \in WalkState(UseCodes) /\ Concludes(w, id, gate, deps)
  BY <1>2, <1>3, WalkConcludes
<1>5. R \subseteq Assumptions /\ w.code \in UseCodes \cup {"CYCLE"} /\ self \in UseCodes
  <2>1. R \subseteq Assumptions
    BY <1>1, <1>3, ReachedNodes
  <2>2. gate[id] = self /\ gate[id] \in UseCodes
    BY <1>1, <1>3 DEF UseGates, Walkable
  <2> QED BY <1>4, <2>1, <2>2 DEF WalkState
<1>6. "ALLOWED" \notin UseCodes /\ "CYCLE" \notin UseCodes /\ "EVIDENCE_DENIED" \notin UseCodes
  BY DEF UseCodes
<1>7. \A x \in R \cup {id} : InForceBy(held, x, clock) <=> /\ gate[x] = "PRESENT"
                                                           /\ \A e \in EvidenceOf(held, x) : Allowed(held, x, e, clock)
  <2> SUFFICES ASSUME NEW x \in R \cup {id}
               PROVE  InForceBy(held, x, clock) <=> /\ gate[x] = "PRESENT"
                                                    /\ \A e \in EvidenceOf(held, x) : Allowed(held, x, e, clock)
    OBVIOUS
  <2>1. x \in Assumptions /\ gate[x] = UseGate(held, x, clock)
    BY <1>1, <1>5 DEF UseGates
  <2> QED BY <2>1, GateInForce
<1>8. gate[id] = self
  BY <1>1 DEF UseGates
<1>9. CASE self # "PRESENT"
  <2>1. ev.id = id /\ ev.code = self
    BY <1>2, <1>9 DEF GateEvaluation
  <2>2. ev.code # "ALLOWED" /\ ev.code # "CYCLE"
    BY <1>5, <1>6, <2>1
  <2>3. ~InForceBy(held, id, clock)
    BY <1>7, <1>8, <1>9
  <2> QED BY <1>1, <2>1, <2>2, <2>3 DEF EvaluationTells
<1>10. CASE self = "PRESENT" /\ w.code # "PRESENT"
  <2>1. ev.id = id /\ ev.code = w.code /\ ev.cycle = w.cycle
    BY <1>2, <1>10 DEF WalkEvaluation
  <2>2. ev.code # "ALLOWED"
    BY <1>5, <1>6, <2>1
  <2>3. ~((\A x \in R : gate[x] = "PRESENT") /\ (\A x \in R \cup {id} : ~OnCycle(x, deps)))
    BY <1>1, <1>4, <1>10 DEF Concludes
  <2>4. ~((\A x \in R \cup {id} : InForceBy(held, x, clock)) /\ (\A x \in R \cup {id} : ~OnCycle(x, deps)))
    BY <1>7, <2>3
  <2>5. ev.code = "CYCLE" => Closes(ev.cycle, deps)
    BY <1>4, <2>1 DEF Concludes
  <2> QED BY <1>1, <2>1, <2>2, <2>4, <2>5 DEF EvaluationTells
<1>11. CASE self = "PRESENT" /\ w.code = "PRESENT"
  <2>1. PICK nodes, pairs, evals : /\ nodes = NodesAt(id, w.trail, 1..Len(w.trail)) /\ pairs = EvidencePairs(held, nodes)
                                   /\ evals = EvidenceEvaluated(held, pairs, clock)
    OBVIOUS
  <2>2. ev = WalkEvaluation(held, id, w, evals)
    BY <1>2, <1>11, <2>1
  <2>3. /\ ev.id = id
        /\ ev.code = IF \E n \in 1..Len(evals) : ~evals[n].allowed THEN "EVIDENCE_DENIED" ELSE "ALLOWED"
    BY <1>11, <2>2 DEF WalkEvaluation
  <2>4. /\ Len(pairs) \in Nat
        /\ \A x \in R \cup {id} :
              \A e \in EvidenceOf(held, x) : \E n \in 1..Len(pairs) : pairs[n].owner = x /\ pairs[n].id = e
        /\ \A n \in 1..Len(pairs) : pairs[n].owner \in R \cup {id} /\ pairs[n].id \in EvidenceOf(held, pairs[n].owner)
    <3>1. CoversAll(pairs, held, R \cup {id})
      BY <1>1, <1>4, <1>11, <2>1, WalkedEvidence
    <3> QED BY <3>1 DEF CoversAll
  <2>5. Evaluates(evals, pairs, held, clock)
    BY <2>1, <2>4, EvaluatedFacts
  <2>6. (\A n \in 1..Len(evals) : evals[n].allowed)
            <=> \A x \in R \cup {id} : \A e \in EvidenceOf(held, x) : Allowed(held, x, e, clock)
    <3>1. ASSUME \A n \in 1..Len(evals) : evals[n].allowed, NEW x \in R \cup {id}, NEW e \in EvidenceOf(held, x)
          PROVE  Allowed(held, x, e, clock)
      <4>1. PICK n \in 1..Len(pairs) : pairs[n].owner = x /\ pairs[n].id = e
        BY <2>4
      <4>2. Len(evals) = Len(pairs)
        <5>1. Len(evals) > 0 => Len(evals) \in 1..Len(evals)
          BY <2>5 DEF Evaluates
        <5> QED BY <2>5, <3>1, <5>1 DEF Evaluates
      <4>3. n \in 1..Len(evals) /\ evals[n].allowed
        BY <3>1, <4>2
      <4>4. Allowed(held, pairs[n].owner, pairs[n].id, clock)
        BY <2>5, <4>3 DEF Evaluates
      <4> QED BY <4>1, <4>4
    <3>2. ASSUME \A x \in R \cup {id} : \A e \in EvidenceOf(held, x) : Allowed(held, x, e, clock),
                 NEW n \in 1..Len(evals)
          PROVE  evals[n].allowed
      <4>1. n \in 1..Len(pairs)
        BY <2>4, <2>5 DEF Evaluates
      <4>2. Allowed(held, pairs[n].owner, pairs[n].id, clock)
        BY <2>4, <3>2, <4>1
      <4> QED BY <2>5, <4>2 DEF Evaluates
    <3> QED BY <3>1, <3>2
  <2>7. (\A x \in R : gate[x] = "PRESENT") /\ (\A x \in R \cup {id} : ~OnCycle(x, deps))
    BY <1>1, <1>4, <1>11 DEF Concludes
  <2>8. (\A x \in R \cup {id} : InForceBy(held, x, clock))
           <=> \A x \in R \cup {id} : \A e \in EvidenceOf(held, x) : Allowed(held, x, e, clock)
    BY <1>7, <1>8, <1>11, <2>7
  <2>9. ev.code = "ALLOWED" <=> \A n \in 1..Len(evals) : evals[n].allowed
    BY <2>3
  <2>10. ev.code # "CYCLE"
    BY <2>3
  <2> QED BY <1>1, <2>3, <2>6, <2>7, <2>8, <2>9, <2>10 DEF EvaluationTells
<1> QED BY <1>9, <1>10, <1>11

\* What a decision promises: an evaluation of each assumption it requires.
DecisionTells(d, held, clock) ==
    /\ \A ev \in d.evaluations : ev.id \in d.binding.required /\ EvaluationTells(ev, held, ev.id, clock)
    /\ \A id \in d.binding.required : \E ev \in d.evaluations : ev.id = id
    /\ d.admissible <=> \A ev \in d.evaluations : ev.code = "ALLOWED"

\* The parts of a decision.
LEMMA DecisionParts ==
    ASSUME NEW held, NEW binding, NEW d \in UseDecision(held, binding)
    PROVE  \E evs : /\ evs = {Evaluation(held, id, binding.clock) : id \in binding.required}
                    /\ d = [binding |-> binding, evaluations |-> evs, work |-> Work(held, evs),
                            admissible |-> \A ev \in evs : ev.code = "ALLOWED"]
<1>1. PICK evs : evs = {Evaluation(held, id, binding.clock) : id \in binding.required}
  OBVIOUS
<1>2. d = [binding |-> binding, evaluations |-> evs, work |-> Work(held, evs),
           admissible |-> \A ev \in evs : ev.code = "ALLOWED"]
  BY <1>1 DEF UseDecision, When
<1> QED BY <1>1, <1>2

LEMMA DecisionConcludes ==
    ASSUME NEW held, Registered(held), NEW binding, binding.required \subseteq Assumptions, NEW clock \in Int,
           clock = binding.clock, NEW d \in UseDecision(held, binding)
    PROVE  DecisionTells(d, held, clock)
<1>1. PICK evs : /\ evs = {Evaluation(held, id, binding.clock) : id \in binding.required}
                 /\ d = [binding |-> binding, evaluations |-> evs, work |-> Work(held, evs),
                         admissible |-> \A ev \in evs : ev.code = "ALLOWED"]
  BY DecisionParts
<1>2. /\ d.evaluations = evs /\ d.binding = binding
      /\ d.admissible <=> \A ev \in evs : ev.code = "ALLOWED"
  BY <1>1
<1>3. \A id \in binding.required : EvaluationTells(Evaluation(held, id, clock), held, id, clock)
  BY EvaluationConcludes
<1>4. \A id \in binding.required : Evaluation(held, id, clock).id = id
  BY <1>3 DEF EvaluationTells
<1>5. \A ev \in evs : ev.id \in binding.required /\ EvaluationTells(ev, held, ev.id, clock)
  <2> SUFFICES ASSUME NEW ev \in evs PROVE ev.id \in binding.required /\ EvaluationTells(ev, held, ev.id, clock)
    OBVIOUS
  <2>1. PICK id \in binding.required : ev = Evaluation(held, id, clock)
    BY <1>1
  <2> QED BY <1>3, <1>4, <2>1
<1>6. \A id \in binding.required : \E ev \in evs : ev.id = id
  BY <1>1, <1>4
<1> QED BY <1>2, <1>5, <1>6 DEF DecisionTells

\* An assumption is allowed exactly when it and all it depends on are in force,
\* nothing there is on a cycle and all evidence may be used; a decision is admissible
\* when all it requires are, and a cycle it reports is one.
THEOREM UsesSound == Spec => []UseSound
<1> DEFINE Rule == Asked("use") => DecisionTells(answer.decision, hs, answer.clock)
<1>1. Init => Rule
  BY DEF Init, Asked
<1>2. Held /\ Rule /\ [Next]_vars => Rule'
  <2> SUFFICES ASSUME Held, Rule, [Next]_vars PROVE Rule'
    OBVIOUS
  <2>1. CASE UNCHANGED vars
    BY <2>1 DEF vars, Asked
  <2>2. ASSUME NEW required \in Required, NEW clock \in Clocks, EvaluateUse(required, clock), Next PROVE Rule'
    <3>1. hs' = hs
      BY <2>2 DEF EvaluateUse
    <3>2. PICK binding : binding = [required |-> required, clock |-> clock,
                                    assumptions |-> AssumptionRoot(hs), evidence |-> EvidenceRoot(hs)]
      OBVIOUS
    <3>3. PICK d : /\ d \in UseDecision(hs, binding)
                   /\ answer' = [to |-> "use", clock |-> clock, decision |-> d]
      BY <2>2, <3>2, Zenon DEF EvaluateUse
    <3>4. clock \in Int /\ binding.required \subseteq Assumptions /\ binding.clock = clock
      BY <3>2, RequestsAssumption
    <3>5. DecisionTells(d, hs, clock)
      BY <3>3, <3>4, HeldRegistered, DecisionConcludes
    <3>6. answer'.decision = d /\ answer'.clock = clock
      BY <3>3
    <3> QED BY <3>1, <3>5, <3>6
  <2>3. CASE Next /\ answer'.to # "use"
    BY <2>3 DEF Asked
  <2> QED BY <2>1, <2>2, <2>3, OneQuestion
<1>3. Rule => UseSound
  <2> SUFFICES ASSUME Rule, Asked("use") PROVE UseSound
    BY DEF UseSound
  <2>1. PICK d, clock, required : d = answer.decision /\ clock = answer.clock /\ required = d.binding.required
    OBVIOUS
  <2>2. DecisionTells(d, hs, clock) /\ Declared = DeclaredBy(hs)
    BY <2>1 DEF Declared, DeclaredBy
  <2> DEFINE usable(id) == (\A x \in Closure(id) \cup {id} : InForceAt(x, clock)) /\ Acyclic(id)
  <2>3. \A x : InForceAt(x, clock) <=> InForceBy(hs, x, clock)
    BY Zenon DEF InForceAt, InForceBy
  <2>4. \A ev : EvaluationTells(ev, hs, ev.id, clock) =>
           /\ ev.code = "ALLOWED" <=> usable(ev.id)
           /\ ev.code = "CYCLE" => RealCycle(ev.cycle)
    BY <2>2, <2>3, Zenon DEF EvaluationTells, Closure, Acyclic, RealCycle, Closes
  <2> HIDE DEF usable
  <2>5. /\ \A ev \in d.evaluations : /\ ev.id \in required /\ (ev.code = "ALLOWED" <=> usable(ev.id))
                                     /\ ev.code = "CYCLE" => RealCycle(ev.cycle)
        /\ \A id \in required : \E ev \in d.evaluations : ev.id = id
        /\ d.admissible <=> \A ev \in d.evaluations : ev.code = "ALLOWED"
    BY <2>1, <2>2, <2>4 DEF DecisionTells
  <2>6. {ev.id : ev \in {ev \in d.evaluations : ev.code = "ALLOWED"}} = {id \in required : usable(id)}
    BY <2>5
  <2>7. d.admissible <=> {id \in required : usable(id)} = required
    BY <2>5
  <2> QED BY <2>1, <2>5, <2>6, <2>7, Zenon DEF UseSound, usable
<1> HIDE DEF Rule
<1> QED BY <1>1, <1>2, <1>3, HeldAlways, PTL DEF Spec

-----------------------------------------------------------------------------
(* The replay of a walk's records.                                         *)

Counted(r)                == [r EXCEPT !.edges = @ + 1]
Ringed(stack, node, r)    == [Counted(r) EXCEPT !.code = "CYCLE", !.cycle = Witness(RingAt(stack, node))]
ReadOn(trail, node, r)    == [Counted(r) EXCEPT !.next = @ + 1, !.fits = (trail[r.next + 1].id = node),
                                               !.code = trail[r.next + 1].code]
Missed(r)                 == [r EXCEPT !.fits = FALSE]

\* The state in which a replay goes on to the other children.
ReplayMet(f, trail, stack, r, node) ==
    IF node \in Range(stack) THEN Ringed(stack, node, r)
    ELSE IF node \in r.visited THEN Counted(r)
    ELSE IF r.next >= Len(trail) THEN Missed(r)
    ELSE IF trail[r.next + 1].code # "PRESENT" THEN ReadOn(trail, node, r)
    ELSE Finish(f[At(trail[r.next + 1].deps, Append(stack, node), ReadOn(trail, node, r))], node)

LEMMA ReplayStops ==
    ASSUME NEW f, NEW trail, NEW kids, NEW stack, NEW r, kids = {} \/ ~r.fits \/ r.code # "PRESENT"
    PROVE  ReplayStep(f, trail, At(kids, stack, r)) = r
BY DEF ReplayStep, At

LEMMA ReplayGoes ==
    ASSUME NEW f, NEW trail, NEW kids, NEW stack, NEW r, NEW node, node = Least(kids),
           kids # {}, r.fits, r.code = "PRESENT"
    PROVE  ReplayStep(f, trail, At(kids, stack, r)) = f[At(kids \ {node}, stack, ReplayMet(f, trail, stack, r, node))]
<1>1. PICK p : p = At(kids, stack, r)
  OBVIOUS
<1>2. p.kids = kids /\ p.stack = stack /\ p.state = r
  BY <1>1 DEF At
<1>3. PICK w, read, met : w = Counted(r) /\ read = ReadOn(trail, node, r) /\ met = ReplayMet(f, trail, stack, r, node)
  OBVIOUS
<1>4. met = IF node \in Range(stack) THEN Ringed(stack, node, r)
            ELSE IF node \in r.visited THEN w
            ELSE IF r.next >= Len(trail) THEN [r EXCEPT !.fits = FALSE]
            ELSE IF trail[r.next + 1].code # "PRESENT" THEN read
            ELSE Finish(f[At(trail[r.next + 1].deps, Append(stack, node), read)], node)
  BY <1>3 DEF ReplayMet, Missed
<1>5. ReplayStep(f, trail, p) =
         IF kids = {} \/ ~r.fits \/ r.code # "PRESENT" THEN r ELSE f[At(kids \ {node}, stack, met)]
  BY <1>2, <1>3, <1>4 DEF ReplayStep, ReadOn, Ringed, Counted
<1> QED BY <1>1, <1>3, <1>5

\* The fields of the state after one step.
LEMMA ReplayFields ==
    ASSUME NEW Codes, NEW r \in ReplayState(Codes)
    PROVE  /\ r = [visited |-> r.visited, next |-> r.next, edges |-> r.edges, code |-> r.code,
                   cycle |-> r.cycle, fits |-> r.fits]
           /\ r.visited \in SUBSET Ids /\ r.next \in Nat /\ r.edges \in Nat /\ r.code \in Codes \cup {"CYCLE"}
           /\ r.cycle \in Seq(Ids) /\ r.fits \in BOOLEAN
BY DEF ReplayState

LEMMA ReplayIs ==
    ASSUME NEW Codes, NEW r \in ReplayState(Codes)
    PROVE  /\ Counted(r) = [visited |-> r.visited, next |-> r.next, edges |-> r.edges + 1, code |-> r.code,
                            cycle |-> r.cycle, fits |-> r.fits]
           /\ Missed(r) = [visited |-> r.visited, next |-> r.next, edges |-> r.edges, code |-> r.code,
                           cycle |-> r.cycle, fits |-> FALSE]
           /\ \A node : Finish(r, node) =
                 [visited |-> IF r.code = "PRESENT" THEN r.visited \cup {node} ELSE r.visited,
                  next |-> r.next, edges |-> r.edges, code |-> r.code, cycle |-> r.cycle, fits |-> r.fits]
<1>1. PICK vi, ne, ed, co, cy, fi :
         vi = r.visited /\ ne = r.next /\ ed = r.edges /\ co = r.code /\ cy = r.cycle /\ fi = r.fits
  OBVIOUS
<1>2. r = [visited |-> vi, next |-> ne, edges |-> ed, code |-> co, cycle |-> cy, fits |-> fi]
  BY <1>1, ReplayFields
<1>3. Counted(r) = [visited |-> vi, next |-> ne, edges |-> ed + 1, code |-> co, cycle |-> cy, fits |-> fi]
  BY <1>2 DEF Counted
<1>4. Missed(r) = [visited |-> vi, next |-> ne, edges |-> ed, code |-> co, cycle |-> cy, fits |-> FALSE]
  <2>1. PICK no : no = FALSE
    OBVIOUS
  <2>2. Missed(r) = [r EXCEPT !.fits = no]
    BY <2>1 DEF Missed
  <2>3. Missed(r) = [visited |-> vi, next |-> ne, edges |-> ed, code |-> co, cycle |-> cy, fits |-> no]
    BY <1>2, <2>2
  <2> QED BY <2>1, <2>3
<1>5. \A node : Finish(r, node) =
         [visited |-> IF co = "PRESENT" THEN vi \cup {node} ELSE vi,
          next |-> ne, edges |-> ed, code |-> co, cycle |-> cy, fits |-> fi]
  BY <1>2 DEF Finish
<1> QED BY <1>1, <1>3, <1>4, <1>5

LEMMA RingedIs ==
    ASSUME NEW Codes, NEW r \in ReplayState(Codes), NEW stack, NEW node
    PROVE  Ringed(stack, node, r) =
              [visited |-> r.visited, next |-> r.next, edges |-> r.edges + 1, code |-> "CYCLE",
               cycle |-> Witness(RingAt(stack, node)), fits |-> r.fits]
<1>1. PICK w, y : w = Counted(r) /\ y = Witness(RingAt(stack, node))
  OBVIOUS
<1>2. w = [visited |-> r.visited, next |-> r.next, edges |-> r.edges + 1, code |-> r.code,
           cycle |-> r.cycle, fits |-> r.fits]
  BY <1>1, ReplayIs
<1>3. Ringed(stack, node, r) = [w EXCEPT !.code = "CYCLE", !.cycle = y]
  BY <1>1 DEF Ringed
<1>4. PICK vi, ne, ed, co, cy, fi :
         vi = r.visited /\ ne = r.next /\ ed = r.edges + 1 /\ co = r.code /\ cy = r.cycle /\ fi = r.fits
  OBVIOUS
<1>5. w = [visited |-> vi, next |-> ne, edges |-> ed, code |-> co, cycle |-> cy, fits |-> fi]
  BY <1>2, <1>4
<1>6. Ringed(stack, node, r) = [visited |-> vi, next |-> ne, edges |-> ed, code |-> "CYCLE", cycle |-> y, fits |-> fi]
  BY <1>3, <1>5
<1> QED BY <1>1, <1>4, <1>6

LEMMA ReadIs ==
    ASSUME NEW Codes, NEW r \in ReplayState(Codes), NEW trail, NEW node, NEW rec, rec = trail[r.next + 1]
    PROVE  ReadOn(trail, node, r) =
              [visited |-> r.visited, next |-> r.next + 1, edges |-> r.edges + 1, code |-> rec.code,
               cycle |-> r.cycle, fits |-> (rec.id = node)]
<1>1. PICK w, c, i : w = Counted(r) /\ c = rec.code /\ i = rec.id
  OBVIOUS
<1>2. w = [visited |-> r.visited, next |-> r.next, edges |-> r.edges + 1, code |-> r.code,
           cycle |-> r.cycle, fits |-> r.fits]
  BY <1>1, ReplayIs
<1>3. ReadOn(trail, node, r) = [w EXCEPT !.next = @ + 1, !.fits = (i = node), !.code = c]
  BY <1>1 DEF ReadOn
<1>4. PICK vi, ne, ed, co, cy, fi :
         vi = r.visited /\ ne = r.next /\ ed = r.edges + 1 /\ co = r.code /\ cy = r.cycle /\ fi = r.fits
  OBVIOUS
<1>5. w = [visited |-> vi, next |-> ne, edges |-> ed, code |-> co, cycle |-> cy, fits |-> fi]
  BY <1>2, <1>4
<1>6. ReadOn(trail, node, r) = [visited |-> vi, next |-> ne + 1, edges |-> ed, code |-> c, cycle |-> cy, fits |-> (i = node)]
  BY <1>3, <1>5, Zenon
<1> QED BY <1>1, <1>4, <1>6

LEMMA ReplayTyped ==
    ASSUME NEW Codes, NEW r \in ReplayState(Codes), NEW trail \in Seq(Record(Codes)), NEW node \in Ids
    PROVE  /\ Counted(r) \in ReplayState(Codes) /\ Missed(r) \in ReplayState(Codes)
           /\ Finish(r, node) \in ReplayState(Codes)
           /\ \A stack \in Seq(Ids) : node \in Range(stack) => Ringed(stack, node, r) \in ReplayState(Codes)
           /\ ~(r.next >= Len(trail)) => /\ ReadOn(trail, node, r) \in ReplayState(Codes)
                                         /\ trail[r.next + 1] \in Record(Codes)
<1>1. /\ r.visited \in SUBSET Ids /\ r.next \in Nat /\ r.edges \in Nat /\ r.code \in Codes \cup {"CYCLE"}
      /\ r.cycle \in Seq(Ids) /\ r.fits \in BOOLEAN
  BY ReplayFields
<1>2. r.next + 1 \in Nat /\ r.edges + 1 \in Nat /\ r.visited \cup {node} \in SUBSET Ids
  BY <1>1
<1>3. Counted(r) \in ReplayState(Codes) /\ Missed(r) \in ReplayState(Codes) /\ Finish(r, node) \in ReplayState(Codes)
  <2>1. Counted(r) \in ReplayState(Codes)
    <3>1. Counted(r) = [visited |-> r.visited, next |-> r.next, edges |-> r.edges + 1, code |-> r.code,
                        cycle |-> r.cycle, fits |-> r.fits]
      BY ReplayIs
    <3> QED BY <1>1, <1>2, <3>1 DEF ReplayState
  <2>2. Missed(r) \in ReplayState(Codes)
    <3>1. PICK no \in BOOLEAN : no = FALSE
      OBVIOUS
    <3>2. Missed(r) = [visited |-> r.visited, next |-> r.next, edges |-> r.edges, code |-> r.code,
                       cycle |-> r.cycle, fits |-> FALSE]
      BY ReplayIs
    <3>3. Missed(r) = [visited |-> r.visited, next |-> r.next, edges |-> r.edges, code |-> r.code,
                       cycle |-> r.cycle, fits |-> no]
      BY <3>1, <3>2
    <3> QED BY <1>1, <3>3 DEF ReplayState
  <2>3. Finish(r, node) \in ReplayState(Codes)
    <3>1. PICK vi \in SUBSET Ids : vi = IF r.code = "PRESENT" THEN r.visited \cup {node} ELSE r.visited
      <4>1. (IF r.code = "PRESENT" THEN r.visited \cup {node} ELSE r.visited) \in SUBSET Ids
        BY <1>1, <1>2
      <4> QED BY <4>1
    <3>2. \A x : Finish(r, x) =
             [visited |-> IF r.code = "PRESENT" THEN r.visited \cup {x} ELSE r.visited,
              next |-> r.next, edges |-> r.edges, code |-> r.code, cycle |-> r.cycle, fits |-> r.fits]
      BY ReplayIs
    <3>3. Finish(r, node) = [visited |-> vi, next |-> r.next, edges |-> r.edges, code |-> r.code,
                             cycle |-> r.cycle, fits |-> r.fits]
      BY <3>1, <3>2
    <3> QED BY <1>1, <3>3 DEF ReplayState
  <2> QED BY <2>1, <2>2, <2>3
<1>4. ASSUME NEW stack \in Seq(Ids), node \in Range(stack) PROVE Ringed(stack, node, r) \in ReplayState(Codes)
  <2>1. PICK ring \in Seq(Ids) : ring = Witness(RingAt(stack, node))
    BY <1>4, WitnessTyped
  <2>2. Ringed(stack, node, r) =
           [visited |-> r.visited, next |-> r.next, edges |-> r.edges + 1, code |-> "CYCLE",
            cycle |-> ring, fits |-> r.fits]
    BY <2>1, RingedIs
  <2> QED BY <1>1, <1>2, <2>2 DEF ReplayState
<1>5. ASSUME ~(r.next >= Len(trail))
      PROVE  ReadOn(trail, node, r) \in ReplayState(Codes) /\ trail[r.next + 1] \in Record(Codes)
  <2>1. PICK rec : rec = trail[r.next + 1]
    OBVIOUS
  <2>2. rec \in Record(Codes)
    <3>1. Len(trail) \in Nat /\ r.next + 1 \in 1..Len(trail)
      BY <1>1, <1>5, LenProperties
    <3> QED BY <2>1, <3>1, ElementOfSeq
  <2>3. rec.code \in Codes /\ (rec.id = node) \in BOOLEAN
    BY <2>2 DEF Record
  <2>4. ReadOn(trail, node, r) =
           [visited |-> r.visited, next |-> r.next + 1, edges |-> r.edges + 1, code |-> rec.code,
            cycle |-> r.cycle, fits |-> (rec.id = node)]
    BY <2>1, ReadIs
  <2>5. PICK fit \in BOOLEAN : fit = (rec.id = node)
    BY <2>3
  <2>6. ReadOn(trail, node, r) =
           [visited |-> r.visited, next |-> r.next + 1, edges |-> r.edges + 1, code |-> rec.code,
            cycle |-> r.cycle, fits |-> fit]
    BY <2>4, <2>5, Zenon
  <2>7. ReadOn(trail, node, r) \in ReplayState(Codes)
    BY <1>1, <1>2, <2>3, <2>6 DEF ReplayState
  <2> QED BY <2>1, <2>2, <2>7
<1> QED BY <1>3, <1>4, <1>5

LEMMA ReplayMetSame ==
    ASSUME NEW Codes, NEW trail \in Seq(Record(Codes)),
           NEW kids \in SUBSET Ids, NEW stack \in Seq(Ids), NEW r \in ReplayState(Codes),
           NEW node \in kids, NEW p, p = At(kids, stack, r), NEW a, NEW b,
           SameBelow(a, b, p, Points(Ids, ReplayState(Codes)), ReplayState(Codes))
    PROVE  /\ ReplayMet(a, trail, stack, r, node) = ReplayMet(b, trail, stack, r, node)
           /\ ReplayMet(b, trail, stack, r, node) \in ReplayState(Codes)
<1>1. node \in Ids
  OBVIOUS
<1>2. CASE node \in Range(stack)
  <2>1. Ringed(stack, node, r) \in ReplayState(Codes)
    BY <1>1, <1>2, ReplayTyped
  <2> QED BY <1>2, <2>1 DEF ReplayMet
<1>3. CASE node \notin Range(stack) /\ node \in r.visited
  <2>1. Counted(r) \in ReplayState(Codes)
    BY <1>1, ReplayTyped
  <2> QED BY <1>3, <2>1 DEF ReplayMet
<1>4. CASE node \notin Range(stack) /\ node \notin r.visited /\ r.next >= Len(trail)
  <2>1. Missed(r) \in ReplayState(Codes)
    BY <1>1, ReplayTyped
  <2> QED BY <1>4, <2>1 DEF ReplayMet
<1>5. CASE node \notin Range(stack) /\ node \notin r.visited /\ ~(r.next >= Len(trail))
  <2>1. PICK s, rec : s = ReadOn(trail, node, r) /\ rec = trail[r.next + 1]
    OBVIOUS
  <2>2. s \in ReplayState(Codes) /\ rec \in Record(Codes)
    BY <1>1, <1>5, <2>1, ReplayTyped
  <2>3. CASE rec.code # "PRESENT"
    BY <1>5, <2>1, <2>2, <2>3 DEF ReplayMet
  <2>4. CASE rec.code = "PRESENT"
    <3>1. PICK q : q = At(rec.deps, Append(stack, node), s)
      OBVIOUS
    <3>2. rec.deps \in SUBSET Ids /\ node \in Ids \ Range(stack) /\ Append(stack, node) \in Seq(Ids)
      BY <1>1, <1>5, <2>2, PushFacts DEF Record
    <3>3. q \in Points(Ids, ReplayState(Codes)) /\ Height(q) < Height(p)
      BY <2>2, <3>1, <3>2, PointFacts, HeightFacts
    <3>4. a[q] = b[q] /\ b[q] \in ReplayState(Codes)
      BY <3>3 DEF SameBelow
    <3>5. Finish(b[q], node) \in ReplayState(Codes)
      BY <1>1, <3>4, ReplayTyped
    <3>6. /\ ReplayMet(a, trail, stack, r, node) = Finish(a[q], node)
          /\ ReplayMet(b, trail, stack, r, node) = Finish(b[q], node)
      BY <1>5, <2>1, <2>4, <3>1 DEF ReplayMet
    <3> QED BY <3>4, <3>5, <3>6
  <2> QED BY <2>3, <2>4
<1> QED BY <1>2, <1>3, <1>4, <1>5

LEMMA ReplayCongruence ==
    ASSUME NEW Codes, NEW trail \in Seq(Record(Codes)),
           NEW p \in Points(Ids, ReplayState(Codes)), NEW a, NEW b,
           SameBelow(a, b, p, Points(Ids, ReplayState(Codes)), ReplayState(Codes))
    PROVE  ReplayStep(a, trail, p) = ReplayStep(b, trail, p) /\ ReplayStep(b, trail, p) \in ReplayState(Codes)
<1>1. PICK kids \in SUBSET Ids, stack \in Seq(Ids), r \in ReplayState(Codes) : p = At(kids, stack, r)
  BY PointFacts
<1>2. CASE kids = {} \/ ~r.fits \/ r.code # "PRESENT"
  <2>1. ReplayStep(a, trail, At(kids, stack, r)) = r /\ ReplayStep(b, trail, At(kids, stack, r)) = r
    BY <1>2, ReplayStops
  <2> QED BY <1>1, <2>1
<1>3. CASE kids # {} /\ r.fits /\ r.code = "PRESENT"
  <2>1. PICK node : node = Least(kids)
    OBVIOUS
  <2>2. node \in kids
    BY <1>3, <2>1, LeastFacts
  <2>3. PICK m : m = ReplayMet(b, trail, stack, r, node)
    OBVIOUS
  <2>4. ReplayMet(a, trail, stack, r, node) = m /\ m \in ReplayState(Codes)
    BY <1>1, <2>2, <2>3, ReplayMetSame
  <2>5. /\ ReplayStep(a, trail, At(kids, stack, r)) = a[At(kids \ {node}, stack, ReplayMet(a, trail, stack, r, node))]
        /\ ReplayStep(b, trail, At(kids, stack, r)) = b[At(kids \ {node}, stack, ReplayMet(b, trail, stack, r, node))]
    BY <1>3, <2>1, ReplayGoes
  <2>6. PICK q : q = At(kids \ {node}, stack, m)
    OBVIOUS
  <2>7. ReplayStep(a, trail, p) = a[q] /\ ReplayStep(b, trail, p) = b[q]
    BY <1>1, <2>3, <2>4, <2>5, <2>6
  <2>8. q \in Points(Ids, ReplayState(Codes)) /\ Height(q) < Height(p)
    BY <1>1, <2>2, <2>4, <2>6, PointFacts, HeightFacts
  <2>9. a[q] = b[q] /\ b[q] \in ReplayState(Codes)
    BY <2>8 DEF SameBelow
  <2> QED BY <2>7, <2>9
<1> QED BY <1>2, <1>3

\* The function a replay follows.
Replays(visit, trail, Codes) ==
    /\ visit \in [Points(Ids, ReplayState(Codes)) -> ReplayState(Codes)]
    /\ \A p \in Points(Ids, ReplayState(Codes)) : visit[p] = ReplayStep(visit, trail, p)

LEMMA ReplayRuns ==
    ASSUME NEW Codes, "PRESENT" \in Codes, NEW trail \in Seq(Record(Codes)), NEW root, NEW first
    PROVE  \E visit : /\ Replays(visit, trail, Codes)
                      /\ Replay(root, first, trail, Codes) = visit[At(first, <<root>>, ReplayStart)]
<1>1. PICK Dom, Val : Dom = Points(Ids, ReplayState(Codes)) /\ Val = ReplayState(Codes)
  OBVIOUS
<1>2. PICK mu : mu = [p \in Dom |-> Height(p)]
  OBVIOUS
<1>3. HeightBound \in Nat /\ mu \in [Dom -> 0..HeightBound] /\ \A p \in Dom : mu[p] = Height(p)
  <2>1. ASSUME NEW p \in Dom PROVE HeightBound \in Nat /\ Height(p) \in 0..HeightBound
    <3>1. p.kids \in SUBSET Ids /\ p.stack \in Seq(Ids) /\ p = At(p.kids, p.stack, p.state)
      BY <1>1, PointFacts
    <3> QED BY <3>1, HeightFacts
  <2>2. HeightBound \in Nat
    <3>1. {} \in SUBSET Ids /\ <<>> \in Seq(Ids)
      BY EmptySeq
    <3> QED BY <3>1, HeightFacts
  <2> QED BY <1>2, <2>1, <2>2
<1>4. ReplayStart \in Val
  BY <1>1, EmptySeq DEF ReplayStart, ReplayState
<1>5. PICK F : F = [f \in [Dom -> Val] |-> [p \in Dom |-> ReplayStep(f, trail, p)]]
  OBVIOUS
<1>6. ASSUME NEW a \in [Dom -> Val], NEW b \in [Dom -> Val], NEW p \in Dom,
             \A q \in Dom : mu[q] < mu[p] => a[q] = b[q]
      PROVE  ReplayStep(a, trail, p) = ReplayStep(b, trail, p) /\ ReplayStep(b, trail, p) \in Val
  <2>1. \A q \in Dom : Height(q) < Height(p) => a[q] = b[q] /\ b[q] \in Val
    BY <1>3, <1>6
  <2>2. SameBelow(a, b, p, Dom, Val)
    BY <2>1 DEF SameBelow
  <2> QED BY <1>1, <2>2, ReplayCongruence
<1>7. \A a \in [Dom -> Val] : \A p \in Dom : ReplayStep(a, trail, p) \in Val
  BY <1>6
<1>8. F \in [[Dom -> Val] -> [Dom -> Val]]
  BY <1>5, <1>7
<1>9. \A a \in [Dom -> Val] : \A p \in Dom : F[a][p] = ReplayStep(a, trail, p)
  BY <1>5
<1>10. \A a, b \in [Dom -> Val] : \A p \in Dom :
          (\A q \in Dom : mu[q] < mu[p] => a[q] = b[q]) => F[a][p] = F[b][p]
  <2> SUFFICES ASSUME NEW a \in [Dom -> Val], NEW b \in [Dom -> Val], NEW p \in Dom,
                      \A q \in Dom : mu[q] < mu[p] => a[q] = b[q]
               PROVE  F[a][p] = F[b][p]
    OBVIOUS
  <2>1. ReplayStep(a, trail, p) = ReplayStep(b, trail, p)
    BY <1>6
  <2> QED BY <1>9, <2>1
<1>11. PICK g \in [Dom -> Val] : g = F[g]
  <2>1. Local(F, Dom, Val, mu)
    BY <1>10, Zenon DEF Local
  <2>2. Solvable(F, Dom, Val)
    BY <1>3, <1>4, <1>8, <2>1, Recursion
  <2> QED BY <2>2 DEF Solvable
<1> DEFINE Body(f) == [p \in Dom |-> ReplayStep(f, trail, p)]
<1>12. g = Body(g)
  <2>1. F[g] = [p \in Dom |-> ReplayStep(g, trail, p)]
    BY <1>5
  <2> QED BY <1>11, <2>1
<1>13. PICK f : f = CHOOSE any : any = Body(any)
  OBVIOUS
<1>14. f = Body(f)
  <2> HIDE DEF Body
  <2> QED BY <1>12, <1>13
<1>15. Replay(root, first, trail, Codes) = f[At(first, <<root>>, ReplayStart)]
  BY <1>1, <1>13 DEF Replay
<1>16. (\A p \in Dom : f[p] = ReplayStep(f, trail, p)) /\ (\A p \in Dom : g[p] = ReplayStep(g, trail, p))
  BY <1>12, <1>14
<1> DEFINE Bad == {n \in Nat : \E p \in Dom : n = Height(p) /\ f[p] # g[p]}
<1>17. Bad = {}
  <2> SUFFICES ASSUME Bad # {} PROVE FALSE
    OBVIOUS
  <2>1. PICK n \in Bad : \A k \in Bad : n <= k
    <3>1. Bad \in SUBSET Nat
      OBVIOUS
    <3> HIDE DEF Bad
    <3> QED BY <3>1, LeastMember
  <2>2. PICK p \in Dom : n = Height(p) /\ f[p] # g[p]
    BY <2>1
  <2>3. \A q \in Dom : Height(q) \in Nat
    BY <1>3
  <2>4. ASSUME NEW q \in Dom, Height(q) < Height(p) PROVE f[q] = g[q] /\ g[q] \in Val
    <3>1. ~(n <= Height(q))
      BY <2>2, <2>3, <2>4
    <3>2. Height(q) \notin Bad
      <4> HIDE DEF Bad
      <4> QED BY <2>1, <3>1
    <3> QED BY <1>11, <2>3, <3>2
  <2>5. ReplayStep(f, trail, p) = ReplayStep(g, trail, p)
    <3>1. SameBelow(f, g, p, Dom, Val)
      BY <2>4 DEF SameBelow
    <3> QED BY <1>1, <2>2, <3>1, ReplayCongruence
  <2> QED BY <1>16, <2>2, <2>5
<1>18. \A p \in Dom : f[p] = g[p]
  BY <1>3, <1>17
<1>19. f = g
  <2>1. DOMAIN f = Dom /\ f = [p \in Dom |-> f[p]]
    BY <1>14
  <2> QED BY <1>11, <1>18, <2>1
<1>20. Replays(f, trail, Codes)
  BY <1>1, <1>11, <1>16, <1>19 DEF Replays
<1> QED BY <1>15, <1>20

\* The state of the replay that reads the records of a walk.
Shadow(v) == [visited |-> v.visited, next |-> Len(v.trail), edges |-> v.calls, code |-> v.code,
              cycle |-> v.cycle, fits |-> TRUE]

Prefix(a, b) == Len(a) <= Len(b) /\ \A n \in 1..Len(a) : a[n] = b[n]

LEMMA PrefixFacts ==
    ASSUME NEW S, NEW a \in Seq(S), NEW b \in Seq(S), NEW c \in Seq(S)
    PROVE  /\ Prefix(a, a) /\ (Prefix(a, b) /\ Prefix(b, c) => Prefix(a, c))
           /\ \A e \in S : /\ Prefix(a, Append(a, e))
                           /\ Prefix(Append(a, e), c) => Len(a) < Len(c) /\ c[Len(a) + 1] = e
<1>1. Len(a) \in Nat /\ Len(b) \in Nat /\ Len(c) \in Nat
  BY LenProperties
<1>2. Prefix(a, a)
  BY <1>1 DEF Prefix
<1>3. Prefix(a, b) /\ Prefix(b, c) => Prefix(a, c)
  <2> SUFFICES ASSUME Prefix(a, b), Prefix(b, c) PROVE Prefix(a, c)
    OBVIOUS
  <2>1. Len(a) <= Len(b) /\ Len(b) <= Len(c) /\ \A n \in 1..Len(a) : n \in 1..Len(b)
    BY <1>1 DEF Prefix
  <2>2. Len(a) <= Len(c) /\ \A n \in 1..Len(a) : a[n] = c[n]
    BY <1>1, <2>1 DEF Prefix
  <2> QED BY <2>2 DEF Prefix
<1>4. ASSUME NEW e \in S
      PROVE  /\ Prefix(a, Append(a, e))
             /\ Prefix(Append(a, e), c) => Len(a) < Len(c) /\ c[Len(a) + 1] = e
  <2>1. PICK t : t = Append(a, e)
    OBVIOUS
  <2>2. Len(t) = Len(a) + 1 /\ t[Len(a) + 1] = e /\ \A n \in 1..Len(a) : t[n] = a[n]
    BY <2>1, PushFacts
  <2>3. Prefix(a, t)
    BY <1>1, <2>2 DEF Prefix
  <2>4. Prefix(t, c) => Len(a) < Len(c) /\ c[Len(a) + 1] = e
    <3>1. Len(a) + 1 \in 1..Len(t)
      BY <1>1, <2>2
    <3> QED BY <1>1, <2>2, <3>1 DEF Prefix
  <2> QED BY <2>1, <2>3, <2>4
<1> QED BY <1>2, <1>3, <1>4

LEMMA ShadowFacts ==
    ASSUME NEW Codes, NEW v \in WalkState(Codes)
    PROVE  /\ Shadow(v) \in ReplayState(Codes)
           /\ Shadow(v).visited = v.visited /\ Shadow(v).next = Len(v.trail) /\ Shadow(v).edges = v.calls
           /\ Shadow(v).code = v.code /\ Shadow(v).cycle = v.cycle /\ Shadow(v).fits = TRUE
<1>1. /\ v.visited \in SUBSET Ids /\ v.trail \in Seq(Record(Codes)) /\ v.code \in Codes \cup {"CYCLE"}
      /\ v.cycle \in Seq(Ids) /\ v.calls \in Nat
  BY DEF WalkState
<1>2. PICK yes \in BOOLEAN, len \in Nat : yes = TRUE /\ len = Len(v.trail)
  BY <1>1, LenProperties
<1>3. Shadow(v) = [visited |-> v.visited, next |-> len, edges |-> v.calls, code |-> v.code,
                   cycle |-> v.cycle, fits |-> yes]
  BY <1>2 DEF Shadow
<1>4. Shadow(v) \in ReplayState(Codes)
  BY <1>1, <1>2, <1>3 DEF ReplayState
<1> QED BY <1>2, <1>3, <1>4

LEMMA ShadowsCalled ==
    ASSUME NEW Codes, NEW v \in WalkState(Codes)
    PROVE  Counted(Shadow(v)) = Shadow(Called(v))
<1>1. PICK r : r = Shadow(v)
  OBVIOUS
<1>2. /\ r \in ReplayState(Codes) /\ r.visited = v.visited /\ r.next = Len(v.trail) /\ r.edges = v.calls
      /\ r.code = v.code /\ r.cycle = v.cycle /\ r.fits = TRUE
  BY <1>1, ShadowFacts
<1>3. Counted(r) = [visited |-> r.visited, next |-> r.next, edges |-> r.edges + 1, code |-> r.code,
                    cycle |-> r.cycle, fits |-> r.fits]
  BY <1>2, ReplayIs
<1>4. PICK m : m = Called(v)
  OBVIOUS
<1>5. /\ m.visited = v.visited /\ m.code = v.code /\ m.trail = v.trail /\ m.cycle = v.cycle /\ m.calls = v.calls + 1
  BY <1>4, CalledIs
<1>6. Shadow(m) = [visited |-> m.visited, next |-> Len(m.trail), edges |-> m.calls, code |-> m.code,
                   cycle |-> m.cycle, fits |-> TRUE]
  BY DEF Shadow
<1>7. Counted(r) = Shadow(m)
  BY <1>2, <1>3, <1>5, <1>6
<1> QED BY <1>1, <1>4, <1>7

LEMMA ShadowsClosing ==
    ASSUME NEW Codes, NEW v \in WalkState(Codes), NEW stack, NEW node
    PROVE  Ringed(stack, node, Shadow(v)) = Shadow(Closing(stack, node, v))
<1>1. PICK r : r = Shadow(v)
  OBVIOUS
<1>2. /\ r \in ReplayState(Codes) /\ r.visited = v.visited /\ r.next = Len(v.trail) /\ r.edges = v.calls
      /\ r.code = v.code /\ r.cycle = v.cycle /\ r.fits = TRUE
  BY <1>1, ShadowFacts
<1>3. Ringed(stack, node, r) =
         [visited |-> r.visited, next |-> r.next, edges |-> r.edges + 1, code |-> "CYCLE",
          cycle |-> Witness(RingAt(stack, node)), fits |-> r.fits]
  BY <1>2, RingedIs
<1>4. PICK m : m = Closing(stack, node, v)
  OBVIOUS
<1>5. /\ m.visited = v.visited /\ m.code = "CYCLE" /\ m.trail = v.trail /\ m.calls = v.calls + 1
      /\ m.cycle = Witness(RingAt(stack, node))
  BY <1>4, ClosingIs
<1>6. Shadow(m) = [visited |-> m.visited, next |-> Len(m.trail), edges |-> m.calls, code |-> m.code,
                   cycle |-> m.cycle, fits |-> TRUE]
  BY DEF Shadow
<1>7. Ringed(stack, node, r) = Shadow(m)
  BY <1>2, <1>3, <1>5, <1>6
<1> QED BY <1>1, <1>4, <1>7

\* The replay reads the record that the walk writes.
LEMMA ShadowsSeen ==
    ASSUME NEW gate, NEW deps, NEW Codes, Walkable(gate, deps, Codes), NEW v \in WalkState(Codes),
           NEW node \in DOMAIN deps, NEW trail \in Seq(Record(Codes)),
           Prefix(Seen(gate, deps, node, v).trail, trail)
    PROVE  /\ ReadOn(trail, node, Shadow(v)) = Shadow(Seen(gate, deps, node, v))
           /\ ~(Shadow(v).next >= Len(trail)) /\ trail[Shadow(v).next + 1] = Rec(gate, deps, node)
<1>1. PICK r : r = Shadow(v)
  OBVIOUS
<1>2. /\ r \in ReplayState(Codes) /\ r.visited = v.visited /\ r.next = Len(v.trail) /\ r.edges = v.calls
      /\ r.code = v.code /\ r.cycle = v.cycle /\ r.fits = TRUE
  BY <1>1, ShadowFacts
<1>3. PICK m, rec : m = Seen(gate, deps, node, v) /\ rec = Rec(gate, deps, node)
  OBVIOUS
<1>4. /\ m.visited = v.visited /\ m.code = gate[node] /\ m.trail = Append(v.trail, rec)
      /\ m.cycle = v.cycle /\ m.calls = v.calls + 1
  BY <1>3, SeenIs
<1>5. rec \in Record(Codes) /\ v.trail \in Seq(Record(Codes)) /\ rec.id = node /\ rec.code = gate[node]
  <2>1. rec \in Record(Codes)
    BY <1>3, StateFacts
  <2> QED BY <1>3, <2>1 DEF Rec, WalkState
<1>6. Len(v.trail) < Len(trail) /\ trail[Len(v.trail) + 1] = rec
  <2>1. Prefix(Append(v.trail, rec), trail)
    BY <1>3, <1>4
  <2> QED BY <1>5, <2>1, PrefixFacts
<1>7. ReadOn(trail, node, r) =
         [visited |-> r.visited, next |-> r.next + 1, edges |-> r.edges + 1, code |-> rec.code,
          cycle |-> r.cycle, fits |-> (rec.id = node)]
  <2>1. rec = trail[r.next + 1]
    BY <1>2, <1>6
  <2> QED BY <1>2, <2>1, ReadIs
<1>8. Shadow(m) = [visited |-> m.visited, next |-> Len(m.trail), edges |-> m.calls, code |-> m.code,
                   cycle |-> m.cycle, fits |-> TRUE]
  BY DEF Shadow
<1>9. Len(m.trail) = Len(v.trail) + 1 /\ (rec.id = node) = TRUE
  BY <1>4, <1>5, PushFacts
<1>10. ReadOn(trail, node, r) = Shadow(m)
  <2>1. PICK fit \in BOOLEAN : fit = (rec.id = node)
    BY <1>9
  <2>2. fit = TRUE
    BY <1>9, <2>1
  <2>3. ReadOn(trail, node, r) =
           [visited |-> r.visited, next |-> r.next + 1, edges |-> r.edges + 1, code |-> rec.code,
            cycle |-> r.cycle, fits |-> fit]
    BY <1>7, <2>1, Zenon
  <2>4. Shadow(m) = [visited |-> m.visited, next |-> Len(m.trail), edges |-> m.calls, code |-> m.code,
                     cycle |-> m.cycle, fits |-> fit]
    BY <1>8, <2>2, Zenon
  <2>5. /\ m.visited = r.visited /\ Len(m.trail) = r.next + 1 /\ m.calls = r.edges + 1
        /\ m.code = rec.code /\ m.cycle = r.cycle
    BY <1>2, <1>4, <1>5, <1>9
  <2> QED BY <2>3, <2>4, <2>5
<1>11. ~(r.next >= Len(trail))
  <2>1. Len(v.trail) \in Nat /\ Len(trail) \in Nat
    BY <1>5, LenProperties
  <2> QED BY <1>2, <1>6, <2>1
<1> QED BY <1>1, <1>2, <1>3, <1>6, <1>10, <1>11

LEMMA ShadowsFinish ==
    ASSUME NEW Codes, NEW u \in WalkState(Codes), NEW node
    PROVE  Finish(Shadow(u), node) = Shadow(Finish(u, node))
<1>1. PICK r : r = Shadow(u)
  OBVIOUS
<1>2. /\ r \in ReplayState(Codes) /\ r.visited = u.visited /\ r.next = Len(u.trail) /\ r.edges = u.calls
      /\ r.code = u.code /\ r.cycle = u.cycle /\ r.fits = TRUE
  BY <1>1, ShadowFacts
<1>3. Finish(r, node) = [visited |-> IF r.code = "PRESENT" THEN r.visited \cup {node} ELSE r.visited,
                         next |-> r.next, edges |-> r.edges, code |-> r.code, cycle |-> r.cycle, fits |-> r.fits]
  <2>1. \A x : Finish(r, x) =
           [visited |-> IF r.code = "PRESENT" THEN r.visited \cup {x} ELSE r.visited,
            next |-> r.next, edges |-> r.edges, code |-> r.code, cycle |-> r.cycle, fits |-> r.fits]
    BY <1>2, ReplayIs
  <2> QED BY <2>1
<1>4. PICK m : m = Finish(u, node)
  OBVIOUS
<1>5. /\ m.trail = u.trail /\ m.code = u.code /\ m.cycle = u.cycle /\ m.calls = u.calls
      /\ m.visited = IF u.code = "PRESENT" THEN u.visited \cup {node} ELSE u.visited
  <2>1. /\ m.trail = u.trail /\ m.code = u.code /\ m.cycle = u.cycle /\ m.calls = u.calls
        /\ u.code = "PRESENT" => m.visited = u.visited \cup {node}
        /\ u.code # "PRESENT" => m = u
    BY <1>4, FinishIs
  <2> QED BY <2>1
<1>6. Shadow(m) = [visited |-> m.visited, next |-> Len(m.trail), edges |-> m.calls, code |-> m.code,
                   cycle |-> m.cycle, fits |-> TRUE]
  BY DEF Shadow
<1>7. Finish(r, node) = Shadow(m)
  BY <1>2, <1>3, <1>5, <1>6
<1> QED BY <1>1, <1>4, <1>7

\* The replay rv of some records follows the walk that wrote them.
Follows(visit, rv, trail, kids, stack, v) ==
    /\ Prefix(v.trail, visit[At(kids, stack, v)].trail)
    /\ Prefix(visit[At(kids, stack, v)].trail, trail)
           => rv[At(kids, stack, Shadow(v))] = Shadow(visit[At(kids, stack, v)])

FollowsBelow(visit, rv, trail, deps, Codes, n) ==
    \A kids \in SUBSET DOMAIN deps, stack \in Seq(Ids), v \in WalkState(Codes) :
        Height(At(kids, stack, v)) < n => Follows(visit, rv, trail, kids, stack, v)

\* At one child.
Meets(rv, trail, stack, v, node, m) ==
    /\ Prefix(v.trail, m.trail)
    /\ Prefix(m.trail, trail) => ReplayMet(rv, trail, stack, Shadow(v), node) = Shadow(m)

LEMMA ChildMeets ==
    ASSUME NEW gate, NEW deps, NEW Codes, Walkable(gate, deps, Codes), NEW trail \in Seq(Record(Codes)),
           NEW visit, Visits(visit, gate, deps, Codes), NEW rv,
           NEW kids \in SUBSET DOMAIN deps, NEW stack \in Seq(Ids), NEW v \in WalkState(Codes),
           NEW n, n = Height(At(kids, stack, v)), FollowsBelow(visit, rv, trail, deps, Codes, n),
           NEW node, NEW u, NEW m, Moves(visit, gate, deps, Codes, kids, stack, v, node, u, m)
    PROVE  Meets(rv, trail, stack, v, node, m)
<1>1. node \in kids /\ node \in DOMAIN deps /\ m \in WalkState(Codes)
  BY DEF Moves
<1>2. PICK r : r = Shadow(v)
  OBVIOUS
<1>3. r.visited = v.visited /\ r.next = Len(v.trail)
  BY <1>2, ShadowFacts
<1>4. v.trail \in Seq(Record(Codes)) /\ m.trail \in Seq(Record(Codes))
  BY <1>1 DEF WalkState
<1>5. CASE node \in Range(stack) /\ m = Closing(stack, node, v)
  <2>1. m.trail = v.trail
    BY <1>5, ClosingIs
  <2>2. Ringed(stack, node, r) = Shadow(m)
    BY <1>2, <1>5, ShadowsClosing
  <2>3. ReplayMet(rv, trail, stack, r, node) = Shadow(m)
    BY <1>5, <2>2 DEF ReplayMet
  <2> QED BY <1>2, <1>4, <2>1, <2>3, PrefixFacts DEF Meets
<1>6. CASE node \notin Range(stack) /\ node \in v.visited /\ m = Called(v)
  <2>1. m.trail = v.trail
    BY <1>6, CalledIs
  <2>2. Counted(r) = Shadow(m)
    BY <1>2, <1>6, ShadowsCalled
  <2>3. ReplayMet(rv, trail, stack, r, node) = Shadow(m)
    BY <1>3, <1>6, <2>2 DEF ReplayMet
  <2> QED BY <1>2, <1>4, <2>1, <2>3, PrefixFacts DEF Meets
<1>7. PICK s, rec : s = Seen(gate, deps, node, v) /\ rec = Rec(gate, deps, node)
  OBVIOUS
<1>8. s \in WalkState(Codes) /\ s.trail \in Seq(Record(Codes)) /\ Prefix(v.trail, s.trail)
  <2>1. s \in WalkState(Codes) /\ rec \in Record(Codes)
    BY <1>1, <1>7, StateFacts
  <2>2. s.trail = Append(v.trail, rec)
    BY <1>7, SeenIs
  <2>3. s.trail \in Seq(Record(Codes))
    BY <2>1 DEF WalkState
  <2>4. Prefix(v.trail, s.trail)
    BY <1>4, <2>1, <2>2, PrefixFacts
  <2> QED BY <2>1, <2>3, <2>4
<1>9. ASSUME Prefix(s.trail, trail)
      PROVE  ReadOn(trail, node, r) = Shadow(s) /\ ~(r.next >= Len(trail)) /\ trail[r.next + 1] = rec
  BY <1>1, <1>2, <1>7, <1>9, ShadowsSeen
<1>10. rec.code = gate[node] /\ rec.deps = deps[node]
  BY <1>7 DEF Rec
<1>11. CASE node \notin Range(stack) /\ node \notin v.visited /\ gate[node] # "PRESENT" /\ m = Seen(gate, deps, node, v)
  <2>1. m = s
    BY <1>7, <1>11
  <2>2. ASSUME Prefix(m.trail, trail) PROVE ReplayMet(rv, trail, stack, r, node) = Shadow(m)
    <3>1. ReadOn(trail, node, r) = Shadow(s) /\ ~(r.next >= Len(trail)) /\ trail[r.next + 1] = rec
      BY <1>9, <2>1, <2>2
    <3>2. node \notin r.visited /\ trail[r.next + 1].code # "PRESENT"
      BY <1>3, <1>10, <1>11, <3>1
    <3> QED BY <1>11, <2>1, <3>1, <3>2 DEF ReplayMet
  <2> QED BY <1>2, <1>8, <2>1, <2>2 DEF Meets
<1>12. CASE /\ node \notin Range(stack) /\ node \notin v.visited /\ gate[node] = "PRESENT"
            /\ u \in WalkState(Codes) /\ m = Finish(u, node)
            /\ u = visit[At(deps[node], Append(stack, node), Seen(gate, deps, node, v))]
  <2>1. PICK t : t = Append(stack, node)
    OBVIOUS
  <2>2. deps[node] \in SUBSET DOMAIN deps /\ deps[node] \in SUBSET Ids /\ node \in Ids \ Range(stack) /\ kids \in SUBSET Ids
    BY <1>1, <1>12 DEF Walkable
  <2>3. t \in Seq(Ids)
    BY <2>1, <2>2, PushFacts
  <2>4. Height(At(deps[node], t, s)) < n
    BY <2>1, <2>2, HeightFacts
  <2>5. Follows(visit, rv, trail, deps[node], t, s)
    BY <1>8, <2>2, <2>3, <2>4 DEF FollowsBelow
  <2>6. PICK q : q = At(deps[node], t, s)
    OBVIOUS
  <2>7. u = visit[q]
    BY <1>7, <1>12, <2>1, <2>6
  <2>8. /\ Prefix(s.trail, u.trail)
        /\ Prefix(u.trail, trail) => rv[At(deps[node], t, Shadow(s))] = Shadow(u)
    BY <2>5, <2>6, <2>7 DEF Follows
  <2>9. m.trail = u.trail /\ u.trail \in Seq(Record(Codes))
    <3>1. m.trail = u.trail
      BY <1>12, FinishIs
    <3>2. u.trail \in Seq(Record(Codes))
      BY <1>12 DEF WalkState
    <3> QED BY <3>1, <3>2
  <2>10. Prefix(v.trail, m.trail)
    BY <1>4, <1>8, <2>8, <2>9, PrefixFacts
  <2>11. ASSUME Prefix(m.trail, trail) PROVE ReplayMet(rv, trail, stack, r, node) = Shadow(m)
    <3>1. Prefix(s.trail, trail) /\ Prefix(u.trail, trail)
      BY <1>8, <2>8, <2>9, <2>11, PrefixFacts
    <3>2. ReadOn(trail, node, r) = Shadow(s) /\ ~(r.next >= Len(trail)) /\ trail[r.next + 1] = rec
      BY <1>9, <3>1
    <3>3. node \notin r.visited /\ trail[r.next + 1].code = "PRESENT" /\ trail[r.next + 1].deps = deps[node]
      BY <1>3, <1>10, <1>12, <3>2
    <3>4. ReplayMet(rv, trail, stack, r, node) = Finish(rv[At(deps[node], t, Shadow(s))], node)
      BY <1>12, <2>1, <3>2, <3>3 DEF ReplayMet
    <3>5. rv[At(deps[node], t, Shadow(s))] = Shadow(u)
      BY <2>8, <3>1
    <3>6. Finish(Shadow(u), node) = Shadow(m)
      BY <1>12, ShadowsFinish
    <3> QED BY <3>4, <3>5, <3>6
  <2> QED BY <1>2, <2>10, <2>11 DEF Meets
<1> QED BY <1>5, <1>6, <1>11, <1>12 DEF Moves

LEMMA ReplayFollows ==
    ASSUME NEW gate, NEW deps, NEW Codes, Walkable(gate, deps, Codes), NEW trail \in Seq(Record(Codes)),
           NEW visit, Visits(visit, gate, deps, Codes), NEW rv, Replays(rv, trail, Codes),
           NEW kids \in SUBSET DOMAIN deps, NEW stack \in Seq(Ids), NEW v \in WalkState(Codes),
           NEW n, n = Height(At(kids, stack, v)), FollowsBelow(visit, rv, trail, deps, Codes, n)
    PROVE  Follows(visit, rv, trail, kids, stack, v)
<1>1. PICK r : r = Shadow(v)
  OBVIOUS
<1>2. r \in ReplayState(Codes) /\ r.code = v.code /\ r.fits
  BY <1>1, ShadowFacts
<1>3. kids \in SUBSET Ids /\ v.trail \in Seq(Record(Codes))
  BY DEF Walkable, WalkState
<1>4. rv[At(kids, stack, r)] = ReplayStep(rv, trail, At(kids, stack, r))
  <2>1. At(kids, stack, r) \in Points(Ids, ReplayState(Codes))
    BY <1>2, <1>3, PointFacts
  <2> QED BY <2>1 DEF Replays
<1>5. CASE kids = {} \/ v.code # "PRESENT"
  <2>1. visit[At(kids, stack, v)] = v
    BY <1>5, WalkMoves
  <2>2. ReplayStep(rv, trail, At(kids, stack, r)) = r
    BY <1>2, <1>5, ReplayStops
  <2>3. Prefix(v.trail, v.trail)
    BY <1>3, PrefixFacts
  <2> QED BY <1>1, <1>4, <2>1, <2>2, <2>3 DEF Follows
<1>6. CASE kids # {} /\ v.code = "PRESENT"
  <2>1. PICK node, u, m : Moves(visit, gate, deps, Codes, kids, stack, v, node, u, m)
    BY <1>6, WalkMoves
  <2>2. PICK rest, w : rest = kids \ {node} /\ w = visit[At(rest, stack, m)]
    OBVIOUS
  <2>3. /\ node \in kids /\ node = Least(kids) /\ m \in WalkState(Codes) /\ visit[At(kids, stack, v)] = w
        /\ rest \in SUBSET DOMAIN deps
    BY <2>1, <2>2 DEF Moves
  <2>4. Meets(rv, trail, stack, v, node, m)
    BY <2>1, ChildMeets
  <2>5. Height(At(rest, stack, m)) < n
    BY <1>3, <2>2, <2>3, HeightFacts
  <2>6. Follows(visit, rv, trail, rest, stack, m)
    BY <2>3, <2>5 DEF FollowsBelow
  <2>7. /\ Prefix(m.trail, w.trail)
        /\ Prefix(w.trail, trail) => rv[At(rest, stack, Shadow(m))] = Shadow(w)
    BY <2>2, <2>6 DEF Follows
  <2>8. /\ Prefix(v.trail, m.trail)
        /\ Prefix(m.trail, trail) => ReplayMet(rv, trail, stack, r, node) = Shadow(m)
    BY <1>1, <2>4 DEF Meets
  <2>9. w \in WalkState(Codes) /\ m.trail \in Seq(Record(Codes)) /\ w.trail \in Seq(Record(Codes))
    <3>1. w \in WalkState(Codes)
      BY <2>2, <2>3, WalkMoves
    <3> QED BY <2>3, <3>1 DEF WalkState
  <2>10. Prefix(v.trail, w.trail)
    BY <1>3, <2>7, <2>8, <2>9, PrefixFacts
  <2>11. ASSUME Prefix(w.trail, trail) PROVE rv[At(kids, stack, r)] = Shadow(w)
    <3>1. Prefix(m.trail, trail)
      BY <2>7, <2>9, <2>11, PrefixFacts
    <3>2. ReplayStep(rv, trail, At(kids, stack, r)) = rv[At(rest, stack, ReplayMet(rv, trail, stack, r, node))]
      BY <1>2, <1>6, <2>2, <2>3, ReplayGoes
    <3> QED BY <1>4, <2>7, <2>8, <2>11, <3>1, <3>2
  <2> QED BY <1>1, <2>3, <2>10, <2>11 DEF Follows
<1> QED BY <1>5, <1>6

LEMMA ReplayAlwaysFollows ==
    ASSUME NEW gate, NEW deps, NEW Codes, Walkable(gate, deps, Codes), NEW trail \in Seq(Record(Codes)),
           NEW visit, Visits(visit, gate, deps, Codes), NEW rv, Replays(rv, trail, Codes),
           NEW kids \in SUBSET DOMAIN deps, NEW stack \in Seq(Ids), NEW v \in WalkState(Codes)
    PROVE  Follows(visit, rv, trail, kids, stack, v)
<1> DEFINE Bad == {n \in Nat : \E k \in SUBSET DOMAIN deps, s \in Seq(Ids), w \in WalkState(Codes) :
                      n = Height(At(k, s, w)) /\ ~Follows(visit, rv, trail, k, s, w)}
<1>1. \A k \in SUBSET DOMAIN deps, s \in Seq(Ids), w \in WalkState(Codes) : Height(At(k, s, w)) \in Nat
  <2> SUFFICES ASSUME NEW k \in SUBSET DOMAIN deps, NEW s \in Seq(Ids), NEW w \in WalkState(Codes)
               PROVE  Height(At(k, s, w)) \in Nat
    OBVIOUS
  <2>1. k \in SUBSET Ids
    BY DEF Walkable
  <2>2. Height(At(k, s, w)) \in 0..HeightBound /\ HeightBound \in Nat
    BY <2>1, HeightFacts
  <2> QED BY <2>2
<1>2. Bad = {}
  <2> SUFFICES ASSUME Bad # {} PROVE FALSE
    OBVIOUS
  <2>1. PICK n \in Bad : \A k \in Bad : n <= k
    <3>1. Bad \in SUBSET Nat
      OBVIOUS
    <3> HIDE DEF Bad
    <3> QED BY <3>1, LeastMember
  <2>2. PICK k \in SUBSET DOMAIN deps, s \in Seq(Ids), w \in WalkState(Codes) :
           n = Height(At(k, s, w)) /\ ~Follows(visit, rv, trail, k, s, w)
    BY <2>1
  <2>3. FollowsBelow(visit, rv, trail, deps, Codes, n)
    <3> SUFFICES ASSUME NEW a \in SUBSET DOMAIN deps, NEW b \in Seq(Ids), NEW c \in WalkState(Codes),
                        Height(At(a, b, c)) < n
                 PROVE  Follows(visit, rv, trail, a, b, c)
      BY DEF FollowsBelow
    <3>1. Height(At(a, b, c)) \in Nat /\ n \in Nat /\ ~(n <= Height(At(a, b, c)))
      BY <1>1, <2>2
    <3>2. Height(At(a, b, c)) \notin Bad
      <4> HIDE DEF Bad
      <4> QED BY <2>1, <3>1
    <3> QED BY <3>1, <3>2
  <2> QED BY <2>2, <2>3, ReplayFollows
<1> QED BY <1>1, <1>2

\* The replay of the records of a walk ends as the walk ended.
LEMMA WalkReplays ==
    ASSUME NEW gate, NEW deps, NEW Codes, Walkable(gate, deps, Codes), NEW root \in DOMAIN deps,
           NEW w, w = Walk(root, deps[root], gate, deps, Codes)
    PROVE  Replay(root, deps[root], w.trail, Codes) = Shadow(w)
<1>1. w \in WalkState(Codes) /\ w.trail \in Seq(Record(Codes)) /\ "PRESENT" \in Codes
  BY WalkConcludes DEF WalkState, Walkable
<1>2. PICK visit : Visits(visit, gate, deps, Codes) /\ w = visit[At(deps[root], <<root>>, WalkStart)]
  BY WalkRuns
<1>3. PICK rv : /\ Replays(rv, w.trail, Codes)
                /\ Replay(root, deps[root], w.trail, Codes) = rv[At(deps[root], <<root>>, ReplayStart)]
  BY <1>1, ReplayRuns
<1>4. WalkStart \in WalkState(Codes) /\ <<root>> \in Seq(Ids) /\ deps[root] \in SUBSET DOMAIN deps
  BY StartReady
<1>5. Follows(visit, rv, w.trail, deps[root], <<root>>, WalkStart)
  BY <1>1, <1>2, <1>3, <1>4, ReplayAlwaysFollows
<1>6. Prefix(w.trail, w.trail)
  BY <1>1, PrefixFacts
<1>7. Shadow(WalkStart) = ReplayStart
  <2>1. Len(<<>>) = 0
    BY EmptySeq
  <2> QED BY <2>1 DEF Shadow, WalkStart, ReplayStart
<1> QED BY <1>2, <1>3, <1>5, <1>6, <1>7 DEF Follows

\* A record of a walk agrees with its replay, and the edges are the calls.
LEMMA WalkAgrees ==
    ASSUME NEW gate, NEW deps, NEW Codes, Walkable(gate, deps, Codes), NEW root \in DOMAIN deps,
           NEW w, w = Walk(root, deps[root], gate, deps, Codes), NEW code, code = w.code
    PROVE  /\ ReplayAgrees(root, deps[root], w.trail, w.cycle, code, Codes)
           /\ Replay(root, deps[root], w.trail, Codes).edges = w.calls
<1>1. w \in WalkState(Codes)
  BY WalkConcludes
<1>2. PICK r : r = Replay(root, deps[root], w.trail, Codes)
  OBVIOUS
<1>3. r = Shadow(w)
  BY <1>2, WalkReplays
<1>4. /\ Shadow(w).next = Len(w.trail) /\ Shadow(w).edges = w.calls /\ Shadow(w).code = w.code
      /\ Shadow(w).cycle = w.cycle /\ Shadow(w).fits = TRUE
  BY <1>1, ShadowFacts
<1>5. r.fits /\ r.next = Len(w.trail) /\ r.edges = w.calls /\ r.code = w.code /\ r.cycle = w.cycle
  BY <1>3, <1>4
<1> QED BY <1>2, <1>5 DEF ReplayAgrees

-----------------------------------------------------------------------------
(* Records accept what their producers computed.                           *)

LEMMA ReceiptFields ==
    ASSUME NEW id, NEW declared, NEW clock, NEW w, NEW d, NEW r, r = WalkReceipt(id, declared, clock, w, d)
    PROVE  /\ r.id = id /\ r.clock = clock /\ r.deps = declared.deps /\ r.evidence = declared.evidence
           /\ r.trail = w.trail /\ r.cycle = w.cycle /\ r.decided = d /\ r.code = ReceiptCode(w, d)
           /\ r.passed = (w.code = "PRESENT" /\ \A n \in 1..Len(d) : d[n].code = "ELIGIBLE")
BY DEF WalkReceipt

LEMMA ReceiptReplays ==
    ASSUME NEW held, Registered(held), NEW id \in Assumptions, NEW clock, Proposed(held, id, clock),
           NEW r, r = Receipt(held, id, AssumptionAt(id, held[id]).declared, clock)
    PROVE  ValidReceipt(r) /\ r.id = id /\ r.clock = clock
<1>1. PICK declared, gate, deps : /\ declared = AssumptionAt(id, held[id]).declared
                                  /\ gate = DependencyGates(held) /\ deps = DeclaredBy(held)
  OBVIOUS
<1>2. PICK w, d : /\ r = WalkReceipt(id, declared, clock, w, d)
                  /\ w = Walk(id, deps[id], gate, deps, DependencyCodes)
                  /\ d = IF w.code = "PRESENT" THEN Decided(held, declared.evidence, clock) ELSE <<>>
                  /\ declared.deps = deps[id] /\ Declares(declared)
  BY <1>1, ReceiptParts
<1>3. Walkable(gate, deps, DependencyCodes) /\ id \in DOMAIN deps
  BY <1>1, DependenciesWalkable
<1>4. /\ r.id = id /\ r.clock = clock /\ r.deps = deps[id] /\ r.evidence = declared.evidence
      /\ r.trail = w.trail /\ r.cycle = w.cycle /\ r.decided = d /\ r.code = ReceiptCode(w, d)
      /\ r.passed = (w.code = "PRESENT" /\ \A n \in 1..Len(d) : d[n].code = "ELIGIBLE")
  BY <1>2, ReceiptFields
<1>5. ReplayAgrees(id, deps[id], w.trail, w.cycle, w.code, DependencyCodes)
  BY <1>2, <1>3, WalkAgrees
<1>6. CASE w.code # "PRESENT"
  <2>1. d = <<>> /\ Len(d) = 0 /\ r.code = w.code /\ ~r.passed
    BY <1>2, <1>4, <1>6, EmptySeq DEF ReceiptCode
  <2>2. AssumptionDenied(r)
    <3>1. w.code \in DependencyCodes \cup {"CYCLE"}
      <4>1. w \in WalkState(DependencyCodes)
        BY <1>2, <1>3, WalkConcludes
      <4> QED BY <4>1 DEF WalkState
    <3> QED BY <1>6, <2>1, <3>1 DEF AssumptionDenied, DependencyCodes
  <2>3. ReplayAgrees(r.id, r.deps, r.trail, r.cycle, IF AssumptionDenied(r) THEN r.code ELSE "PRESENT", DependencyCodes)
    BY <1>4, <1>5, <2>1, <2>2
  <2>4. \A n \in 1..Len(r.decided) : r.decided[n].id = Ordered(r.evidence)[n]
    BY <1>4, <2>1
  <2> QED BY <1>4, <2>1, <2>2, <2>3, <2>4 DEF ValidReceipt
<1>7. CASE w.code = "PRESENT"
  <2>1. declared.evidence \in SUBSET Ids /\ d = Decided(held, declared.evidence, clock)
    BY <1>2, <1>7 DEF Declares, EvidenceIds
  <2>2. PICK all, N : all = Ordered(declared.evidence) /\ N = Len(d)
    OBVIOUS
  <2>3. Decides(d, held, declared.evidence, clock)
    BY <2>1, DecidedFacts
  <2>4. /\ N \in Nat /\ d \in Seq(Range(d))
        /\ \A n \in 1..N : /\ d[n].id = all[n]
                           /\ d[n].code = EligibilityCode(all[n], held[all[n]], clock)
                           /\ n < N => d[n].code = "ELIGIBLE"
        /\ \/ N = Cardinality(declared.evidence) /\ \A n \in 1..N : d[n].code = "ELIGIBLE"
           \/ N > 0 /\ d[N].code # "ELIGIBLE"
    BY <2>2, <2>3 DEF Decides
  <2>5. d # <<>> => N \in 1..N
    <3>1. d # <<>> => Len(d) > 0
      BY <2>4, SeqFacts
    <3> QED BY <2>2, <2>4, <3>1
  <2>6. N > 0 => d # <<>> /\ N \in 1..N
    BY <2>2, <2>4, EmptySeq
  <2>7. \A n \in 1..N : d[n].code \notin {"CYCLE", "MISSING", "HISTORY_INVALID"}
    BY <2>4, CodesOfEvidence
  <2>8. r.code = IF d # <<>> /\ (d # <<>> => d[N].code # "ELIGIBLE") THEN d[N].code ELSE "PASS"
    BY <1>4, <1>7, <2>2 DEF ReceiptCode
  <2>9. ~AssumptionDenied(r)
    BY <2>5, <2>7, <2>8 DEF AssumptionDenied
  <2>10. ReplayAgrees(r.id, r.deps, r.trail, r.cycle, IF AssumptionDenied(r) THEN r.code ELSE "PRESENT", DependencyCodes)
    BY <1>4, <1>5, <1>7, <2>9
  <2>11. \A n \in 1..Len(r.decided) : r.decided[n].id = Ordered(r.evidence)[n]
    BY <1>4, <2>2, <2>4
  <2>12. CASE N = Cardinality(declared.evidence) /\ \A n \in 1..N : d[n].code = "ELIGIBLE"
    <3>1. r.passed /\ r.code = "PASS"
      BY <1>4, <1>7, <2>2, <2>5, <2>8, <2>12
    <3> QED BY <1>4, <2>2, <2>10, <2>11, <2>12, <3>1 DEF ValidReceipt
  <2>13. CASE N > 0 /\ d[N].code # "ELIGIBLE"
    <3>1. ~r.passed /\ r.code = d[N].code /\ d # <<>>
      BY <1>4, <1>7, <2>2, <2>6, <2>8, <2>13
    <3>2. \A n \in 1..Len(d) : IF n < Len(d) THEN d[n].code = "ELIGIBLE"
                               ELSE d[n].code # "ELIGIBLE" /\ r.code = d[n].code
      <4> SUFFICES ASSUME NEW n \in 1..N, ~(n < N) PROVE d[n].code # "ELIGIBLE" /\ r.code = d[n].code
        BY <2>2, <2>4
      <4>1. n = N
        BY <2>4
      <4> QED BY <2>13, <3>1, <4>1
    <3> QED BY <1>4, <2>10, <2>11, <3>1, <3>2 DEF ValidReceipt
  <2> QED BY <2>4, <2>12, <2>13
<1> QED BY <1>4, <1>6, <1>7

LEMMA AuthorizationReplays ==
    ASSUME NEW held, Registered(held), NEW id \in Assumptions, NEW by, NEW clock,
           NEW a \in Authorization(held, id, by, clock)
    PROVE  ValidAuthorization(a)
<1>1. PICK receipt : receipt = Receipt(held, id, AssumptionAt(id, held[id]).declared, clock)
  OBVIOUS
<1>2. /\ Proposed(held, id, clock) /\ receipt.passed
      /\ a = [id |-> id, by |-> by, clock |-> clock, prev |-> held[id],
              assumptions |-> AssumptionRoot(held), evidence |-> EvidenceRoot(held), receipt |-> receipt]
  BY <1>1, Zenon DEF Authorization, When
<1>3. ValidReceipt(receipt) /\ receipt.id = id /\ receipt.clock = clock
  BY <1>1, <1>2, ReceiptReplays
<1>4. Len(held[id]) = 1 /\ AssumptionRoot(held)[id] = held[id]
  BY <1>2 DEF Proposed, AssumptionRoot
<1>5. /\ a.id = id /\ a.clock = clock /\ a.prev = held[id] /\ a.assumptions = AssumptionRoot(held)
      /\ a.receipt = receipt
  BY <1>2
<1> QED BY <1>2, <1>3, <1>4, <1>5 DEF ValidAuthorization

LEMMA EvaluationFields ==
    ASSUME NEW held, NEW id, NEW w, NEW evals, NEW ev, ev = WalkEvaluation(held, id, w, evals)
    PROVE  /\ ev.id = id /\ ev.self = "PRESENT" /\ ev.deps = Retained(held, id) /\ ev.trail = w.trail
           /\ ev.cycle = w.cycle /\ ev.calls = w.calls /\ ev.evals = evals
           /\ ev.code = IF w.code # "PRESENT" THEN w.code
                        ELSE IF \E n \in 1..Len(evals) : ~evals[n].allowed THEN "EVIDENCE_DENIED" ELSE "ALLOWED"
BY DEF WalkEvaluation

\* The records of a walk name each node once.
LEMMA TrailInjective ==
    ASSUME NEW gate, NEW deps, NEW w, Kept(w, gate, deps)
    PROVE  IsInjective([n \in 1..Len(w.trail) |-> w.trail[n].id])
BY DEF Kept, IsInjective

\* The evaluations of a record are a prefix of the pairs its nodes declare.
ReadsPairs(evals, pairs) ==
    /\ Len(evals) \in Nat /\ Len(evals) <= Len(pairs)
    /\ \A n \in 1..Len(evals) : /\ evals[n].owner = pairs[n].owner /\ evals[n].id = pairs[n].id
                                /\ n < Len(evals) => evals[n].allowed
    /\ (\A n \in 1..Len(evals) : evals[n].allowed) => Len(evals) = Len(pairs)
    /\ (\E n \in 1..Len(evals) : ~evals[n].allowed) => evals # <<>> /\ ~evals[Len(evals)].allowed

LEMMA EvaluatesReads ==
    ASSUME NEW evals, NEW pairs, NEW held, NEW clock, Evaluates(evals, pairs, held, clock)
    PROVE  ReadsPairs(evals, pairs)
<1>1. PICK N : N = Len(evals)
  OBVIOUS
<1>2. /\ N \in Nat /\ N <= Len(pairs)
      /\ \A n \in 1..N : /\ evals[n].owner = pairs[n].owner /\ evals[n].id = pairs[n].id
                         /\ n < N => evals[n].allowed
      /\ \/ N = Len(pairs) /\ \A n \in 1..N : evals[n].allowed
         \/ N > 0 /\ ~evals[N].allowed
  BY <1>1 DEF Evaluates
<1>3. (\A n \in 1..N : evals[n].allowed) => N = Len(pairs)
  <2>1. N > 0 => N \in 1..N
    BY <1>2
  <2> QED BY <1>2, <2>1
<1>4. (\E n \in 1..N : ~evals[n].allowed) => evals # <<>> /\ ~evals[N].allowed
  <2>1. N > 0 => evals # <<>>
    BY <1>1, EmptySeq
  <2> QED BY <1>2, <2>1
<1> QED BY <1>1, <1>2, <1>3, <1>4 DEF ReadsPairs

LEMMA EvaluationReplays ==
    ASSUME NEW held, Registered(held), NEW id \in Assumptions, NEW clock,
           NEW ev, ev = Evaluation(held, id, clock)
    PROVE  ValidEvaluation(held, ev) /\ ReceiptEdges(ev) = ev.calls
<1>1. PICK gate, deps, self : /\ gate = UseGates(held, clock) /\ deps = DeclaredBy(held)
                              /\ self = UseGate(held, id, clock)
  OBVIOUS
<1>2. PICK w : /\ w = Walk(id, deps[id], gate, deps, UseCodes)
               /\ self # "PRESENT" => ev = GateEvaluation(held, id, self)
               /\ self = "PRESENT" =>
                     ev = WalkEvaluation(held, id, w,
                              IF w.code = "PRESENT"
                              THEN EvidenceEvaluated(held, EvidencePairs(held, NodesAt(id, w.trail, 1..Len(w.trail))), clock)
                              ELSE <<>>)
  BY <1>1, EvaluationParts
<1>3. Walkable(gate, deps, UseCodes) /\ id \in DOMAIN deps /\ Retained(held, id) = deps[id]
  BY <1>1, DependenciesWalkable DEF Retained
<1>4. w \in WalkState(UseCodes) /\ Concludes(w, id, gate, deps)
  BY <1>2, <1>3, WalkConcludes
<1>5. /\ ReplayAgrees(id, deps[id], w.trail, w.cycle, w.code, UseCodes)
      /\ Replay(id, deps[id], w.trail, UseCodes).edges = w.calls
  BY <1>2, <1>3, WalkAgrees
<1>6. IsInjective([n \in 1..Len(w.trail) |-> w.trail[n].id])
  BY <1>4, TrailInjective DEF Concludes
<1>7. CASE self # "PRESENT"
  <2>1. /\ ev.self = self /\ ev.trail = <<>> /\ ev.cycle = <<>> /\ ev.code = self /\ ev.evals = <<>> /\ ev.calls = 0
    BY <1>2, <1>7 DEF GateEvaluation
  <2> QED BY <1>7, <2>1 DEF ValidEvaluation, ReceiptEdges
<1>8. CASE self = "PRESENT"
  <2>1. PICK pairs, evals : /\ pairs = EvidencePairs(held, NodesAt(id, w.trail, 1..Len(w.trail)))
                            /\ evals = IF w.code = "PRESENT" THEN EvidenceEvaluated(held, pairs, clock) ELSE <<>>
    OBVIOUS
  <2>2. /\ ev.id = id /\ ev.self = "PRESENT" /\ ev.deps = deps[id] /\ ev.trail = w.trail
        /\ ev.cycle = w.cycle /\ ev.calls = w.calls /\ ev.evals = evals
        /\ ev.code = IF w.code # "PRESENT" THEN w.code
                     ELSE IF \E n \in 1..Len(evals) : ~evals[n].allowed THEN "EVIDENCE_DENIED" ELSE "ALLOWED"
    <3>1. ev = WalkEvaluation(held, id, w, evals)
      BY <1>2, <1>8, <2>1
    <3> QED BY <1>3, <3>1, EvaluationFields
  <2>3. ReceiptEdges(ev) = ev.calls
    BY <1>5, <2>2 DEF ReceiptEdges
  <2>4. IsInjective([n \in 1..Len(ev.trail) |-> ev.trail[n].id])
    BY <1>6, <2>2
  <2>5. w.code \in UseCodes \cup {"CYCLE"}
    BY <1>4 DEF WalkState
  <2> DEFINE completed == ev.code \in {"ALLOWED", "EVIDENCE_DENIED"}
  <2>6. completed <=> w.code = "PRESENT"
    BY <2>2, <2>5 DEF UseCodes
  <2>7. ReplayAgrees(ev.id, ev.deps, ev.trail, ev.cycle, IF completed THEN "PRESENT" ELSE ev.code, UseCodes)
    <3>1. (IF completed THEN "PRESENT" ELSE ev.code) = w.code
      BY <2>2, <2>6
    <3> QED BY <1>5, <2>2, <3>1
  <2>8. PICK present, expected : /\ present = {n \in 1..Len(ev.trail) : ev.trail[n].code = "PRESENT"}
                                 /\ expected = EvidencePairs(held, NodesAt(ev.id, ev.trail, present))
    OBVIOUS
  <2>9. CASE w.code # "PRESENT"
    <3>1. evals = <<>> /\ ~completed /\ ev.code # "ALLOWED" /\ ev.code # "EVIDENCE_DENIED"
      BY <2>1, <2>6, <2>9
    <3> QED BY <2>2, <2>3, <2>4, <2>7, <3>1 DEF ValidEvaluation
  <2>10. CASE w.code = "PRESENT"
    <3>1. present = 1..Len(w.trail)
      BY <1>4, <2>2, <2>8, <2>10 DEF Concludes
    <3>2. expected = pairs
      BY <2>1, <2>2, <2>8, <3>1
    <3>3. ReadsPairs(evals, pairs)
      <4>1. CoversAll(pairs, held, Reached(deps[id], deps) \cup {id})
        BY <1>1, <1>2, <1>4, <1>8, <2>1, <2>10, WalkedEvidence
      <4>2. Len(pairs) \in Nat
        BY <4>1 DEF CoversAll
      <4>3. Evaluates(evals, pairs, held, clock)
        BY <2>1, <2>10, <4>2, EvaluatedFacts
      <4> QED BY <4>3, EvaluatesReads
    <3>4. completed
      BY <2>6, <2>10
    <3>5. completed => /\ Len(ev.evals) <= Len(expected)
                       /\ \A n \in 1..Len(ev.evals) : /\ ev.evals[n].owner = expected[n].owner
                                                      /\ ev.evals[n].id = expected[n].id
                                                      /\ n < Len(ev.evals) => ev.evals[n].allowed
      BY <2>2, <3>2, <3>3 DEF ReadsPairs
    <3>6. ev.code = "ALLOWED" => /\ Len(ev.evals) = Len(expected)
                                 /\ \A n \in 1..Len(ev.evals) : ev.evals[n].allowed
      <4>1. ev.code = "ALLOWED" => \A n \in 1..Len(evals) : evals[n].allowed
        BY <2>2, <2>10
      <4> QED BY <2>2, <3>2, <3>3, <4>1 DEF ReadsPairs
    <3>7. ev.code = "EVIDENCE_DENIED" => /\ ev.evals # <<>>
                                         /\ ev.evals # <<>> => ~ev.evals[Len(ev.evals)].allowed
      <4>1. ev.code = "EVIDENCE_DENIED" => \E n \in 1..Len(evals) : ~evals[n].allowed
        BY <2>2, <2>10
      <4> QED BY <2>2, <3>3, <4>1 DEF ReadsPairs
    <3> HIDE DEF completed
    <3>8. ValidEvaluation(held, ev)
      <4> USE DEF completed
      <4> QED BY <2>2, <2>4, <2>7, <2>8, <3>4, <3>5, <3>6, <3>7, Zenon DEF ValidEvaluation
    <3> QED BY <2>3, <3>8
  <2> QED BY <2>9, <2>10
<1> QED BY <1>7, <1>8

\* The records of a decision replay, and the work it claims is what its walks did.
DecisionReplays(d, held) ==
    /\ \A ev \in d.evaluations : ValidEvaluation(held, ev)
    /\ d.work.edges = SumFunction([ev \in d.evaluations |-> ev.calls])

LEMMA DecisionAccepted ==
    ASSUME NEW held, Registered(held), NEW binding, binding.required \subseteq Assumptions,
           NEW d \in UseDecision(held, binding)
    PROVE  DecisionReplays(d, held)
<1>1. PICK evs : /\ evs = {Evaluation(held, id, binding.clock) : id \in binding.required}
                 /\ d = [binding |-> binding, evaluations |-> evs, work |-> Work(held, evs),
                         admissible |-> \A ev \in evs : ev.code = "ALLOWED"]
  BY DecisionParts
<1>2. d.evaluations = evs /\ d.work = Work(held, evs)
  BY <1>1
<1>3. \A ev \in evs : ValidEvaluation(held, ev) /\ ReceiptEdges(ev) = ev.calls
  <2> SUFFICES ASSUME NEW ev \in evs PROVE ValidEvaluation(held, ev) /\ ReceiptEdges(ev) = ev.calls
    OBVIOUS
  <2>1. PICK id \in binding.required : ev = Evaluation(held, id, binding.clock)
    BY <1>1
  <2>2. id \in Assumptions
    OBVIOUS
  <2> QED BY <2>1, <2>2, EvaluationReplays
<1>4. [ev \in evs |-> ReceiptEdges(ev)] = [ev \in evs |-> ev.calls]
  BY <1>3
<1>5. Work(held, evs).edges = SumFunction([ev \in evs |-> ReceiptEdges(ev)])
  BY DEF Work
<1> QED BY <1>2, <1>3, <1>4, <1>5 DEF DecisionReplays

\* A model that was just admitted: what is left, and the authorization.
JustAdmitted(left, a, id, by, clock, receipt) ==
    /\ Len(models[id]) = 1 /\ a.id = id /\ a.by = by /\ a.clock = clock /\ a.receipt = receipt
    /\ a.prev = models[id] /\ a.root = models
    /\ left = [models EXCEPT ![id] = Append(@, ModelAdmitEvent(a))]

LEMMA FirstAdmission ==
    ASSUME NEW id, NEW by, NEW clock, NEW receipt, NEW done \in GovernedModelAdmit(models, id, by, clock, receipt, {})
    PROVE  JustAdmitted(done.held, done.authorization, id, by, clock, receipt)
<1>1. ~AdmittedModel(models, id)
  <2>1. AdmittedModel(models, id) => GovernedModelAdmit(models, id, by, clock, receipt, {}) = {}
    BY DEF GovernedModelAdmit
  <2> QED BY <2>1
<1>2. PICK a \in ModelAuthorization(models, id, by, clock, receipt) :
         done = [applied |-> TRUE, authorization |-> a,
                 held |-> [models EXCEPT ![id] = Append(@, ModelAdmitEvent(a))]]
  BY <1>1 DEF GovernedModelAdmit
<1>3. PICK m : a \in When(/\ ProposedModel(models, id, clock)
                          /\ receipt.material
                          /\ receipt.shadow = m.declared.graph
                          /\ receipt.difference = m.declared.difference,
                          [id |-> id, by |-> by, clock |-> clock, prev |-> models[id], root |-> models,
                           receipt |-> receipt])
  BY <1>2, Zenon DEF ModelAuthorization
<1>4. /\ ProposedModel(models, id, clock)
      /\ a = [id |-> id, by |-> by, clock |-> clock, prev |-> models[id], root |-> models, receipt |-> receipt]
  BY <1>3, Zenon DEF When
<1>5. Len(models[id]) = 1
  BY <1>4 DEF ProposedModel
<1>6. /\ a.id = id /\ a.by = by /\ a.clock = clock /\ a.receipt = receipt
      /\ a.prev = models[id] /\ a.root = models
  BY <1>4
<1>7. done.held = [models EXCEPT ![id] = Append(@, ModelAdmitEvent(a))] /\ done.authorization = a
  BY <1>2
<1> QED BY <1>5, <1>6, <1>7 DEF JustAdmitted

\* The answer to the second call.
AnsweredAgain(again, held, left) ==
    /\ again # {} <=> held = left
    /\ \A r \in again : ~r.applied /\ r.held = left

LEMMA SecondAdmission ==
    ASSUME RegisteredModels(models), NEW id \in Models, NEW by, NEW clock, NEW receipt, NEW left, NEW a,
           JustAdmitted(left, a, id, by, clock, receipt), NEW held \in Later(left, clock)
    PROVE  AnsweredAgain(GovernedModelAdmit(held, id, by, clock, receipt, {a}), held, left)
<1>1. PICK h, e, new : h = models[id] /\ e = ModelAdmitEvent(a) /\ new = Append(h, e)
  OBVIOUS
<1>2. /\ Len(h) = 1 /\ a.id = id /\ a.by = by /\ a.clock = clock /\ a.receipt = receipt
      /\ a.prev = h /\ a.root = models /\ left = [models EXCEPT ![id] = new] /\ e.op = "ADMIT"
  BY <1>1 DEF JustAdmitted, ModelAdmitEvent
<1>3. models = [x \in Models |-> models[x]] /\ \A x \in Models : models[x] \in Seq(Range(models[x]))
  BY DEF RegisteredModels, History
<1>4. /\ h \in Seq(Range(h)) /\ Len(new) = 2 /\ new[1] = h[1] /\ new[2] = e /\ new \in Seq(Range(new))
  BY <1>1, <1>2, <1>3, AppendFacts
<1>5. DOMAIN left = Models /\ left[id] = new /\ \A x \in Models : x # id => left[x] = models[x]
  BY <1>2, <1>3
<1>6. PICK again : again = GovernedModelAdmit(held, id, by, clock, receipt, {a})
  OBVIOUS
<1>7. CASE held = left
  <2>1. AdmittedModel(held, id)
    BY <1>2, <1>4, <1>5, <1>7 DEF AdmittedModel
  <2>2. SubSeq(new, 1, 1) = h
    <3>1. PICK S : S = Range(new)
      OBVIOUS
    <3>2. new \in Seq(S) /\ 1 \in Int /\ \A n \in 1..1 : new[n] \in S
      <4>1. new \in Seq(Range(new))
        BY <1>4
      <4>2. \A n \in 1..Len(new) : new[n] \in Range(new)
        BY <4>1, SeqFacts
      <4>3. new[1] \in Range(new)
        BY <1>4, <4>2
      <4> QED BY <3>1, <4>1, <4>3
    <3>3. PICK q : q = SubSeq(new, 1, 1)
      OBVIOUS
    <3>4. q \in Seq(S) /\ Len(q) = 1 /\ q[1] = new[1]
      <4>1. q \in Seq(S) /\ Len(q) = (IF 1 <= 1 THEN 1 - 1 + 1 ELSE 0)
            /\ \A n \in 1..(1 - 1 + 1) : q[n] = new[1 + n - 1]
        BY <3>2, <3>3, SubSeqProperties
      <4> QED BY <4>1
    <3>5. q = h
      <4>1. h \in Seq(Range(h)) /\ Len(h) = Len(q) /\ \A n \in 1..Len(q) : q[n] = h[n]
        BY <1>2, <1>4, <3>4
      <4>2. h \in [1..1 -> Range(h)] /\ q \in [1..1 -> S]
        BY <1>2, <1>4, <3>4, LenProperties
      <4>3. DOMAIN h = 1..1 /\ DOMAIN q = 1..1 /\ h = [n \in 1..1 |-> h[n]] /\ q = [n \in 1..1 |-> q[n]]
        BY <4>2
      <4>4. \A n \in 1..1 : h[n] = q[n]
        BY <1>2, <4>1
      <4> QED BY <4>3, <4>4
    <3> QED BY <3>3, <3>5
  <2>3. [held EXCEPT ![id] = SubSeq(@, 1, 1)] = a.root
    <3>1. PICK back : back = [held EXCEPT ![id] = h]
      OBVIOUS
    <3>2. [held EXCEPT ![id] = SubSeq(@, 1, 1)] = back
      BY <1>5, <1>7, <2>2, <3>1
    <3>3. back = [x \in Models |-> IF x = id THEN h ELSE held[x]]
      BY <1>5, <1>7, <3>1
    <3>4. \A x \in Models : (IF x = id THEN h ELSE held[x]) = models[x]
      BY <1>1, <1>5, <1>7
    <3>5. back = [x \in Models |-> models[x]]
      BY <3>3, <3>4
    <3> QED BY <1>2, <1>3, <3>2, <3>5
  <2>4. RetryMatches(held, a, id, by, clock, receipt)
    BY <1>1, <1>2, <1>5, <1>7, <2>3 DEF RetryMatches
  <2>5. again = {[applied |-> FALSE, authorization |-> b, held |-> held] :
                    b \in {b \in {a} : RetryMatches(held, b, id, by, clock, receipt)}}
    BY <1>6, <2>1 DEF GovernedModelAdmit
  <2>6. PICK r : r = [applied |-> FALSE, authorization |-> a, held |-> held]
    OBVIOUS
  <2>7. again = {r}
    BY <2>4, <2>5, <2>6, Zenon
  <2>8. ~r.applied /\ r.held = left
    BY <1>7, <2>6
  <2> QED BY <1>6, <1>7, <2>7, <2>8 DEF AnsweredAgain
<1>8. CASE held # left
  <2>1. PICK x, y : x \in Models /\ held = [left EXCEPT ![x] = Append(@, y)]
    <3>1. held \in {[left EXCEPT ![z] = Append(@, u)] : z \in Models, u \in {u \in ModelIntents : u.clock > clock}}
      BY <1>8 DEF Later
    <3> QED BY <3>1
  <2>2. held[x] = Append(left[x], y) /\ \A z \in Models : z # x => held[z] = left[z]
    BY <1>5, <2>1
  <2>3. again = {}
    <3>1. CASE x = id
      <4>1. Len(held[id]) = 3
        <5>1. held[id] = Append(new, y)
          BY <1>5, <2>2, <3>1
        <5>2. new \in Seq(Range(new))
          BY <1>4
        <5>3. Len(Append(new, y)) = Len(new) + 1
          BY <5>2, AppendFacts
        <5> QED BY <1>4, <5>1, <5>3
      <4>2. ~AdmittedModel(held, id) /\ ~ProposedModel(held, id, clock)
        BY <4>1 DEF AdmittedModel, ProposedModel
      <4>3. ModelAuthorization(held, id, by, clock, receipt) = {}
        <5>1. \A m : When(/\ ProposedModel(held, id, clock)
                          /\ receipt.material
                          /\ receipt.shadow = m.declared.graph
                          /\ receipt.difference = m.declared.difference,
                          [id |-> id, by |-> by, clock |-> clock, prev |-> held[id], root |-> held,
                           receipt |-> receipt]) = {}
          BY <4>2, Zenon DEF When
        <5> QED BY <5>1, Zenon DEF ModelAuthorization
      <4> QED BY <1>6, <4>2, <4>3 DEF GovernedModelAdmit
    <3>2. CASE x # id
      <4>1. AdmittedModel(held, id)
        BY <1>2, <1>4, <1>5, <2>2, <3>2 DEF AdmittedModel
      <4>2. ~RetryMatches(held, a, id, by, clock, receipt)
        <5>1. PICK back : back = [held EXCEPT ![id] = SubSeq(@, 1, 1)]
          OBVIOUS
        <5>2. back[x] = Append(models[x], y)
          BY <1>5, <2>1, <2>2, <3>2, <5>1
        <5>3. Len(back[x]) = Len(models[x]) + 1 /\ Len(models[x]) \in Nat
          BY <1>3, <5>2, AppendFacts, SeqFacts
        <5>4. back # models
          BY <5>3
        <5> QED BY <1>2, <5>1, <5>4 DEF RetryMatches
      <4>3. again = {[applied |-> FALSE, authorization |-> b, held |-> held] :
                        b \in {b \in {a} : RetryMatches(held, b, id, by, clock, receipt)}}
        BY <1>6, <4>1 DEF GovernedModelAdmit
      <4> QED BY <4>2, <4>3
    <3> QED BY <3>1, <3>2
  <2> QED BY <1>6, <1>8, <2>3 DEF AnsweredAgain
<1> QED BY <1>7, <1>8

\* Every record accepts what its producer computed: the replay of a receipt and of
\* an evaluation ends as its walk ended, an authorization accepts its receipt and
\* roots, the work a decision claims is the work of its walks, and a model's
\* admission is accepted again exactly while the registry is what it left.
THEOREM RecordsReplayed == Spec => []RecordsReplay
<1> DEFINE Rule1 == Asked("admission") => /\ Proposed(hs, answer.id, answer.clock) /\ answer.id \in Assumptions
                                          /\ answer.receipt = Receipt(hs, answer.id, AssumptionAt(answer.id, hs[answer.id]).declared, answer.clock)
           Rule2 == Asked("use") => DecisionReplays(answer.decision, hs)
           Rule3 == Asked("model_admission") => AnsweredAgain(answer.again, answer.held, answer.left)
           Rule == Rule1 /\ Rule2 /\ Rule3
<1>1. Init => Rule
  BY DEF Init, Asked
<1>2. Held /\ Rule /\ [Next]_vars => Rule'
  <2> SUFFICES ASSUME Held, Rule, [Next]_vars PROVE Rule'
    OBVIOUS
  <2>1. CASE UNCHANGED vars
    BY <2>1 DEF vars, Asked
  <2>2. ASSUME NEW id \in Assumptions, NEW clock, Validate(id, clock), Next PROVE Rule'
    <3>1. hs' = hs /\ Proposed(hs, id, clock)
      BY <2>2 DEF Validate
    <3>2. PICK r : /\ r = Receipt(hs, id, AssumptionAt(id, hs[id]).declared, clock)
                   /\ answer' = [to |-> "admission", id |-> id, clock |-> clock, receipt |-> r]
      BY <2>2 DEF Validate
    <3>3. answer'.receipt = r /\ answer'.id = id /\ answer'.clock = clock /\ answer'.to = "admission"
      BY <3>2
    <3> QED BY <3>1, <3>2, <3>3 DEF Asked
  <2>3. ASSUME NEW required \in Required, NEW clock \in Clocks, EvaluateUse(required, clock), Next PROVE Rule'
    <3>1. hs' = hs
      BY <2>3 DEF EvaluateUse
    <3>2. PICK binding : binding = [required |-> required, clock |-> clock,
                                    assumptions |-> AssumptionRoot(hs), evidence |-> EvidenceRoot(hs)]
      OBVIOUS
    <3>3. PICK d : /\ d \in UseDecision(hs, binding)
                   /\ answer' = [to |-> "use", clock |-> clock, decision |-> d]
      BY <2>3, <3>2, Zenon DEF EvaluateUse
    <3>4. binding.required \subseteq Assumptions
      BY <3>2, RequestsAssumption
    <3>5. DecisionReplays(d, hs)
      BY <3>3, <3>4, HeldRegistered, DecisionAccepted
    <3>6. answer'.decision = d /\ answer'.to = "use"
      BY <3>3
    <3> QED BY <3>1, <3>5, <3>6 DEF Asked
  <2>4. ASSUME NEW id \in Models, NEW clock, NEW receipt, AdmitTwice(id, receipt, clock), Next PROVE Rule'
    <3>1. PICK done \in GovernedModelAdmit(models, id, ExpiryAuthority, clock, receipt, {}) :
          \E held \in Later(done.held, clock) :
             answer' = [to |-> "model_admission", id |-> id, left |-> done.held, held |-> held,
                        again |-> GovernedModelAdmit(held, id, ExpiryAuthority, clock, receipt, {done.authorization})]
      BY <2>4, Zenon DEF AdmitTwice
    <3>2. PICK left, a : left = done.held /\ a = done.authorization
      OBVIOUS
    <3>3. PICK held \in Later(left, clock) :
             answer' = [to |-> "model_admission", id |-> id, left |-> left, held |-> held,
                        again |-> GovernedModelAdmit(held, id, ExpiryAuthority, clock, receipt, {a})]
      BY <3>1, <3>2
    <3>4. JustAdmitted(left, a, id, ExpiryAuthority, clock, receipt)
      BY <3>2, FirstAdmission
    <3>5. PICK again : again = GovernedModelAdmit(held, id, ExpiryAuthority, clock, receipt, {a})
      OBVIOUS
    <3>6. AnsweredAgain(again, held, left)
      BY <3>3, <3>4, <3>5, HeldRegistered, SecondAdmission
    <3>7. answer'.again = again /\ answer'.held = held /\ answer'.left = left /\ answer'.to = "model_admission"
      BY <3>3, <3>5
    <3> QED BY <3>6, <3>7 DEF Asked
  <2>5. CASE Next /\ answer'.to \notin {"admission", "use", "model_admission"}
    BY <2>5 DEF Asked
  <2> QED BY <2>1, <2>2, <2>3, <2>4, <2>5, OneQuestion
<1>3. Held /\ Rule => RecordsReplay
  <2> SUFFICES ASSUME Held, Rule PROVE RecordsReplay
    OBVIOUS
  <2>1. Registered(hs)
    BY HeldRegistered
  <2>2. ASSUME Asked("admission")
        PROVE  /\ ValidReceipt(answer.receipt)
               /\ \A p \in Authorization(hs, answer.id, ExpiryAuthority, answer.clock) : ValidAuthorization(p)
    BY <2>1, <2>2, ReceiptReplays, AuthorizationReplays
  <2>3. ASSUME Asked("use")
        PROVE  /\ \A ev \in answer.decision.evaluations : ValidEvaluation(hs, ev)
               /\ answer.decision.work.edges = SumFunction([ev \in answer.decision.evaluations |-> ev.calls])
    BY <2>3 DEF DecisionReplays
  <2>4. ASSUME Asked("model_admission")
        PROVE  /\ answer.again # {} <=> answer.held = answer.left
               /\ \A r \in answer.again : ~r.applied /\ r.held = answer.left
    BY <2>4 DEF AnsweredAgain
  <2> QED BY <2>2, <2>3, <2>4 DEF RecordsReplay
<1> HIDE DEF Rule
<1> QED BY <1>1, <1>2, <1>3, HeldAlways, PTL DEF Spec

-----------------------------------------------------------------------------
(* The impact of an event: whatever reaches its entity.                    *)

Rounds(A, id)      == [affected : SUBSET A, frontier : SUBSET (A \cup {id})]
Ring(s, deps)      == {x \in DOMAIN deps \ s.affected : deps[x] \cap s.frontier # {}}
Outwards(s, deps)  == [affected |-> s.affected \cup Ring(s, deps), frontier |-> Ring(s, deps)]

\* D is what is found from id when the frontier has moved N times.
MovesTo(D, id, deps, N) ==
    \E f \in [0..N -> Rounds(DOMAIN deps, id)] :
        /\ f[0].affected = {} /\ f[0].frontier = {id}
        /\ \A n \in 1..N : /\ f[n].affected = f[n - 1].affected \cup Ring(f[n - 1], deps)
                           /\ f[n].frontier = Ring(f[n - 1], deps)
        /\ D = f[N].affected

LEMMA DependentsRounds ==
    ASSUME NEW id, NEW deps, NEW N \in Nat, N = Cardinality(DOMAIN deps)
    PROVE  MovesTo(Dependents(id, deps), id, deps, N)
<1>1. PICK A, S : A = DOMAIN deps /\ S = Rounds(A, id)
  OBVIOUS
<1>2. PICK start : start = [affected |-> {}, frontier |-> {id}]
  OBVIOUS
<1>3. start \in S /\ start.affected = {} /\ start.frontier = {id}
  BY <1>1, <1>2 DEF Rounds
<1>4. \A s \in S : /\ Outwards(s, deps) \in S
                   /\ Outwards(s, deps).affected = s.affected \cup Ring(s, deps)
                   /\ Outwards(s, deps).frontier = Ring(s, deps)
  <2> SUFFICES ASSUME NEW s \in S
               PROVE  /\ Outwards(s, deps) \in S
                      /\ Outwards(s, deps).affected = s.affected \cup Ring(s, deps)
                      /\ Outwards(s, deps).frontier = Ring(s, deps)
    OBVIOUS
  <2>1. Ring(s, deps) \in SUBSET A
    BY <1>1 DEF Ring
  <2> QED BY <1>1, <2>1 DEF Outwards, Rounds
<1>5. PICK G : G = [s \in S |-> Outwards(s, deps)]
  OBVIOUS
<1>6. G \in [S -> S]
  BY <1>4, <1>5
<1>7. PICK g \in [0..N -> S] : g[0] = start /\ \A n \in 1..N : g[n] = G[g[n - 1]]
  <2>1. Iterated(S, start, G, N)
    BY <1>3, <1>6, Iterates
  <2> QED BY <2>1 DEF Iterated
<1>8. \A n \in 1..N : n - 1 \in 0..N /\ g[n - 1] \in S /\ g[n] = Outwards(g[n - 1], deps)
  <2> SUFFICES ASSUME NEW n \in 1..N
               PROVE  n - 1 \in 0..N /\ g[n - 1] \in S /\ g[n] = Outwards(g[n - 1], deps)
    OBVIOUS
  <2>1. n - 1 \in 0..N /\ g[n - 1] \in S /\ g[n] = G[g[n - 1]]
    BY <1>7
  <2> QED BY <1>5, <2>1
<1> DEFINE Body(f) == [n \in 0..N |-> IF n = 0 THEN start ELSE Outwards(f[n - 1], deps)]
<1>9. g = Body(g)
  <2>1. \A n \in 0..N : g[n] = IF n = 0 THEN start ELSE Outwards(g[n - 1], deps)
    BY <1>7, <1>8
  <2> QED BY <1>7, <2>1
<1>10. PICK f : f = CHOOSE any : any = Body(any)
  OBVIOUS
<1>11. f = Body(f)
  <2> HIDE DEF Body
  <2> QED BY <1>9, <1>10
<1>12. Dependents(id, deps) = f[N].affected
  BY <1>2, <1>10 DEF Dependents, Outwards, Ring
<1>13. f[0] = start /\ \A n \in 1..N : f[n] = Outwards(f[n - 1], deps)
  BY <1>11
<1> DEFINE Bad == {n \in 0..N : f[n] # g[n]}
<1>14. Bad = {}
  <2> SUFFICES ASSUME Bad # {} PROVE FALSE
    OBVIOUS
  <2>1. PICK n \in Bad : \A k \in Bad : n <= k
    <3>1. Bad \in SUBSET Nat
      OBVIOUS
    <3> HIDE DEF Bad
    <3> QED BY <3>1, LeastMember
  <2>2. n \in 0..N /\ f[n] # g[n] /\ n # 0
    BY <1>7, <1>13, <2>1
  <2>3. n \in 1..N /\ n - 1 \in 0..N /\ ~(n <= n - 1)
    BY <2>2
  <2>4. f[n - 1] = g[n - 1]
    BY <2>1, <2>3
  <2> QED BY <1>8, <1>13, <2>2, <2>3, <2>4
<1>15. N \in 0..N
  OBVIOUS
<1>16. Dependents(id, deps) = g[N].affected
  BY <1>12, <1>14, <1>15
<1>17. \A n \in 1..N : /\ g[n].affected = g[n - 1].affected \cup Ring(g[n - 1], deps)
                       /\ g[n].frontier = Ring(g[n - 1], deps)
  BY <1>4, <1>8
<1> QED BY <1>1, <1>3, <1>7, <1>16, <1>17 DEF MovesTo

\* What has been found reaches id, and whatever needs an identity whose turn has
\* passed is found: when the frontier is empty nothing is missing.
LEMMA DependentsExact ==
    ASSUME NEW deps, DOMAIN deps \in SUBSET Ids, Within(deps), NEW id
    PROVE  Dependents(id, deps) = {x \in DOMAIN deps : id \in Reached(deps[x], deps)}
<1>1. PICK A \in SUBSET Ids : A = DOMAIN deps
  OBVIOUS
<1>2. PICK N \in Nat : N = Cardinality(A)
  BY IdsFinite, FS_CardinalityType
<1>3. PICK f \in [0..N -> Rounds(A, id)] :
         /\ f[0].affected = {} /\ f[0].frontier = {id}
         /\ \A n \in 1..N : /\ f[n].affected = f[n - 1].affected \cup Ring(f[n - 1], deps)
                            /\ f[n].frontier = Ring(f[n - 1], deps)
         /\ Dependents(id, deps) = f[N].affected
  <2>1. MovesTo(Dependents(id, deps), id, deps, N)
    BY <1>1, <1>2, DependentsRounds
  <2> QED BY <1>1, <2>1 DEF MovesTo
<1>4. PICK T : T = {x \in A : id \in Reached(deps[x], deps)}
  OBVIOUS
<1>5. \A x \in A : /\ deps[x] \in SUBSET Ids /\ deps[x] \subseteq Reached(deps[x], deps)
                   /\ Closed(Reached(deps[x], deps), deps)
                   /\ \A U : deps[x] \subseteq U /\ Closed(U, deps) => Reached(deps[x], deps) \subseteq U
  <2> SUFFICES ASSUME NEW x \in A
               PROVE  /\ deps[x] \in SUBSET Ids /\ deps[x] \subseteq Reached(deps[x], deps)
                      /\ Closed(Reached(deps[x], deps), deps)
                      /\ \A U : deps[x] \subseteq U /\ Closed(U, deps) => Reached(deps[x], deps) \subseteq U
    OBVIOUS
  <2>1. PICK S \in SUBSET Ids : S = deps[x]
    BY <1>1 DEF Within
  <2> QED BY <2>1, ReachedFacts
<1>6. \A x \in A : id \in deps[x] \/ deps[x] \cap T # {} => x \in T
  <2> SUFFICES ASSUME NEW x \in A, NEW y \in deps[x], y = id \/ y \in T PROVE id \in Reached(deps[x], deps)
    BY <1>4
  <2>1. PICK R : R = Reached(deps[x], deps)
    OBVIOUS
  <2>2. y \in R /\ Closed(R, deps)
    BY <1>5, <2>1
  <2>3. CASE y # id
    <3>1. y \in A /\ id \in Reached(deps[y], deps) /\ deps[y] \subseteq R
      BY <1>1, <1>4, <2>2, <2>3 DEF Closed
    <3> QED BY <1>5, <2>1, <2>2, <3>1
  <2> QED BY <2>1, <2>2, <2>3
<1>7. \A n \in 0..N : f[n].affected \in SUBSET A /\ f[n].frontier \in SUBSET (A \cup {id})
  BY <1>3 DEF Rounds
<1> DEFINE Done(a, w, n) == /\ a \subseteq T /\ w \subseteq a \cup {id}
                            /\ \A x \in A : deps[x] \cap ((a \cup {id}) \ w) # {} => x \in a
                            /\ w = {} \/ n <= Cardinality(a)
           Rule(n) == Done(f[n].affected, f[n].frontier, n)
           Bad == {n \in 0..N : ~Rule(n)}
<1>8. \A S \in SUBSET A : Cardinality(S) \in Nat /\ Cardinality(S) <= N /\ (Cardinality(S) = N => S = A)
  <2> SUFFICES ASSUME NEW S \in SUBSET A
               PROVE  Cardinality(S) \in Nat /\ Cardinality(S) <= N /\ (Cardinality(S) = N => S = A)
    OBVIOUS
  <2>1. IsFiniteSet(A) /\ IsFiniteSet(S)
    BY IdsFinite
  <2> QED BY <1>2, <2>1, FS_Subset, FS_CardinalityType
<1>9. \A S, Q \in SUBSET A : S \subseteq Q /\ S # Q => Cardinality(Q) >= Cardinality(S) + 1
  <2> SUFFICES ASSUME NEW S \in SUBSET A, NEW Q \in SUBSET A, S \subseteq Q, S # Q
               PROVE  Cardinality(Q) >= Cardinality(S) + 1
    OBVIOUS
  <2>1. IsFiniteSet(Q)
    BY IdsFinite
  <2>2. Cardinality(S) <= Cardinality(Q) /\ Cardinality(S) # Cardinality(Q)
    BY <2>1, FS_Subset
  <2> QED BY <1>8, <2>2
<1>10. Bad = {}
  <2> SUFFICES ASSUME Bad # {} PROVE FALSE
    OBVIOUS
  <2>1. PICK n \in Bad : \A k \in Bad : n <= k
    <3>1. Bad \in SUBSET Nat
      OBVIOUS
    <3> HIDE DEF Bad
    <3> QED BY <3>1, LeastMember
  <2>2. n \in 0..N /\ ~Rule(n)
    BY <2>1
  <2>3. n # 0
    <3>1. Done({}, {id}, 0)
      BY <1>8
    <3>2. Rule(0)
      <4> HIDE DEF Done
      <4> QED BY <1>3, <3>1
    <3> QED BY <2>2, <3>2
  <2>4. n \in 1..N /\ n - 1 \in 0..N /\ ~(n <= n - 1)
    BY <2>2, <2>3
  <2>5. Rule(n - 1)
    <3> HIDE DEF Rule
    <3> QED BY <2>1, <2>4
  <2>6. PICK a, w, b, r : /\ a = f[n - 1].affected /\ w = f[n - 1].frontier
                          /\ b = f[n].affected /\ r = f[n].frontier
    OBVIOUS
  <2>7. /\ a \in SUBSET A /\ w \in SUBSET (A \cup {id}) /\ b \in SUBSET A
        /\ r = {x \in A \ a : deps[x] \cap w # {}} /\ b = a \cup r
    BY <1>1, <1>3, <1>7, <2>4, <2>6 DEF Ring
  <2>8. Done(a, w, n - 1)
    <3> HIDE DEF Done
    <3> QED BY <2>5, <2>6
  <2>9. b \subseteq T
    <3>1. \A x \in r : x \in A /\ (id \in deps[x] \/ deps[x] \cap T # {})
      BY <2>7, <2>8
    <3> QED BY <1>6, <2>7, <2>8, <3>1
  <2>10. \A x \in A : deps[x] \cap ((b \cup {id}) \ r) # {} => x \in b
    BY <2>7, <2>8
  <2>11. r = {} \/ n <= Cardinality(b)
    <3> SUFFICES ASSUME r # {} PROVE n <= Cardinality(b)
      OBVIOUS
    <3>1. w # {} /\ a \subseteq b /\ a # b
      BY <2>7
    <3>2. Cardinality(b) >= Cardinality(a) + 1 /\ Cardinality(a) \in Nat /\ Cardinality(b) \in Nat
      BY <1>8, <1>9, <2>7, <3>1
    <3> QED BY <2>4, <2>8, <3>1, <3>2
  <2>12. Done(b, r, n)
    BY <2>7, <2>9, <2>10, <2>11
  <2>13. Rule(n)
    <3> HIDE DEF Done
    <3> QED BY <2>6, <2>12
  <2> QED BY <2>2, <2>13
<1>11. PICK D, w : D = f[N].affected /\ w = f[N].frontier
  OBVIOUS
<1>12. D \in SUBSET A /\ Done(D, w, N)
  <2>1. N \in 0..N
    OBVIOUS
  <2>2. Rule(N)
    <3> HIDE DEF Rule
    <3> QED BY <1>10, <2>1
  <2> HIDE DEF Done
  <2> QED BY <1>7, <1>11, <2>1, <2>2
<1>13. \A x \in A : deps[x] \cap (D \cup {id}) # {} => x \in D
  <2>1. CASE w = {}
    BY <1>12, <2>1
  <2>2. CASE N <= Cardinality(D)
    <3>1. Cardinality(D) \in Nat /\ Cardinality(D) <= N
      BY <1>8, <1>12
    <3>2. D = A
      BY <1>8, <1>12, <2>2, <3>1
    <3> QED BY <3>2
  <2> QED BY <1>12, <2>1, <2>2
<1>14. T \subseteq D
  <2> SUFFICES ASSUME NEW x \in T, x \notin D PROVE FALSE
    OBVIOUS
  <2>1. PICK U : U = Ids \ (D \cup {id})
    OBVIOUS
  <2>2. \A y \in A \ D : deps[y] \subseteq U
    BY <1>5, <1>13, <2>1
  <2>3. Closed(U, deps)
    BY <1>1, <2>1, <2>2 DEF Closed
  <2>4. x \in A /\ id \in Reached(deps[x], deps) /\ deps[x] \subseteq U
    BY <1>4, <2>2
  <2>5. Reached(deps[x], deps) \subseteq U
    BY <1>5, <2>3, <2>4
  <2> QED BY <2>1, <2>4, <2>5
<1> QED BY <1>1, <1>3, <1>4, <1>11, <1>12, <1>14

-----------------------------------------------------------------------------
(* The folds of projections, and of histories one event longer.            *)

\* What the events of a projection lead through, one after the other.
RunsThrough(f, t, events) ==
    /\ f[0] = {t}
    /\ \A n \in 1..Len(events) : f[n] = UNION {Apply(s, events[n]) : s \in f[n - 1]}
    /\ Applied(t, events) = f[Len(events)]

LEMMA AppliedFold ==
    ASSUME NEW t, NEW events, Len(events) \in Nat
    PROVE  \E f : RunsThrough(f, t, events)
<1> DEFINE From(S, n)  == UNION {Apply(s, events[n]) : s \in S}
           Body(g, N) == [n \in 0..N |-> IF n = 0 THEN {t} ELSE From(g[n - 1], n)]
           Bad         == {N \in Nat : ~ \E g : g = Body(g, N)}
<1>1. Bad = {}
  <2> SUFFICES ASSUME Bad # {} PROVE FALSE
    OBVIOUS
  <2>1. PICK N \in Bad : \A m \in Bad : N <= m
    BY LeastMember
  <2> HIDE DEF From
  <2>2. CASE N = 0
    <3> DEFINE g == [n \in 0..0 |-> {t}]
    <3>1. g = Body(g, 0)
      OBVIOUS
    <3> QED BY <2>1, <2>2, <3>1
  <2>3. CASE N # 0
    <3>1. N - 1 \in Nat /\ ~(N <= N - 1)
      BY <2>1, <2>3
    <3>2. PICK g : g = Body(g, N - 1)
      BY <2>1, <3>1
    <3> DEFINE k == [n \in 0..N |-> IF n = N THEN From(g[N - 1], N) ELSE g[n]]
    <3>3. \A n \in 0..(N - 1) : n # N /\ n \in 0..N /\ k[n] = g[n]
      BY <3>1
    <3>4. ASSUME NEW n \in 0..N PROVE k[n] = IF n = 0 THEN {t} ELSE From(k[n - 1], n)
      <4>1. CASE n = N
        <5>1. N - 1 \in 0..(N - 1) /\ k[N] = From(g[N - 1], N)
          BY <3>1
        <5> HIDE DEF k
        <5> QED BY <2>3, <3>3, <4>1, <5>1
      <4>2. CASE n # N /\ n # 0
        <5>1. n \in 0..(N - 1) /\ n - 1 \in 0..(N - 1)
          BY <3>1, <4>2
        <5>2. g[n] = Body(g, N - 1)[n]
          <6> HIDE DEF Body
          <6> QED BY <3>2
        <5>3. g[n] = From(g[n - 1], n)
          BY <4>2, <5>1, <5>2
        <5> HIDE DEF k
        <5> QED BY <3>3, <4>2, <5>1, <5>3
      <4>3. CASE n # N /\ n = 0
        <5>1. 0 \in 0..(N - 1) /\ g[0] = Body(g, N - 1)[0]
          <6> HIDE DEF Body
          <6> QED BY <3>1, <3>2
        <5>2. g[0] = {t}
          BY <5>1
        <5> HIDE DEF k
        <5> QED BY <3>3, <4>3, <5>1, <5>2
      <4> QED BY <4>1, <4>2, <4>3
    <3>5. k = Body(k, N)
      <4>1. k = [n \in 0..N |-> k[n]]
        OBVIOUS
      <4> HIDE DEF k
      <4> QED BY <3>4, <4>1
    <3> HIDE DEF k, Body
    <3> QED BY <2>1, <3>5
  <2> QED BY <2>2, <2>3
<1> DEFINE f == CHOOSE g : g = Body(g, Len(events))
<1>2. Applied(t, events) = f[Len(events)]
  BY DEF Applied
<1>3. f = Body(f, Len(events))
  <2>1. \E g : g = Body(g, Len(events))
    <3> HIDE DEF Body
    <3> QED BY <1>1
  <2> HIDE DEF Body
  <2> QED BY <2>1
<1> HIDE DEF f, From
<1>4. \A n \in 0..Len(events) : f[n] = IF n = 0 THEN {t} ELSE From(f[n - 1], n)
  <2> SUFFICES ASSUME NEW n \in 0..Len(events) PROVE f[n] = IF n = 0 THEN {t} ELSE From(f[n - 1], n)
    OBVIOUS
  <2>1. f[n] = Body(f, Len(events))[n]
    <3> HIDE DEF Body
    <3> QED BY <1>3
  <2> QED BY <2>1
<1>5. f[0] = {t} /\ \A n \in 1..Len(events) : f[n] = From(f[n - 1], n)
  <2> HIDE DEF Body
  <2>1. 0 \in 0..Len(events) /\ \A n \in 1..Len(events) : n \in 0..Len(events) /\ n # 0
    OBVIOUS
  <2> QED BY <1>4, <2>1
<1> QED BY <1>2, <1>5 DEF From, RunsThrough


\* What the events of a projection of models lead through.
ModelsRunThrough(f, t, events) ==
    /\ f[0] = {t}
    /\ \A n \in 1..Len(events) : f[n] = UNION {ApplyModel(s, events[n]) : s \in f[n - 1]}
    /\ ApplyModels(t, events) = f[Len(events)]

LEMMA ModelsAppliedFold ==
    ASSUME NEW t, NEW events, Len(events) \in Nat
    PROVE  \E f : ModelsRunThrough(f, t, events)
<1> DEFINE From(S, n)  == UNION {ApplyModel(s, events[n]) : s \in S}
           Body(g, N) == [n \in 0..N |-> IF n = 0 THEN {t} ELSE From(g[n - 1], n)]
           Bad         == {N \in Nat : ~ \E g : g = Body(g, N)}
<1>1. Bad = {}
  <2> SUFFICES ASSUME Bad # {} PROVE FALSE
    OBVIOUS
  <2>1. PICK N \in Bad : \A m \in Bad : N <= m
    BY LeastMember
  <2> HIDE DEF From
  <2>2. CASE N = 0
    <3> DEFINE g == [n \in 0..0 |-> {t}]
    <3>1. g = Body(g, 0)
      OBVIOUS
    <3> QED BY <2>1, <2>2, <3>1
  <2>3. CASE N # 0
    <3>1. N - 1 \in Nat /\ ~(N <= N - 1)
      BY <2>1, <2>3
    <3>2. PICK g : g = Body(g, N - 1)
      BY <2>1, <3>1
    <3> DEFINE k == [n \in 0..N |-> IF n = N THEN From(g[N - 1], N) ELSE g[n]]
    <3>3. \A n \in 0..(N - 1) : n # N /\ n \in 0..N /\ k[n] = g[n]
      BY <3>1
    <3>4. ASSUME NEW n \in 0..N PROVE k[n] = IF n = 0 THEN {t} ELSE From(k[n - 1], n)
      <4>1. CASE n = N
        <5>1. N - 1 \in 0..(N - 1) /\ k[N] = From(g[N - 1], N)
          BY <3>1
        <5> HIDE DEF k
        <5> QED BY <2>3, <3>3, <4>1, <5>1
      <4>2. CASE n # N /\ n # 0
        <5>1. n \in 0..(N - 1) /\ n - 1 \in 0..(N - 1)
          BY <3>1, <4>2
        <5>2. g[n] = Body(g, N - 1)[n]
          <6> HIDE DEF Body
          <6> QED BY <3>2
        <5>3. g[n] = From(g[n - 1], n)
          BY <4>2, <5>1, <5>2
        <5> HIDE DEF k
        <5> QED BY <3>3, <4>2, <5>1, <5>3
      <4>3. CASE n # N /\ n = 0
        <5>1. 0 \in 0..(N - 1) /\ g[0] = Body(g, N - 1)[0]
          <6> HIDE DEF Body
          <6> QED BY <3>1, <3>2
        <5>2. g[0] = {t}
          BY <5>1
        <5> HIDE DEF k
        <5> QED BY <3>3, <4>3, <5>1, <5>2
      <4> QED BY <4>1, <4>2, <4>3
    <3>5. k = Body(k, N)
      <4>1. k = [n \in 0..N |-> k[n]]
        OBVIOUS
      <4> HIDE DEF k
      <4> QED BY <3>4, <4>1
    <3> HIDE DEF k, Body
    <3> QED BY <2>1, <3>5
  <2> QED BY <2>2, <2>3
<1> DEFINE f == CHOOSE g : g = Body(g, Len(events))
<1>2. ApplyModels(t, events) = f[Len(events)]
  BY DEF ApplyModels
<1>3. f = Body(f, Len(events))
  <2>1. \E g : g = Body(g, Len(events))
    <3> HIDE DEF Body
    <3> QED BY <1>1
  <2> HIDE DEF Body
  <2> QED BY <2>1
<1> HIDE DEF f, From
<1>4. \A n \in 0..Len(events) : f[n] = IF n = 0 THEN {t} ELSE From(f[n - 1], n)
  <2> SUFFICES ASSUME NEW n \in 0..Len(events) PROVE f[n] = IF n = 0 THEN {t} ELSE From(f[n - 1], n)
    OBVIOUS
  <2>1. f[n] = Body(f, Len(events))[n]
    <3> HIDE DEF Body
    <3> QED BY <1>3
  <2> QED BY <2>1
<1>5. f[0] = {t} /\ \A n \in 1..Len(events) : f[n] = From(f[n - 1], n)
  <2> HIDE DEF Body
  <2>1. 0 \in 0..Len(events) /\ \A n \in 1..Len(events) : n \in 0..Len(events) /\ n # 0
    OBVIOUS
  <2> QED BY <1>4, <2>1
<1> QED BY <1>2, <1>5 DEF From, ModelsRunThrough


\* What an assumption is after one more event.
LEMMA AssumptionStep ==
    ASSUME NEW id, NEW h, h \in Seq(Range(h)), NEW e
    PROVE  AssumptionStates(id, Append(h, e)) = UNION {ReduceAssumption(id, s, e) : s \in AssumptionStates(id, h)}
<1>1. PICK k, L : k = Append(h, e) /\ L = Len(h)
  OBVIOUS
<1>2. L \in Nat /\ Len(k) = L + 1 /\ k[L + 1] = e /\ \A n \in 1..L : k[n] = h[n]
  BY <1>1, SeqFacts, AppendFacts
<1>3. PICK f : /\ f[0] = {NoState}
               /\ \A n \in 1..Len(h) : f[n] = UNION {ReduceAssumption(id, s, h[n]) : s \in f[n - 1]}
               /\ AssumptionStates(id, h) = f[Len(h)]
  BY <1>1, <1>2, AssumptionFold
<1>4. PICK g : /\ g[0] = {NoState}
               /\ \A n \in 1..Len(k) : g[n] = UNION {ReduceAssumption(id, s, k[n]) : s \in g[n - 1]}
               /\ AssumptionStates(id, k) = g[Len(k)]
  <2>1. Len(k) \in Nat
    BY <1>2
  <2> QED BY <2>1, AssumptionFold
<1> DEFINE Bad == {n \in 0..L : f[n] # g[n]}
<1>5. Bad = {}
  <2> SUFFICES ASSUME Bad # {} PROVE FALSE
    OBVIOUS
  <2>1. PICK n \in Bad : \A m \in Bad : n <= m
    <3>1. Bad \in SUBSET Nat
      BY <1>2
    <3> HIDE DEF Bad
    <3> QED BY <3>1, LeastMember
  <2>2. n \in 0..L /\ f[n] # g[n] /\ n # 0
    BY <1>3, <1>4, <2>1
  <2>3. n \in 1..L /\ n \in 1..Len(h) /\ n \in 1..Len(k) /\ n - 1 \in 0..L /\ ~(n <= n - 1)
    BY <1>1, <1>2, <2>2
  <2>4. f[n - 1] = g[n - 1] /\ k[n] = h[n]
    BY <1>2, <2>1, <2>3
  <2>5. PICK S, x : S = f[n - 1] /\ x = h[n]
    OBVIOUS
  <2>6. f[n] = UNION {ReduceAssumption(id, s, x) : s \in S}
    BY <1>3, <2>3, <2>5
  <2>7. g[n] = UNION {ReduceAssumption(id, s, x) : s \in S}
    BY <1>4, <2>3, <2>4, <2>5
  <2> QED BY <2>2, <2>6, <2>7
<1>6. f[L] = g[L]
  <2>1. L \in 0..L
    BY <1>2
  <2> QED BY <1>5, <2>1
<1>7. PICK S : S = AssumptionStates(id, h)
  OBVIOUS
<1>8. g[L] = S
  BY <1>1, <1>3, <1>6, <1>7
<1>9. g[L + 1] = UNION {ReduceAssumption(id, s, e) : s \in S}
  <2>1. L + 1 \in 1..Len(k) /\ (L + 1) - 1 = L
    BY <1>2
  <2> QED BY <1>2, <1>4, <1>8, <2>1
<1> QED BY <1>1, <1>2, <1>4, <1>7, <1>9

\* What an alternative model is after one more event.
LEMMA ModelStep ==
    ASSUME NEW id, NEW h, h \in Seq(Range(h)), NEW e
    PROVE  ModelStates(id, Append(h, e)) = UNION {ReduceModel(id, s, e) : s \in ModelStates(id, h)}
<1>1. PICK k, L : k = Append(h, e) /\ L = Len(h)
  OBVIOUS
<1>2. L \in Nat /\ Len(k) = L + 1 /\ k[L + 1] = e /\ \A n \in 1..L : k[n] = h[n]
  BY <1>1, SeqFacts, AppendFacts
<1>3. PICK f : /\ f[0] = {NoState}
               /\ \A n \in 1..Len(h) : f[n] = UNION {ReduceModel(id, s, h[n]) : s \in f[n - 1]}
               /\ ModelStates(id, h) = f[Len(h)]
  BY <1>1, <1>2, ModelFold
<1>4. PICK g : /\ g[0] = {NoState}
               /\ \A n \in 1..Len(k) : g[n] = UNION {ReduceModel(id, s, k[n]) : s \in g[n - 1]}
               /\ ModelStates(id, k) = g[Len(k)]
  <2>1. Len(k) \in Nat
    BY <1>2
  <2> QED BY <2>1, ModelFold
<1> DEFINE Bad == {n \in 0..L : f[n] # g[n]}
<1>5. Bad = {}
  <2> SUFFICES ASSUME Bad # {} PROVE FALSE
    OBVIOUS
  <2>1. PICK n \in Bad : \A m \in Bad : n <= m
    <3>1. Bad \in SUBSET Nat
      BY <1>2
    <3> HIDE DEF Bad
    <3> QED BY <3>1, LeastMember
  <2>2. n \in 0..L /\ f[n] # g[n] /\ n # 0
    BY <1>3, <1>4, <2>1
  <2>3. n \in 1..L /\ n \in 1..Len(h) /\ n \in 1..Len(k) /\ n - 1 \in 0..L /\ ~(n <= n - 1)
    BY <1>1, <1>2, <2>2
  <2>4. f[n - 1] = g[n - 1] /\ k[n] = h[n]
    BY <1>2, <2>1, <2>3
  <2>5. PICK S, x : S = f[n - 1] /\ x = h[n]
    OBVIOUS
  <2>6. f[n] = UNION {ReduceModel(id, s, x) : s \in S}
    BY <1>3, <2>3, <2>5
  <2>7. g[n] = UNION {ReduceModel(id, s, x) : s \in S}
    BY <1>4, <2>3, <2>4, <2>5
  <2> QED BY <2>2, <2>6, <2>7
<1>6. f[L] = g[L]
  <2>1. L \in 0..L
    BY <1>2
  <2> QED BY <1>5, <2>1
<1>7. PICK S : S = ModelStates(id, h)
  OBVIOUS
<1>8. g[L] = S
  BY <1>1, <1>3, <1>6, <1>7
<1>9. g[L + 1] = UNION {ReduceModel(id, s, e) : s \in S}
  <2>1. L + 1 \in 1..Len(k) /\ (L + 1) - 1 = L
    BY <1>2
  <2> QED BY <1>2, <1>4, <1>8, <2>1
<1> QED BY <1>1, <1>2, <1>4, <1>7, <1>9

-----------------------------------------------------------------------------
(* What a projection does to the registry: every state it goes through     *)
(* holds legal histories, and every impact it records is exact.            *)

Living(held) == Registered(held) /\ \A x \in Assumptions : LegalAssumption(x, held[x])

\* Nothing that is held is of a later clock.
Until(held, clock) == \A x \in Assumptions : \A e \in Range(held[x]) : e.clock <= clock

\* An event that may be applied: of an assumption, at the clock projected.
Planned(x, clock) ==
    /\ x.id \in Assumptions /\ clock \in Int /\ x.event.clock = clock
    /\ x.event.op = "PROPOSE" => Declares(x.event.arg)

Exact(i) ==
    LET deps == [x \in Assumptions |-> IF i.root[x] = <<>> THEN {} ELSE AssumptionAt(x, i.root[x]).declared.deps]
    IN  i.affected = {x \in Assumptions \ {i.id} : i.id \in Reached(deps[x], deps)}

AllExact(impacts) == impacts \in Seq(Range(impacts)) /\ \A n \in 1..Len(impacts) : Exact(impacts[n])

LEMMA ImpactExact ==
    ASSUME NEW held, Living(held), NEW i, i.id \in Assumptions, i.root = AssumptionRoot(held),
           i.affected = AffectedAssumptions(held, i.id)
    PROVE  Exact(i)
<1>1. PICK deps : deps = [x \in Assumptions |-> IF i.root[x] = <<>> THEN {} ELSE AssumptionAt(x, i.root[x]).declared.deps]
  OBVIOUS
<1>2. deps = DeclaredBy(held)
  BY <1>1 DEF AssumptionRoot, DeclaredBy, Living
<1>3. RetainedBy(held) = deps /\ Walkable(DependencyGates(held), deps, DependencyCodes)
  BY <1>2, DependenciesWalkable DEF Living
<1>4. DOMAIN deps = Assumptions /\ DOMAIN deps \in SUBSET Ids /\ Within(deps)
  BY <1>1, <1>3, AssumptionsAssumption DEF Walkable, Within
<1>5. Dependents(i.id, deps) = {x \in Assumptions : i.id \in Reached(deps[x], deps)}
  BY <1>4, DependentsExact
<1>6. i.affected = Dependents(i.id, deps) \ {i.id}
  BY <1>3 DEF AffectedAssumptions, RetainedBy
<1>7. i.affected = {x \in Assumptions \ {i.id} : i.id \in Reached(deps[x], deps)}
  BY <1>5, <1>6
<1> QED BY <1>1, <1>7 DEF Exact

LEMMA AppendRegistered ==
    ASSUME NEW held, Registered(held), NEW x, NEW clock, Planned(x, clock),
           NEW new, new = [held EXCEPT ![x.id] = Append(@, x.event)]
    PROVE  /\ Registered(new) /\ new[x.id] = Append(held[x.id], x.event)
           /\ \A y \in Ids \ {x.id} : new[y] = held[y]
<1>1. PICK id, e, h : id = x.id /\ e = x.event /\ h = held[id]
  OBVIOUS
<1>2. id \in Assumptions /\ id \in Ids /\ e.clock \in Int /\ (e.op = "PROPOSE" => Declares(e.arg))
  BY <1>1, AssumptionsAssumption DEF Planned
<1>3. PICK k : k = Append(h, e)
  OBVIOUS
<1>4. /\ new = [y \in Ids |-> new[y]] /\ new[id] = k
      /\ \A y \in Ids \ {id} : new[y] = held[y]
  BY <1>1, <1>2, <1>3 DEF Registered
<1>5. History(h) /\ \A y \in Range(h) : y.op = "PROPOSE" => Declares(y.arg)
  BY <1>1, <1>2 DEF Registered
<1>6. History(k) /\ \A y \in Range(k) : y.op = "PROPOSE" => Declares(y.arg)
  <2>1. k \in Seq(Range(k)) /\ \A y : y \in Range(k) <=> y \in Range(h) \/ y = e
    BY <1>3, <1>5, AppendFacts DEF History
  <2> QED BY <1>2, <1>5, <2>1 DEF History
<1>7. \A y \in Ids : History(new[y])
  BY <1>4, <1>6 DEF Registered
<1>8. \A y \in Assumptions : \A u \in Range(new[y]) : u.op = "PROPOSE" => Declares(u.arg)
  BY <1>4, <1>6, AssumptionsAssumption DEF Registered
<1> QED BY <1>1, <1>3, <1>4, <1>7, <1>8 DEF Registered

\* What one event of an assumption does: it extends the head of a history, and
\* records at most the impact it has on the registry it leaves.
LEMMA EventApplies ==
    ASSUME NEW t, Living(t.hs), NEW x, NEW clock, Planned(x, clock), NEW u \in Apply(t, x)
    PROVE  /\ x.prev = t.hs[x.id] /\ Living(u.hs) /\ u.hs[x.id] = Append(t.hs[x.id], x.event)
           /\ \A y \in Assumptions \ {x.id} : u.hs[y] = t.hs[y]
           /\ AllExact(t.impacts) => AllExact(u.impacts)
           /\ Until(t.hs, clock) => Until(u.hs, clock)
<1>1. PICK held, id, h, new : held = t.hs /\ id = x.id /\ h = held[id] /\ new = [held EXCEPT ![id] = Append(@, x.event)]
  OBVIOUS
<1>2. id \in Assumptions /\ id \in Ids /\ id \notin EvidenceIds
  BY <1>1, AssumptionsAssumption DEF Planned, EvidenceIds
<1> DEFINE before == AssumptionStates(x.id, t.hs[x.id])
           after  == UNION {ReduceAssumption(x.id, a, x.event) : a \in before}
           impact == [id |-> x.id, from |-> Status(CHOOSE a \in before : TRUE),
                      to |-> Status(CHOOSE a \in after : TRUE),
                      affected |-> AffectedAssumptions([t.hs EXCEPT ![x.id] = Append(@, x.event)], x.id),
                      root |-> AssumptionRoot([t.hs EXCEPT ![x.id] = Append(@, x.event)])]
<1>3. u \in When(Extends(t.hs, x, after),
                 [hs |-> [t.hs EXCEPT ![x.id] = Append(@, x.event)],
                  impacts |-> IF t.hs[x.id] = <<>> \/ x.event.op \notin AssumptionImpacts
                              THEN t.impacts ELSE Append(t.impacts, impact)])
  <2>1. u \in ApplyAssumption(t, x)
    BY <1>1, <1>2 DEF Apply
  <2> QED BY <2>1, Zenon DEF ApplyAssumption
<1>4. /\ x.prev = h /\ after # {}
      /\ u = [hs |-> new, impacts |-> IF h = <<>> \/ x.event.op \notin AssumptionImpacts
                                      THEN t.impacts ELSE Append(t.impacts, impact)]
  <2>1. /\ Extends(t.hs, x, after)
        /\ u = [hs |-> [t.hs EXCEPT ![x.id] = Append(@, x.event)],
                impacts |-> IF t.hs[x.id] = <<>> \/ x.event.op \notin AssumptionImpacts
                            THEN t.impacts ELSE Append(t.impacts, impact)]
    BY <1>3, Zenon DEF When
  <2> HIDE DEF impact, after
  <2> QED BY <1>1, <2>1 DEF Extends
<1>5. PICK from, to, affected, root, i :
         /\ affected = AffectedAssumptions(new, id) /\ root = AssumptionRoot(new)
         /\ i = [id |-> id, from |-> from, to |-> to, affected |-> affected, root |-> root] /\ i = impact
  BY <1>1
<1>6. u.hs = new /\ (u.impacts = t.impacts \/ u.impacts = Append(t.impacts, i))
  BY <1>4, <1>5
<1>7. LegalAssumption(id, Append(h, x.event))
  <2>1. h \in Seq(Range(h))
    BY <1>1, <1>2 DEF Living, Registered, History
  <2>2. AssumptionStates(id, Append(h, x.event)) = after
    <3>1. t.hs[x.id] \in Seq(Range(t.hs[x.id]))
      BY <1>1, <2>1
    <3>2. AssumptionStates(x.id, Append(t.hs[x.id], x.event)) = after
      BY <3>1, AssumptionStep
    <3> HIDE DEF after
    <3> QED BY <1>1, <3>2
  <2> QED BY <1>4, <2>2 DEF LegalAssumption
<1> HIDE DEF impact, after, before
<1>8. /\ Registered(new) /\ new[id] = Append(h, x.event) /\ \A y \in Ids \ {id} : new[y] = held[y]
  BY <1>1, AppendRegistered DEF Living
<1>9. \A y \in Assumptions \ {id} : new[y] = held[y]
  BY <1>8, AssumptionsAssumption
<1>10. Living(new)
  BY <1>1, <1>7, <1>8, <1>9 DEF Living
<1>11. Exact(i)
  <2>1. i.id = id /\ i.root = AssumptionRoot(new) /\ i.affected = AffectedAssumptions(new, id)
    BY <1>5
  <2> QED BY <1>2, <1>10, <2>1, ImpactExact
<1>12. ASSUME AllExact(t.impacts) PROVE AllExact(u.impacts)
  <2>1. CASE u.impacts = t.impacts
    BY <1>12, <2>1
  <2>2. CASE u.impacts = Append(t.impacts, i)
    <3>1. PICK s, k : s = t.impacts /\ k = Append(s, i)
      OBVIOUS
    <3>2. s \in Seq(Range(s)) /\ \A n \in 1..Len(s) : Exact(s[n])
      BY <1>12, <3>1 DEF AllExact
    <3>3. /\ k \in Seq(Range(k)) /\ Len(k) = Len(s) + 1 /\ Len(s) \in Nat
          /\ (\A n \in 1..Len(s) : k[n] = s[n]) /\ k[Len(s) + 1] = i
      BY <3>1, <3>2, AppendFacts, SeqFacts
    <3>4. \A n \in 1..Len(k) : n \in 1..Len(s) \/ n = Len(s) + 1
      BY <3>3
    <3>5. \A n \in 1..Len(k) : Exact(k[n])
      BY <1>11, <3>2, <3>3, <3>4
    <3> QED BY <2>2, <3>1, <3>3, <3>5 DEF AllExact
  <2> QED BY <1>6, <2>1, <2>2
<1>13. ASSUME Until(held, clock) PROVE Until(new, clock)
  <2>1. PICK k : k = Append(h, x.event)
    OBVIOUS
  <2>2. h \in Seq(Range(h))
    BY <1>1, <1>2 DEF Living, Registered, History
  <2>3. \A e \in Range(k) : e \in Range(h) \/ e = x.event
    BY <2>1, <2>2, AppendFacts
  <2>4. x.event.clock <= clock
    BY DEF Planned
  <2>5. \A e \in Range(k) : e.clock <= clock
    BY <1>1, <1>2, <1>13, <2>3, <2>4 DEF Until
  <2> QED BY <1>8, <1>9, <1>13, <2>1, <2>5 DEF Until
<1> QED BY <1>1, <1>4, <1>6, <1>8, <1>9, <1>10, <1>12, <1>13

\* What the events of a projection leave.
LEMMA EventsApply ==
    ASSUME NEW t, Living(t.hs), AllExact(t.impacts), NEW clock, NEW events, Len(events) \in Nat,
           \A n \in 1..Len(events) : Planned(events[n], clock), NEW u \in Applied(t, events)
    PROVE  Living(u.hs) /\ AllExact(u.impacts) /\ (Until(t.hs, clock) => Until(u.hs, clock))
<1>0. PICK f : RunsThrough(f, t, events)
  BY AppliedFold
<1>1. /\ f[0] = {t}
      /\ \A n \in 1..Len(events) : f[n] = UNION {Apply(s, events[n]) : s \in f[n - 1]}
      /\ Applied(t, events) = f[Len(events)]
  BY <1>0 DEF RunsThrough
<1> DEFINE Good(n) == \A s \in f[n] : Living(s.hs) /\ AllExact(s.impacts) /\ (Until(t.hs, clock) => Until(s.hs, clock))
           Bad == {n \in 0..Len(events) : ~Good(n)}
<1>2. Bad = {}
  <2> SUFFICES ASSUME Bad # {} PROVE FALSE
    OBVIOUS
  <2>1. PICK n \in Bad : \A m \in Bad : n <= m
    <3>1. Bad \in SUBSET Nat
      OBVIOUS
    <3> HIDE DEF Bad
    <3> QED BY <3>1, LeastMember
  <2>2. n \in 0..Len(events) /\ ~Good(n)
    BY <2>1
  <2>3. n # 0
    BY <1>1, <2>2
  <2>4. n \in 1..Len(events) /\ n - 1 \in 0..Len(events) /\ ~(n <= n - 1)
    BY <2>2, <2>3
  <2>5. Good(n - 1)
    <3> HIDE DEF Good
    <3> QED BY <2>1, <2>4
  <2>6. PICK s \in f[n] : ~(Living(s.hs) /\ AllExact(s.impacts) /\ (Until(t.hs, clock) => Until(s.hs, clock)))
    BY <2>2
  <2>7. PICK p \in f[n - 1] : s \in Apply(p, events[n])
    BY <1>1, <2>4, <2>6
  <2>8. Living(p.hs) /\ AllExact(p.impacts) /\ (Until(t.hs, clock) => Until(p.hs, clock)) /\ Planned(events[n], clock)
    BY <2>4, <2>5, <2>7
  <2> QED BY <2>6, <2>7, <2>8, EventApplies
<1>3. Good(Len(events))
  <2>1. Len(events) \in 0..Len(events)
    OBVIOUS
  <2> HIDE DEF Good
  <2> QED BY <1>2, <2>1
<1> QED BY <1>1, <1>3

\* The expiries of a pass are planned events, of the assumptions that are due.
ExpiresEach(late, held, due, clock) ==
    /\ Len(late) \in Nat /\ Len(late) = Cardinality(due)
    /\ \A n \in 1..Len(late) : /\ Planned(late[n], clock) /\ late[n].id \in due /\ late[n].id = Ordered(due)[n]
                               /\ late[n].prev = held[late[n].id] /\ late[n].event = ExpireEvent(clock)

LEMMA ExpiriesPlanned ==
    ASSUME NEW held, NEW due \in SUBSET Assumptions, NEW clock \in Int, NEW late, late = Expiries(held, due, clock)
    PROVE  ExpiresEach(late, held, due, clock)
<1>1. due \in SUBSET Ids
  BY AssumptionsAssumption
<1>2. /\ Len(late) = Cardinality(due) /\ Cardinality(due) \in Nat
      /\ \A n \in 1..Len(late) : /\ late[n].id = Ordered(due)[n] /\ late[n].prev = held[Ordered(due)[n]]
                                 /\ late[n].event = ExpireEvent(clock)
  <2>1. Len(late) = Cardinality(due)
    BY <1>1, ExpiriesList
  <2>2. Cardinality(due) \in Nat
    BY <1>1, ExpiriesList
  <2>3. \A n \in 1..Len(late) : /\ late[n].id = Ordered(due)[n] /\ late[n].prev = held[Ordered(due)[n]]
                                /\ late[n].event = ExpireEvent(clock)
    <3>1. PICK ids, N : ids = Ordered(due) /\ N = Len(ids) /\ N = Cardinality(due) /\ N \in Nat
      BY <1>1, OrderedLists
    <3>2. late = [n \in 1..N |-> [id |-> ids[n], prev |-> held[ids[n]], event |-> ExpireEvent(clock)]]
      BY <3>1 DEF Expiries
    <3> QED BY <2>1, <3>1, <3>2
  <2> QED BY <2>1, <2>2, <2>3
<1>3. \A n \in 1..Cardinality(due) : Ordered(due)[n] \in due
  <2>1. Ordered(due) \in Seq(due) /\ Len(Ordered(due)) = Cardinality(due)
    BY <1>1, OrderedLists
  <2> QED BY <2>1, ElementOfSeq
<1>4. ExpireEvent(clock).clock = clock /\ ExpireEvent(clock).op = "EXPIRE"
  BY DEF ExpireEvent
<1> QED BY <1>2, <1>3, <1>4 DEF Planned, ExpiresEach

\* A plan applies the explicit events, then the expiries due on what they leave.
PlanOf(p, held, clock) ==
    \E first, s, due, late, t :
        /\ Len(first) \in Nat /\ \A n \in 1..Len(first) : Planned(first[n], clock)
        /\ s \in Applied([hs |-> held, impacts |-> <<>>], first)
        /\ due = {x \in Assumptions : AssumptionDue(x, s.hs[x], clock)}
        /\ late = Expiries(s.hs, due, clock) /\ t \in Applied(s, late)
        /\ p.post = t.hs /\ p.impacts = t.impacts
        /\ Living(held) /\ Living(s.hs) /\ (Until(held, clock) => Until(s.hs, clock))
        /\ Living(t.hs) /\ AllExact(t.impacts)

LEMMA PlanRuns ==
    ASSUME NEW held, Registered(held), NEW clock \in Int, NEW auths, NEW evidence,
           NEW explicit, IsFiniteSet(explicit),
           \A x \in explicit : x.id \in Assumptions /\ Len(x.prev) \in Nat /\ (x.event.op = "PROPOSE" => Declares(x.event.arg)),
           NEW p \in AssumptionPlan(held, explicit, auths, evidence, clock)
    PROVE  PlanOf(p, held, clock)
<1>1. /\ Placed(explicit) /\ (\A x \in explicit : x.event.clock = clock)
      /\ (\A id \in Assumptions : LegalAssumption(id, held[id]))
      /\ p \in Plans(held, explicit, clock, Assumptions)
  BY Zenon DEF AssumptionPlan
<1>2. PICK first : first = Canonical(explicit)
  OBVIOUS
<1>3. PICK start : start = [hs |-> held, impacts |-> <<>>]
  OBVIOUS
<1>4. PICK s, t :
         /\ s \in Applied(start, first)
         /\ t \in Applied(s, Expiries(s.hs, DueAmong(Assumptions, s.hs, clock), clock))
         /\ p = [pre |-> held, events |-> first \o Expiries(s.hs, DueAmong(Assumptions, s.hs, clock), clock),
                 impacts |-> t.impacts, post |-> t.hs]
  BY <1>1, <1>2, <1>3 DEF Plans
<1>5. PICK due, late : due = DueAmong(Assumptions, s.hs, clock) /\ late = Expiries(s.hs, due, clock)
  OBVIOUS
<1>6. due = {x \in Assumptions : AssumptionDue(x, s.hs[x], clock)} /\ due \in SUBSET Assumptions
  BY <1>5, AssumptionsAssumption DEF DueAmong, EvidenceIds
<1>7. first \in Seq(explicit) /\ Len(first) \in Nat
  BY <1>1, <1>2, AssumptionsAssumption, CanonicalLists, LenProperties
<1>8. \A n \in 1..Len(first) : Planned(first[n], clock)
  BY <1>1, <1>7, ElementOfSeq DEF Planned
<1>9. Living(start.hs) /\ AllExact(start.impacts)
  <2>1. start.hs = held /\ start.impacts = <<>> /\ <<>> \in Seq(Range(<<>>)) /\ Len(<<>>) = 0
    BY <1>3
  <2> QED BY <1>1, <2>1 DEF Living, AllExact
<1>10. Living(s.hs) /\ AllExact(s.impacts) /\ (Until(start.hs, clock) => Until(s.hs, clock))
  BY <1>4, <1>7, <1>8, <1>9, EventsApply
<1>11. Len(late) \in Nat /\ \A n \in 1..Len(late) : Planned(late[n], clock)
  <2>1. ExpiresEach(late, s.hs, due, clock)
    BY <1>5, <1>6, ExpiriesPlanned
  <2> QED BY <2>1 DEF ExpiresEach
<1>12. t \in Applied(s, late)
  BY <1>4, <1>5
<1>13. Living(t.hs) /\ AllExact(t.impacts)
  BY <1>10, <1>11, <1>12, EventsApply
<1>14. p.post = t.hs /\ p.impacts = t.impacts
  BY <1>4
<1>15. Living(held) /\ start.hs = held
  BY <1>3, <1>9
<1> QED BY <1>3, <1>4, <1>5, <1>6, <1>7, <1>8, <1>10, <1>12, <1>13, <1>14, <1>15 DEF PlanOf

\* What a projection is asked to apply declares assumptions and evidence.
LEMMA ExplicitDeclares ==
    ASSUME Registered(hs), NEW clock, NEW evidence, NEW intents \in Explicit(Assumptions, clock),
           NEW auths \in {{}} \cup {{p} : p \in Admissions(evidence, clock)},
           NEW explicit, explicit = intents \cup {[id |-> p.id, prev |-> p.prev, event |-> AdmitEvent(p)] : p \in auths}
    PROVE  \A x \in explicit : x.event.op = "PROPOSE" => Declares(x.event.arg)
<1>1. \A x \in intents : \E e \in Intents : x.event = e /\ e.clock = clock /\ x.prev = hs[x.id]
  BY ExplicitEvents
<1>2. \A p : AdmitEvent(p).op = "ADMIT"
  BY DEF AdmitEvent
<1>3. ASSUME NEW x \in explicit, x \notin intents PROVE x.event.op = "ADMIT"
  <2>1. PICK p \in auths : x = [id |-> p.id, prev |-> p.prev, event |-> AdmitEvent(p)]
    BY <1>3
  <2> QED BY <1>2, <2>1
<1> QED BY <1>1, <1>3, RequestsAssumption

\* The impact of an event names everything that reaches its entity in the registry
\* the event leaves, and nothing else.
THEOREM ImpactsAreExact == Spec => []ImpactsExact
<1> DEFINE Rule == Asked("projection") => \A p \in answer.plans : AllExact(p.impacts)
<1>1. Init => Rule
  BY DEF Init, Asked
<1>2. Held /\ Rule /\ [Next]_vars => Rule'
  <2> SUFFICES ASSUME Held, Rule, [Next]_vars PROVE Rule'
    OBVIOUS
  <2>1. CASE UNCHANGED vars
    BY <2>1 DEF vars, Asked
  <2>2. ASSUME NEW clock \in Projected, NEW asked, NEW intents \in Explicit(Assumptions, clock),
               Project(clock, asked, intents), answer'.to = "projection"
        PROVE  Rule'
    <3>1. PICK evidence, auths, explicit :
             /\ auths \in {{}} \cup {{p} : p \in Admissions(evidence, clock)}
             /\ explicit = intents \cup {[id |-> p.id, prev |-> p.prev, event |-> AdmitEvent(p)] : p \in auths}
             /\ answer' = [to |-> "projection", clock |-> clock, explicit |-> explicit, evidence |-> evidence,
                           plans |-> AssumptionPlan(hs, explicit, auths, EvidenceRoot(evidence.post), clock)]
      BY <2>2, Zenon DEF Project
    <3>2. PICK plans : plans = AssumptionPlan(hs, explicit, auths, EvidenceRoot(evidence.post), clock)
      OBVIOUS
    <3>3. answer'.plans = plans
      BY <3>1, <3>2
    <3>4. IsFiniteSet(explicit) /\ \A x \in explicit : x.id \in Assumptions /\ Len(x.prev) \in Nat
      BY <3>1, HeldRegistered, ExplicitEvents
    <3>5. \A x \in explicit : x.event.op = "PROPOSE" => Declares(x.event.arg)
      BY <3>1, HeldRegistered, ExplicitDeclares
    <3>6. clock \in Int
      BY RequestsAssumption
    <3>7. ASSUME NEW p \in plans PROVE AllExact(p.impacts)
      <4>1. PICK root : root = EvidenceRoot(evidence.post)
        OBVIOUS
      <4>2. p \in AssumptionPlan(hs, explicit, auths, root, clock)
        BY <3>2, <3>7, <4>1
      <4>3. \A x \in explicit : x.id \in Assumptions /\ Len(x.prev) \in Nat /\ (x.event.op = "PROPOSE" => Declares(x.event.arg))
        BY <3>4, <3>5
      <4>4. PlanOf(p, hs, clock)
        BY <3>4, <3>6, <4>2, <4>3, HeldRegistered, PlanRuns
      <4> QED BY <4>4, Zenon DEF PlanOf
    <3> QED BY <3>3, <3>7
  <2>3. CASE Next /\ answer'.to # "projection"
    BY <2>3 DEF Asked
  <2> QED BY <2>1, <2>2, <2>3, OneQuestion
<1>3. Rule => ImpactsExact
  <2> SUFFICES ASSUME Rule, Asked("projection"), NEW p \in answer.plans, NEW n \in 1..Len(p.impacts)
               PROVE  Exact(p.impacts[n])
    BY DEF ImpactsExact, Exact
  <2> QED BY DEF AllExact
<1> HIDE DEF Rule
<1> QED BY <1>1, <1>2, <1>3, HeldAlways, PTL DEF Spec

-----------------------------------------------------------------------------
(* Expiry: what the pass expires, and that it never fails.                 *)

\* An event that is legal at the head of a history is applied.
LEMMA EventPossible ==
    ASSUME NEW t, Living(t.hs), NEW x, NEW clock, Planned(x, clock),
           x.prev = t.hs[x.id], LegalAssumption(x.id, Append(x.prev, x.event))
    PROVE  Apply(t, x) # {}
<1>1. PICK id, h : id = x.id /\ h = t.hs[id] /\ x.prev = h
  OBVIOUS
<1>2. id \in Assumptions /\ id \in Ids /\ id \notin EvidenceIds
  BY <1>1, AssumptionsAssumption DEF Planned, EvidenceIds
<1> DEFINE after == UNION {ReduceAssumption(x.id, a, x.event) : a \in AssumptionStates(x.id, t.hs[x.id])}
<1>3. after # {}
  <2>1. h \in Seq(Range(h))
    BY <1>1, <1>2 DEF Living, Registered, History
  <2>2. t.hs[x.id] \in Seq(Range(t.hs[x.id]))
    BY <1>1, <2>1
  <2>3. AssumptionStates(x.id, Append(t.hs[x.id], x.event)) = after
    BY <2>2, AssumptionStep
  <2> HIDE DEF after
  <2> QED BY <2>3 DEF LegalAssumption
<1>4. Extends(t.hs, x, after)
  <2> HIDE DEF after
  <2> QED BY <1>3 DEF Extends
<1>5. ApplyAssumption(t, x) # {}
  BY <1>4, Zenon DEF ApplyAssumption, When
<1> QED BY <1>1, <1>2, <1>5 DEF Apply

\* The pass appends one expiry to each assumption that is due, and nothing else;
\* it is done when each may be expired.
MayExpire(held, due, clock) == \A x \in due : LegalAssumption(x, Append(held[x], ExpireEvent(clock)))

PassDone(w, due, clock, left) ==
    /\ \A t \in left : \A x \in Assumptions :
           t.hs[x] = IF x \in due THEN Append(w.hs[x], ExpireEvent(clock)) ELSE w.hs[x]
    /\ MayExpire(w.hs, due, clock) => left # {}

LEMMA PassExpires ==
    ASSUME NEW w, Living(w.hs), NEW due \in SUBSET Assumptions, NEW clock \in Int,
           NEW late, late = Expiries(w.hs, due, clock)
    PROVE  PassDone(w, due, clock, Applied(w, late))
<1>0. ExpiresEach(late, w.hs, due, clock)
  BY ExpiriesPlanned
<1>1. PICK N : N = Len(late) /\ N \in Nat /\ Len(late) \in Nat /\ N = Cardinality(due)
  BY <1>0 DEF ExpiresEach
<1>2. \A n \in 1..N : /\ Planned(late[n], clock) /\ late[n].id \in due /\ late[n].id = Ordered(due)[n]
                      /\ late[n].prev = w.hs[late[n].id] /\ late[n].event = ExpireEvent(clock)
  BY <1>0, <1>1 DEF ExpiresEach
<1>3a. PICK f : RunsThrough(f, w, late)
  BY <1>1, AppliedFold
<1>3. /\ f[0] = {w}
      /\ \A n \in 1..Len(late) : f[n] = UNION {Apply(s, late[n]) : s \in f[n - 1]}
      /\ Applied(w, late) = f[Len(late)]
  BY <1>3a DEF RunsThrough
<1> DEFINE Gone(x, n) == \E m \in 1..n : late[m].id = x
           After(u, n) == \A x \in Assumptions :
               u.hs[x] = IF Gone(x, n) THEN Append(w.hs[x], ExpireEvent(clock)) ELSE w.hs[x]
           Good(n) == /\ \A u \in f[n] : Living(u.hs) /\ After(u, n)
                      /\ MayExpire(w.hs, due, clock) => f[n] # {}
           Bad == {n \in 0..N : ~Good(n)}
<1>4. Bad = {}
  <2> SUFFICES ASSUME Bad # {} PROVE FALSE
    OBVIOUS
  <2>1. PICK n \in Bad : \A m \in Bad : n <= m
    <3>1. Bad \in SUBSET Nat
      OBVIOUS
    <3> HIDE DEF Bad
    <3> QED BY <3>1, LeastMember
  <2>2. n \in 0..N /\ ~Good(n)
    BY <2>1
  <2>3. n # 0
    <3>1. \A x : ~Gone(x, 0)
      OBVIOUS
    <3> HIDE DEF Gone
    <3>2. After(w, 0)
      BY <3>1
    <3> HIDE DEF After
    <3>3. Good(0)
      BY <1>3, <3>2
    <3> QED BY <2>2, <3>3
  <2>4. n \in 1..N /\ n - 1 \in 0..N /\ ~(n <= n - 1)
    BY <1>1, <2>2, <2>3
  <2>5. Good(n - 1)
    <3> HIDE DEF Good
    <3> QED BY <2>1, <2>4
  <2>6. PICK y, id : y = late[n] /\ id = y.id
    OBVIOUS
  <2>7. Planned(y, clock) /\ id \in due /\ id \in Assumptions /\ y.prev = w.hs[id] /\ y.event = ExpireEvent(clock)
    BY <1>2, <2>4, <2>6
  <2>8. \A x : Gone(x, n) <=> Gone(x, n - 1) \/ x = id
    <3>1. \A m : m \in 1..n <=> m \in 1..(n - 1) \/ m = n
      BY <2>4
    <3> QED BY <2>6, <3>1
  <2>9. ~Gone(id, n - 1)
    <3>1. \A m, k \in 1..N : Ordered(due)[m] = Ordered(due)[k] => m = k
      BY <1>1, AssumptionsAssumption, OrderedLists
    <3>2. \A m \in 1..(n - 1) : m \in 1..N /\ m # n
      BY <1>1, <2>4
    <3>3. \A m \in 1..(n - 1) : Ordered(due)[m] # Ordered(due)[n]
      BY <2>4, <3>1, <3>2
    <3> QED BY <1>2, <2>4, <2>6, <3>2, <3>3
  <2>10. \A p \in f[n - 1] : Living(p.hs) /\ After(p, n - 1)
    BY <2>5
  <2>11. f[n] = UNION {Apply(s, y) : s \in f[n - 1]}
    BY <1>1, <1>3, <2>4, <2>6
  <2> HIDE DEF Gone
  <2>12. ASSUME NEW u \in f[n] PROVE Living(u.hs) /\ After(u, n)
    <3>1. PICK p \in f[n - 1] : u \in Apply(p, y)
      BY <2>11
    <3>2. Living(p.hs) /\ After(p, n - 1)
      BY <2>10
    <3>3. /\ y.prev = p.hs[y.id] /\ Living(u.hs) /\ u.hs[y.id] = Append(p.hs[y.id], y.event)
          /\ \A x \in Assumptions \ {y.id} : u.hs[x] = p.hs[x]
      BY <2>7, <3>1, <3>2, EventApplies
    <3>4. u.hs[id] = Append(w.hs[id], ExpireEvent(clock))
      BY <2>6, <2>7, <3>3
    <3>5. \A x \in Assumptions \ {id} : u.hs[x] = p.hs[x]
      BY <2>6, <3>3
    <3>6. After(u, n)
      BY <2>8, <3>2, <3>4, <3>5
    <3> QED BY <3>3, <3>6
  <2>13. ASSUME MayExpire(w.hs, due, clock) PROVE f[n] # {}
    <3>1. PICK p \in f[n - 1] : TRUE
      BY <2>5, <2>13
    <3>2. Living(p.hs) /\ After(p, n - 1)
      BY <2>10
    <3>3. p.hs[id] = w.hs[id]
      BY <2>7, <2>9, <3>2
    <3>4. LegalAssumption(id, Append(w.hs[id], ExpireEvent(clock)))
      BY <2>7, <2>13 DEF MayExpire
    <3>5. y.prev = p.hs[y.id] /\ LegalAssumption(y.id, Append(y.prev, y.event))
      BY <2>6, <2>7, <3>3, <3>4
    <3>6. Apply(p, y) # {}
      BY <2>7, <3>2, <3>5, EventPossible
    <3> QED BY <2>11, <3>6
  <2>14. Good(n)
    <3> HIDE DEF After
    <3> QED BY <2>12, <2>13
  <2> QED BY <2>2, <2>14
<1>5. Good(N)
  <2>1. N \in 0..N
    BY <1>1
  <2> HIDE DEF Good
  <2> QED BY <1>4, <2>1
<1>6. \A x \in Assumptions : Gone(x, N) <=> x \in due
  <2>1. \A x \in due : \E n \in 1..Cardinality(due) : Ordered(due)[n] = x
    BY AssumptionsAssumption, OrderedLists
  <2> QED BY <1>1, <1>2, <2>1
<1> HIDE DEF Gone
<1>7. Applied(w, late) = f[N]
  BY <1>1, <1>3
<1> QED BY <1>5, <1>6, <1>7 DEF PassDone

\* Nothing stands past its expiry when the pass is done, unless it is declined
\* or changed at this very clock.
LEMMA NothingOverdue ==
    ASSUME NEW p, NEW held, NEW clock \in Int, PlanOf(p, held, clock), Until(held, clock),
           NEW id \in Assumptions \ Declined, p.post[id] # <<>>,
           NEW a, a = AssumptionAt(id, p.post[id])
    PROVE  \/ a.standing \notin ActiveStandings \/ a.clock = clock
           \/ a.declared.expires = None
           \/ a.declared.expires # None => a.declared.expires > clock
<1>1. PICK s, due, late, t :
        /\ due = {x \in Assumptions : AssumptionDue(x, s.hs[x], clock)}
        /\ late = Expiries(s.hs, due, clock) /\ t \in Applied(s, late)
        /\ p.post = t.hs /\ Living(s.hs) /\ Until(s.hs, clock) /\ Living(t.hs)
  BY Zenon DEF PlanOf
<1>2. PICK h, k : h = s.hs[id] /\ k = t.hs[id]
  OBVIOUS
<1>3. k = IF id \in due THEN Append(h, ExpireEvent(clock)) ELSE h
  <2>1. due \in SUBSET Assumptions
    BY <1>1
  <2>2. PassDone(s, due, clock, Applied(s, late))
    BY <1>1, <2>1, PassExpires
  <2> QED BY <1>1, <1>2, <2>2 DEF PassDone
<1>4. /\ History(h) /\ (\A e \in Range(h) : e.clock <= clock) /\ History(k) /\ LegalAssumption(id, k)
      /\ \A e \in Range(k) : e.op = "PROPOSE" => Declares(e.arg)
  BY <1>1, <1>2, AssumptionsAssumption DEF Living, Registered, Until
<1>5. k # <<>> /\ a = AssumptionAt(id, k)
  BY <1>1, <1>2
<1>6. a \in AssumptionStates(id, k)
  BY <1>4, <1>5 DEF LegalAssumption, AssumptionAt
<1>7. a.declared = k[1].arg /\ k[1].op = "PROPOSE" /\ k[1] \in Range(k) /\ a.clock = k[Len(k)].clock
      /\ k[Len(k)] \in Range(k) /\ a.clock \in Int
  BY <1>4, <1>5, <1>6, AssumptionAtEnd
<1>8. a.declared.expires # None => a.declared.expires \in Int
  BY <1>4, <1>7 DEF Declares, Dated
<1>9. CASE id \in due
  <2>1. Len(k) = Len(h) + 1 /\ k[Len(h) + 1] = ExpireEvent(clock)
    BY <1>3, <1>4, <1>9, AppendFacts DEF History
  <2> QED BY <1>7, <2>1 DEF ExpireEvent
<1>10. CASE id \notin due
  <2>1. k = h /\ ~AssumptionDue(id, k, clock)
    BY <1>1, <1>2, <1>3, <1>10
  <2>2. ~(a.standing \in ActiveStandings /\ Due(a.declared.expires, a.clock, clock))
    BY <1>5, <2>1 DEF AssumptionDue
  <2>3. a.clock <= clock
    BY <1>4, <1>7, <2>1
  <2> QED BY <1>7, <1>8, <2>2, <2>3 DEF Due
<1> QED BY <1>9, <1>10

\* What is due may be expired.
LEMMA ExpiryLegal ==
    ASSUME NEW id, NEW h, History(h), LegalAssumption(id, h), NEW clock \in Int, AssumptionDue(id, h, clock)
    PROVE  LegalAssumption(id, Append(h, ExpireEvent(clock)))
<1>1. PICK e : e = ExpireEvent(clock)
  OBVIOUS
<1>2. e.op = "EXPIRE" /\ e.clock = clock
  BY <1>1 DEF ExpireEvent
<1>3. PICK a \in AssumptionStates(id, h) : TRUE
  BY DEF LegalAssumption
<1>4. h # <<>>
  BY DEF AssumptionDue
<1>5. AssumptionStates(id, h) = {a} /\ AssumptionAt(id, h) = a /\ Shape(a) /\ a.clock \in Int
  BY <1>3, <1>4, AssumptionAtEnd
<1>6. /\ a.standing \in ActiveStandings /\ a.declared.expires # None /\ a.clock < clock
      /\ a.declared.expires # None => clock >= a.declared.expires
  BY <1>5 DEF AssumptionDue, Due
<1>7. a # NoState /\ a.standing \notin TerminalStandings /\ ~(e.clock <= a.clock)
  BY <1>2, <1>5, <1>6, ShapeNotAbsent DEF ActiveStandings, TerminalStandings
<1>8. ReduceAssumption(id, a, e) = Expire(a, e)
  <2>1. ReduceAssumption(id, a, e) = Operation(a, e)
    BY <1>7 DEF ReduceAssumption
  <2> QED BY <1>2, <2>1 DEF Operation
<1>9. Expire(a, e) # {}
  BY <1>2, <1>6 DEF Expire, When
<1>10. AssumptionStates(id, Append(h, e)) = UNION {ReduceAssumption(id, s, e) : s \in AssumptionStates(id, h)}
  BY AssumptionStep DEF History
<1>11. AssumptionStates(id, Append(h, e)) # {}
  BY <1>5, <1>8, <1>9, <1>10
<1> QED BY <1>1, <1>11 DEF LegalAssumption

\* An explicit event that is legal never makes a projection fail.
LEMMA PlanPossible ==
    ASSUME NEW held, Living(held), NEW clock \in Int, NEW root, NEW explicit,
           explicit = {} \/ \E x : explicit = {x},
           \A x \in explicit : /\ Planned(x, clock) /\ Len(x.prev) \in Nat /\ x.event.op # "ADMIT"
                               /\ x.prev = held[x.id] /\ LegalAssumption(x.id, Append(x.prev, x.event))
    PROVE  AssumptionPlan(held, explicit, {}, root, clock) # {}
<1>1. IsFiniteSet(explicit) /\ Placed(explicit) /\ Cardinality(explicit) = IF explicit = {} THEN 0 ELSE 1
  BY FS_EmptySet, FS_Singleton DEF Placed
<1>2. PICK first, start : first = Canonical(explicit) /\ start = [hs |-> held, impacts |-> <<>>]
  OBVIOUS
<1>3. first \in Seq(explicit) /\ Len(first) = Cardinality(explicit) /\ Len(first) \in Nat
  <2>1. \A x \in explicit : x.id \in Ids /\ Len(x.prev) \in Nat
    BY AssumptionsAssumption DEF Planned
  <2>2. first \in Seq(explicit) /\ Len(first) = Cardinality(explicit)
    BY <1>1, <1>2, <2>1, CanonicalLists
  <2> QED BY <1>1, <2>2
<1>4. Living(start.hs) /\ AllExact(start.impacts) /\ start.hs = held
  <2>1. start.hs = held /\ start.impacts = <<>> /\ <<>> \in Seq(Range(<<>>)) /\ Len(<<>>) = 0
    BY <1>2
  <2> QED BY <2>1 DEF AllExact
<1>5. PICK f : RunsThrough(f, start, first)
  BY <1>3, AppliedFold
<1>6. Applied(start, first) # {}
  <2>1. /\ f[0] = {start}
        /\ \A n \in 1..Len(first) : f[n] = UNION {Apply(s, first[n]) : s \in f[n - 1]}
        /\ Applied(start, first) = f[Len(first)]
    BY <1>5 DEF RunsThrough
  <2>2. CASE explicit = {}
    BY <1>1, <1>3, <2>1, <2>2
  <2>3. CASE explicit # {}
    <3>1. PICK x : x = first[1]
      OBVIOUS
    <3>2. Len(first) = 1 /\ 1 \in 1..Len(first) /\ 1 - 1 = 0
      BY <1>1, <1>3, <2>3
    <3>3. x \in explicit
      BY <1>3, <3>1, <3>2, ElementOfSeq
    <3>4. f[1] = UNION {Apply(s, x) : s \in f[0]}
      BY <2>1, <3>1, <3>2
    <3>5. Planned(x, clock) /\ x.prev = start.hs[x.id] /\ LegalAssumption(x.id, Append(x.prev, x.event))
      BY <1>4, <3>3
    <3>6. Apply(start, x) # {}
      BY <1>4, <3>5, EventPossible
    <3> QED BY <2>1, <3>2, <3>4, <3>6
  <2> QED BY <2>2, <2>3
<1>7. PICK s : s \in Applied(start, first)
  BY <1>6
<1>8. Living(s.hs)
  <2>1. \A n \in 1..Len(first) : Planned(first[n], clock)
    BY <1>3, ElementOfSeq
  <2> QED BY <1>3, <1>4, <1>7, <2>1, EventsApply
<1>9. PICK due, late : due = DueAmong(Assumptions, s.hs, clock) /\ late = Expiries(s.hs, due, clock)
  OBVIOUS
<1>10. due \in SUBSET Assumptions /\ \A x \in due : AssumptionDue(x, s.hs[x], clock)
  BY <1>9, AssumptionsAssumption DEF DueAmong, EvidenceIds
<1>11. MayExpire(s.hs, due, clock)
  <2> SUFFICES ASSUME NEW x \in due PROVE LegalAssumption(x, Append(s.hs[x], ExpireEvent(clock)))
    BY DEF MayExpire
  <2>1. PICK h : h = s.hs[x]
    OBVIOUS
  <2>2. History(h) /\ LegalAssumption(x, h) /\ AssumptionDue(x, h, clock)
    BY <1>8, <1>10, <2>1, AssumptionsAssumption DEF Living, Registered
  <2> QED BY <2>1, <2>2, ExpiryLegal
<1>12. Applied(s, late) # {}
  <2>1. PassDone(s, due, clock, Applied(s, late))
    BY <1>8, <1>9, <1>10, PassExpires
  <2> QED BY <1>11, <2>1 DEF PassDone
<1>13. Plans(held, explicit, clock, Assumptions) # {}
  <2>1. PICK t : t \in Applied(s, Expiries(s.hs, DueAmong(Assumptions, s.hs, clock), clock))
    BY <1>9, <1>12
  <2>2. s \in Applied([hs |-> held, impacts |-> <<>>], Canonical(explicit))
    BY <1>2, <1>7
  <2> DEFINE pass(q) == Expiries(q.hs, DueAmong(Assumptions, q.hs, clock), clock)
             plan(q) == {[pre |-> held, events |-> Canonical(explicit) \o pass(q),
                          impacts |-> u.impacts, post |-> u.hs] : u \in Applied(q, pass(q))}
  <2>3. Plans(held, explicit, clock, Assumptions) =
           UNION {plan(q) : q \in Applied([hs |-> held, impacts |-> <<>>], Canonical(explicit))}
    BY Zenon DEF Plans
  <2>4. t \in Applied(s, pass(s))
    BY <2>1
  <2> HIDE DEF pass
  <2>5. plan(s) # {}
    BY <2>4
  <2> HIDE DEF plan
  <2> QED BY <2>2, <2>3, <2>5
<1>14. AssumptionPlan(held, explicit, {}, root, clock) = Plans(held, explicit, clock, Assumptions)
  <2>1. Shaped({}, root)
    BY DEF Shaped
  <2>2. \A x \in explicit : Bound(x, {}, AssumptionRoot(held)) /\ x.event.clock = clock
    BY DEF Bound, Planned
  <2>3. \A id \in Assumptions : LegalAssumption(id, held[id])
    BY DEF Living
  <2> QED BY <1>1, <2>1, <2>2, <2>3, Zenon DEF AssumptionPlan
<1> QED BY <1>13, <1>14

-----------------------------------------------------------------------------
(* The same of alternative models: what a projection applies, what its     *)
(* pass expires, and that it never fails.                                  *)

ModelsLiving(held) == RegisteredModels(held) /\ \A x \in Models : LegalModel(x, held[x])

ModelsUntil(held, clock) == \A x \in Models : \A e \in Range(held[x]) : e.clock <= clock

ModelPlanned(x, clock) ==
    /\ x.id \in Models /\ clock \in Int /\ x.event.clock = clock
    /\ x.event.op = "PROPOSE" => DeclaresModel(x.event.arg)

LEMMA AppendRegisteredModels ==
    ASSUME NEW held, RegisteredModels(held), NEW x, NEW clock, ModelPlanned(x, clock),
           NEW new, new = [held EXCEPT ![x.id] = Append(@, x.event)]
    PROVE  /\ RegisteredModels(new) /\ new[x.id] = Append(held[x.id], x.event)
           /\ \A y \in Models \ {x.id} : new[y] = held[y]
<1>1. PICK id, e, h : id = x.id /\ e = x.event /\ h = held[id]
  OBVIOUS
<1>2. id \in Models /\ e.clock \in Int /\ (e.op = "PROPOSE" => DeclaresModel(e.arg))
  BY <1>1 DEF ModelPlanned
<1>3. PICK k : k = Append(h, e)
  OBVIOUS
<1>4. /\ new = [y \in Models |-> new[y]] /\ new[id] = k
      /\ \A y \in Models \ {id} : new[y] = held[y]
  BY <1>1, <1>2, <1>3 DEF RegisteredModels
<1>5. History(h) /\ \A y \in Range(h) : y.op = "PROPOSE" => DeclaresModel(y.arg)
  BY <1>1, <1>2 DEF RegisteredModels
<1>6. History(k) /\ \A y \in Range(k) : y.op = "PROPOSE" => DeclaresModel(y.arg)
  <2>1. k \in Seq(Range(k)) /\ \A y : y \in Range(k) <=> y \in Range(h) \/ y = e
    BY <1>3, <1>5, AppendFacts DEF History
  <2> QED BY <1>2, <1>5, <2>1 DEF History
<1>7. \A y \in Models : History(new[y])
  BY <1>4, <1>6 DEF RegisteredModels
<1>8. \A y \in Models : \A u \in Range(new[y]) : u.op = "PROPOSE" => DeclaresModel(u.arg)
  BY <1>4, <1>6 DEF RegisteredModels
<1> QED BY <1>1, <1>3, <1>4, <1>7, <1>8 DEF RegisteredModels

\* What one event of a model does: it extends the head of a history.
LEMMA ModelEventApplies ==
    ASSUME NEW t, ModelsLiving(t.held), NEW x, NEW clock, ModelPlanned(x, clock), NEW u \in ApplyModel(t, x)
    PROVE  /\ x.prev = t.held[x.id] /\ ModelsLiving(u.held) /\ u.held[x.id] = Append(t.held[x.id], x.event)
           /\ \A y \in Models \ {x.id} : u.held[y] = t.held[y]
           /\ ModelsUntil(t.held, clock) => ModelsUntil(u.held, clock)
<1>1. PICK held, id, h, new : held = t.held /\ id = x.id /\ h = held[id] /\ new = [held EXCEPT ![id] = Append(@, x.event)]
  OBVIOUS
<1>2. id \in Models
  BY <1>1 DEF ModelPlanned
<1> DEFINE before == ModelStates(x.id, t.held[x.id])
           after  == UNION {ReduceModel(x.id, m, x.event) : m \in before}
           impact == [id |-> x.id, to |-> Status(CHOOSE m \in after : TRUE)]
<1>3. u \in When(Extends(t.held, x, after),
                 [held |-> [t.held EXCEPT ![x.id] = Append(@, x.event)],
                  impacts |-> IF t.held[x.id] = <<>> \/ x.event.op \notin AssumptionImpacts
                              THEN t.impacts ELSE Append(t.impacts, impact)])
  BY Zenon DEF ApplyModel
<1>4. /\ x.prev = h /\ after # {}
      /\ u = [held |-> new, impacts |-> IF h = <<>> \/ x.event.op \notin AssumptionImpacts
                                      THEN t.impacts ELSE Append(t.impacts, impact)]
  <2>1. /\ Extends(t.held, x, after)
        /\ u = [held |-> [t.held EXCEPT ![x.id] = Append(@, x.event)],
                impacts |-> IF t.held[x.id] = <<>> \/ x.event.op \notin AssumptionImpacts
                            THEN t.impacts ELSE Append(t.impacts, impact)]
    BY <1>3, Zenon DEF When
  <2> HIDE DEF impact, after
  <2> QED BY <1>1, <2>1 DEF Extends
<1>6. u.held = new
  BY <1>4
<1>7. LegalModel(id, Append(h, x.event))
  <2>1. h \in Seq(Range(h))
    BY <1>1, <1>2 DEF ModelsLiving, RegisteredModels, History
  <2>2. ModelStates(id, Append(h, x.event)) = after
    <3>1. t.held[x.id] \in Seq(Range(t.held[x.id]))
      BY <1>1, <2>1
    <3>2. ModelStates(x.id, Append(t.held[x.id], x.event)) = after
      BY <3>1, ModelStep
    <3> HIDE DEF after
    <3> QED BY <1>1, <3>2
  <2> QED BY <1>4, <2>2 DEF LegalModel
<1> HIDE DEF impact, after, before
<1>8. /\ RegisteredModels(new) /\ new[id] = Append(h, x.event) /\ \A y \in Models \ {id} : new[y] = held[y]
  BY <1>1, AppendRegisteredModels DEF ModelsLiving
<1>9. \A y \in Models \ {id} : new[y] = held[y]
  BY <1>8
<1>10. ModelsLiving(new)
  BY <1>1, <1>7, <1>8, <1>9 DEF ModelsLiving
<1>13. ASSUME ModelsUntil(held, clock) PROVE ModelsUntil(new, clock)
  <2>1. PICK k : k = Append(h, x.event)
    OBVIOUS
  <2>2. h \in Seq(Range(h))
    BY <1>1, <1>2 DEF ModelsLiving, RegisteredModels, History
  <2>3. \A e \in Range(k) : e \in Range(h) \/ e = x.event
    BY <2>1, <2>2, AppendFacts
  <2>4. x.event.clock <= clock
    BY DEF ModelPlanned
  <2>5. \A e \in Range(k) : e.clock <= clock
    BY <1>1, <1>2, <1>13, <2>3, <2>4 DEF ModelsUntil
  <2> QED BY <1>8, <1>9, <1>13, <2>1, <2>5 DEF ModelsUntil
<1> QED BY <1>1, <1>4, <1>6, <1>8, <1>9, <1>10, <1>13

\* What the events of a projection of models leave.
LEMMA ModelEventsApply ==
    ASSUME NEW t, ModelsLiving(t.held), NEW clock, NEW events, Len(events) \in Nat,
           \A n \in 1..Len(events) : ModelPlanned(events[n], clock), NEW u \in ApplyModels(t, events)
    PROVE  ModelsLiving(u.held) /\ (ModelsUntil(t.held, clock) => ModelsUntil(u.held, clock))
<1>0. PICK f : ModelsRunThrough(f, t, events)
  BY ModelsAppliedFold
<1>1. /\ f[0] = {t}
      /\ \A n \in 1..Len(events) : f[n] = UNION {ApplyModel(s, events[n]) : s \in f[n - 1]}
      /\ ApplyModels(t, events) = f[Len(events)]
  BY <1>0 DEF ModelsRunThrough
<1> DEFINE Good(n) == \A s \in f[n] : ModelsLiving(s.held) /\ (ModelsUntil(t.held, clock) => ModelsUntil(s.held, clock))
           Bad == {n \in 0..Len(events) : ~Good(n)}
<1>2. Bad = {}
  <2> SUFFICES ASSUME Bad # {} PROVE FALSE
    OBVIOUS
  <2>1. PICK n \in Bad : \A m \in Bad : n <= m
    <3>1. Bad \in SUBSET Nat
      OBVIOUS
    <3> HIDE DEF Bad
    <3> QED BY <3>1, LeastMember
  <2>2. n \in 0..Len(events) /\ ~Good(n)
    BY <2>1
  <2>3. n # 0
    BY <1>1, <2>2
  <2>4. n \in 1..Len(events) /\ n - 1 \in 0..Len(events) /\ ~(n <= n - 1)
    BY <2>2, <2>3
  <2>5. Good(n - 1)
    <3> HIDE DEF Good
    <3> QED BY <2>1, <2>4
  <2>6. PICK s \in f[n] : ~(ModelsLiving(s.held) /\ (ModelsUntil(t.held, clock) => ModelsUntil(s.held, clock)))
    BY <2>2
  <2>7. PICK p \in f[n - 1] : s \in ApplyModel(p, events[n])
    BY <1>1, <2>4, <2>6
  <2>8. ModelsLiving(p.held) /\ (ModelsUntil(t.held, clock) => ModelsUntil(p.held, clock)) /\ ModelPlanned(events[n], clock)
    BY <2>4, <2>5, <2>7
  <2> QED BY <2>6, <2>7, <2>8, ModelEventApplies
<1>3. Good(Len(events))
  <2>1. Len(events) \in 0..Len(events)
    OBVIOUS
  <2> HIDE DEF Good
  <2> QED BY <1>2, <2>1
<1> QED BY <1>1, <1>3
LEMMA ModelsFinite == IsFiniteSet(Models) /\ \A S \in SUBSET Models : IsFiniteSet(S) /\ Orders(EarlierModel, S)
<1>1. ModelOrder \in Seq(Range(ModelOrder))
  BY ModelOrderAssumption
<1>2. IsFiniteSet(Models)
  <2>1. Len(ModelOrder) \in Nat /\ DOMAIN ModelOrder = 1..Len(ModelOrder)
    BY <1>1, SeqFacts
  <2>2. ModelOrder \in Surjection(1..Len(ModelOrder), Models)
    BY <2>1, <1>1, LenProperties DEF Surjection, Models, Range
  <2>3. IsFiniteSet(1..Len(ModelOrder))
    BY <2>1, FS_Interval
  <2> QED BY <2>2, <2>3, FS_Surjection
<1>3. ASSUME NEW S \in SUBSET Models PROVE IsFiniteSet(S) /\ Orders(EarlierModel, S)
  <2>1. IsFiniteSet(S)
    BY <1>2, FS_Subset
  <2>2. Orders(EarlierModel, S)
    BY <1>1, EarlierOrders DEF EarlierModel, Models
  <2> QED BY <2>1, <2>2
<1> QED BY <1>2, <1>3

\* The models that are due at a clock, in canonical order.
DueModels(held, clock) == {x \in Models : ModelDue(x, held[x], clock)}

OrderedModels(S) == InOrder(S, EarlierModel)

LEMMA OrderedModelLists ==
    ASSUME NEW S \in SUBSET Models
    PROVE  /\ IsFiniteSet(S) /\ Cardinality(S) \in Nat /\ OrderedModels(S) \in [1..Cardinality(S) -> S]
           /\ OrderedModels(S) \in Seq(S) /\ OrderedModels(S) \in Seq(Range(OrderedModels(S))) /\ Len(OrderedModels(S)) = Cardinality(S)
           /\ \A x \in S : \E n \in 1..Cardinality(S) : OrderedModels(S)[n] = x
           /\ \A m, n \in 1..Cardinality(S) : OrderedModels(S)[m] = OrderedModels(S)[n] => m = n
<1>1. IsFiniteSet(S) /\ Orders(EarlierModel, S)
  BY ModelsFinite
<1> QED BY <1>1, InOrderLists DEF OrderedModels

LEMMA ModelBeforeOrders ==
    ASSUME NEW explicit, \A x \in explicit : x.id \in Models /\ Len(x.prev) \in Nat, Placed(explicit),
           NEW R, R = {p \in explicit \X explicit : ModelBefore(p[1], p[2])}
    PROVE  Orders(R, explicit)
<1>1. \A x \in explicit : Position(ModelOrder, x.id) \in Nat /\ ModelOrder[Position(ModelOrder, x.id)] = x.id
  <2>1. ModelOrder \in Seq(Range(ModelOrder)) /\ Len(ModelOrder) \in Nat
    BY ModelOrderAssumption, SeqFacts
  <2> QED BY <2>1, PositionFacts DEF Models
<1>2. \A x, y \in explicit : <<x, y>> \in R <=> ModelBefore(x, y)
  OBVIOUS
<1>3. \A x, y \in explicit : Position(ModelOrder, x.id) = Position(ModelOrder, y.id) <=> x.id = y.id
  BY <1>1
<1>4. \A x, y \in explicit : x.id = y.id /\ Len(x.prev) = Len(y.prev) => x = y
  BY DEF Placed
<1> DEFINE place(x) == Position(ModelOrder, x.id)
           size(x)  == Len(x.prev)
<1>5. /\ \A x \in explicit : place(x) \in Nat /\ size(x) \in Nat
      /\ \A x, y \in explicit : /\ <<x, y>> \in R <=> place(x) < place(y) \/ (place(x) = place(y) /\ size(x) < size(y))
                                /\ place(x) = place(y) /\ size(x) = size(y) => x = y
  BY <1>1, <1>2, <1>3, <1>4 DEF ModelBefore
<1> HIDE DEF place, size
<1> QED BY <1>5 DEF Orders

LEMMA CanonicalModelsLists ==
    ASSUME NEW explicit, IsFiniteSet(explicit), Placed(explicit),
           \A x \in explicit : x.id \in Models /\ Len(x.prev) \in Nat
    PROVE  /\ CanonicalModels(explicit) \in Seq(explicit) /\ CanonicalModels(explicit) \in Seq(Range(CanonicalModels(explicit)))
           /\ Len(CanonicalModels(explicit)) = Cardinality(explicit)
           /\ \A x \in explicit : \E n \in 1..Len(CanonicalModels(explicit)) : CanonicalModels(explicit)[n] = x
<1>1. PICK R : R = {p \in explicit \X explicit : ModelBefore(p[1], p[2])}
  OBVIOUS
<1>2. Orders(R, explicit)
  BY <1>1, ModelBeforeOrders
<1>3. CanonicalModels(explicit) = InOrder(explicit, R)
  BY <1>1 DEF CanonicalModels
<1> QED BY <1>2, <1>3, InOrderLists

\* The expiries of a pass are planned events, of the models that are due.
ModelExpiresEach(late, held, due, clock) ==
    /\ Len(late) \in Nat /\ Len(late) = Cardinality(due)
    /\ \A n \in 1..Len(late) : /\ ModelPlanned(late[n], clock) /\ late[n].id \in due /\ late[n].id = OrderedModels(due)[n]
                               /\ late[n].prev = held[late[n].id] /\ late[n].event = ExpireEvent(clock)

LEMMA ModelExpiriesPlanned ==
    ASSUME NEW held, NEW clock \in Int, NEW due, due = DueModels(held, clock), NEW late, late = ModelExpiries(held, clock)
    PROVE  ModelExpiresEach(late, held, due, clock)
<1>1. due \in SUBSET Models
  BY DEF DueModels
<1>2. PICK ids, N : ids = OrderedModels(due) /\ N = Cardinality(due) /\ N \in Nat /\ N = Len(ids)
  BY <1>1, OrderedModelLists
<1>3. late = [n \in 1..N |-> [id |-> ids[n], prev |-> held[ids[n]], event |-> ExpireEvent(clock)]]
  BY <1>2 DEF ModelExpiries, DueModels, OrderedModels
<1>4. Len(late) = N /\ \A n \in 1..N : late[n].id = ids[n] /\ late[n].prev = held[ids[n]] /\ late[n].event = ExpireEvent(clock)
  BY <1>2, <1>3
<1>5. \A n \in 1..N : ids[n] \in due
  <2>1. ids \in Seq(due) /\ Len(ids) = N
    BY <1>1, <1>2, OrderedModelLists
  <2> QED BY <2>1, ElementOfSeq
<1>6. ExpireEvent(clock).clock = clock /\ ExpireEvent(clock).op = "EXPIRE"
  BY DEF ExpireEvent
<1> QED BY <1>1, <1>2, <1>4, <1>5, <1>6 DEF ModelPlanned, ModelExpiresEach

\* An event that is legal at the head of a history is applied.
LEMMA ModelEventPossible ==
    ASSUME NEW t, ModelsLiving(t.held), NEW x, NEW clock, ModelPlanned(x, clock),
           x.prev = t.held[x.id], LegalModel(x.id, Append(x.prev, x.event))
    PROVE  ApplyModel(t, x) # {}
<1>1. PICK id, h : id = x.id /\ h = t.held[id] /\ x.prev = h
  OBVIOUS
<1>2. id \in Models
  BY <1>1 DEF ModelPlanned
<1> DEFINE after == UNION {ReduceModel(x.id, m, x.event) : m \in ModelStates(x.id, t.held[x.id])}
<1>3. after # {}
  <2>1. h \in Seq(Range(h))
    BY <1>1, <1>2 DEF ModelsLiving, RegisteredModels, History
  <2>2. t.held[x.id] \in Seq(Range(t.held[x.id]))
    BY <1>1, <2>1
  <2>3. ModelStates(x.id, Append(t.held[x.id], x.event)) = after
    BY <2>2, ModelStep
  <2> HIDE DEF after
  <2> QED BY <2>3 DEF LegalModel
<1>4. Extends(t.held, x, after)
  <2> HIDE DEF after
  <2> QED BY <1>3 DEF Extends
<1> QED BY <1>4, Zenon DEF ApplyModel, When

\* The pass appends one expiry to each model that is due, and nothing else;
\* it is done when each may be expired.
ModelsMayExpire(held, due, clock) == \A x \in due : LegalModel(x, Append(held[x], ExpireEvent(clock)))

ModelPassDone(w, due, clock, left) ==
    /\ \A t \in left : \A x \in Models :
           t.held[x] = IF x \in due THEN Append(w.held[x], ExpireEvent(clock)) ELSE w.held[x]
    /\ ModelsMayExpire(w.held, due, clock) => left # {}

LEMMA ModelPassExpires ==
    ASSUME NEW w, ModelsLiving(w.held), NEW clock \in Int, NEW due, due = DueModels(w.held, clock),
           NEW late, late = ModelExpiries(w.held, clock)
    PROVE  ModelPassDone(w, due, clock, ApplyModels(w, late))
<1>0. ModelExpiresEach(late, w.held, due, clock)
  BY ModelExpiriesPlanned
<1>0a. due \in SUBSET Models
  BY DEF DueModels
<1>1. PICK N : N = Len(late) /\ N \in Nat /\ Len(late) \in Nat /\ N = Cardinality(due)
  BY <1>0 DEF ModelExpiresEach
<1>2. \A n \in 1..N : /\ ModelPlanned(late[n], clock) /\ late[n].id \in due /\ late[n].id = OrderedModels(due)[n]
                      /\ late[n].prev = w.held[late[n].id] /\ late[n].event = ExpireEvent(clock)
  BY <1>0, <1>1 DEF ModelExpiresEach
<1>3a. PICK f : ModelsRunThrough(f, w, late)
  BY <1>1, ModelsAppliedFold
<1>3. /\ f[0] = {w}
      /\ \A n \in 1..Len(late) : f[n] = UNION {ApplyModel(s, late[n]) : s \in f[n - 1]}
      /\ ApplyModels(w, late) = f[Len(late)]
  BY <1>3a DEF ModelsRunThrough
<1> DEFINE Gone(x, n) == \E m \in 1..n : late[m].id = x
           After(u, n) == \A x \in Models :
               u.held[x] = IF Gone(x, n) THEN Append(w.held[x], ExpireEvent(clock)) ELSE w.held[x]
           Good(n) == /\ \A u \in f[n] : ModelsLiving(u.held) /\ After(u, n)
                      /\ ModelsMayExpire(w.held, due, clock) => f[n] # {}
           Bad == {n \in 0..N : ~Good(n)}
<1>4. Bad = {}
  <2> SUFFICES ASSUME Bad # {} PROVE FALSE
    OBVIOUS
  <2>1. PICK n \in Bad : \A m \in Bad : n <= m
    <3>1. Bad \in SUBSET Nat
      OBVIOUS
    <3> HIDE DEF Bad
    <3> QED BY <3>1, LeastMember
  <2>2. n \in 0..N /\ ~Good(n)
    BY <2>1
  <2>3. n # 0
    <3>1. \A x : ~Gone(x, 0)
      OBVIOUS
    <3> HIDE DEF Gone
    <3>2. After(w, 0)
      BY <3>1
    <3> HIDE DEF After
    <3>3. Good(0)
      BY <1>3, <3>2
    <3> QED BY <2>2, <3>3
  <2>4. n \in 1..N /\ n - 1 \in 0..N /\ ~(n <= n - 1)
    BY <1>1, <2>2, <2>3
  <2>5. Good(n - 1)
    <3> HIDE DEF Good
    <3> QED BY <2>1, <2>4
  <2>6. PICK y, id : y = late[n] /\ id = y.id
    OBVIOUS
  <2>7. ModelPlanned(y, clock) /\ id \in due /\ id \in Models /\ y.prev = w.held[id] /\ y.event = ExpireEvent(clock)
    BY <1>0a, <1>2, <2>4, <2>6
  <2>8. \A x : Gone(x, n) <=> Gone(x, n - 1) \/ x = id
    <3>1. \A m : m \in 1..n <=> m \in 1..(n - 1) \/ m = n
      BY <2>4
    <3> QED BY <2>6, <3>1
  <2>9. ~Gone(id, n - 1)
    <3>1. \A m, k \in 1..N : OrderedModels(due)[m] = OrderedModels(due)[k] => m = k
      BY <1>0a, <1>1, OrderedModelLists
    <3>2. \A m \in 1..(n - 1) : m \in 1..N /\ m # n
      BY <1>1, <2>4
    <3>3. \A m \in 1..(n - 1) : OrderedModels(due)[m] # OrderedModels(due)[n]
      BY <2>4, <3>1, <3>2
    <3> QED BY <1>2, <2>4, <2>6, <3>2, <3>3
  <2>10. \A p \in f[n - 1] : ModelsLiving(p.held) /\ After(p, n - 1)
    BY <2>5
  <2>11. f[n] = UNION {ApplyModel(s, y) : s \in f[n - 1]}
    BY <1>1, <1>3, <2>4, <2>6
  <2> HIDE DEF Gone
  <2>12. ASSUME NEW u \in f[n] PROVE ModelsLiving(u.held) /\ After(u, n)
    <3>1. PICK p \in f[n - 1] : u \in ApplyModel(p, y)
      BY <2>11
    <3>2. ModelsLiving(p.held) /\ After(p, n - 1)
      BY <2>10
    <3>3. /\ y.prev = p.held[y.id] /\ ModelsLiving(u.held) /\ u.held[y.id] = Append(p.held[y.id], y.event)
          /\ \A x \in Models \ {y.id} : u.held[x] = p.held[x]
      BY <2>7, <3>1, <3>2, ModelEventApplies
    <3>4. u.held[id] = Append(w.held[id], ExpireEvent(clock))
      BY <2>6, <2>7, <3>3
    <3>5. \A x \in Models \ {id} : u.held[x] = p.held[x]
      BY <2>6, <3>3
    <3>6. After(u, n)
      BY <2>8, <3>2, <3>4, <3>5
    <3> QED BY <3>3, <3>6
  <2>13. ASSUME ModelsMayExpire(w.held, due, clock) PROVE f[n] # {}
    <3>1. PICK p \in f[n - 1] : TRUE
      BY <2>5, <2>13
    <3>2. ModelsLiving(p.held) /\ After(p, n - 1)
      BY <2>10
    <3>3. p.held[id] = w.held[id]
      BY <2>7, <2>9, <3>2
    <3>4. LegalModel(id, Append(w.held[id], ExpireEvent(clock)))
      BY <2>7, <2>13 DEF ModelsMayExpire
    <3>5. y.prev = p.held[y.id] /\ LegalModel(y.id, Append(y.prev, y.event))
      BY <2>6, <2>7, <3>3, <3>4
    <3>6. ApplyModel(p, y) # {}
      BY <2>7, <3>2, <3>5, ModelEventPossible
    <3> QED BY <2>11, <3>6
  <2>14. Good(n)
    <3> HIDE DEF After
    <3> QED BY <2>12, <2>13
  <2> QED BY <2>2, <2>14
<1>5. Good(N)
  <2>1. N \in 0..N
    BY <1>1
  <2> HIDE DEF Good
  <2> QED BY <1>4, <2>1
<1>6. \A x \in Models : Gone(x, N) <=> x \in due
  <2>1. \A x \in due : \E n \in 1..Cardinality(due) : OrderedModels(due)[n] = x
    BY <1>0a, OrderedModelLists
  <2> QED BY <1>1, <1>2, <2>1
<1> HIDE DEF Gone
<1>7. ApplyModels(w, late) = f[N]
  BY <1>1, <1>3
<1> QED BY <1>5, <1>6, <1>7 DEF ModelPassDone


\* A plan of models applies the explicit events, then the expiries due on what they leave.
ModelPlanOf(p, held, clock) ==
    \E s, t : /\ t \in ApplyModels(s, ModelExpiries(s.held, clock)) /\ p.post = t.held
              /\ ModelsLiving(s.held) /\ (ModelsUntil(held, clock) => ModelsUntil(s.held, clock)) /\ ModelsLiving(t.held)

LEMMA ModelPlanRuns ==
    ASSUME NEW held, RegisteredModels(held), NEW clock \in Int, NEW pairs, NEW explicit, IsFiniteSet(explicit),
           \A x \in explicit : x.id \in Models /\ Len(x.prev) \in Nat /\ (x.event.op = "PROPOSE" => DeclaresModel(x.event.arg)),
           NEW p \in ModelPlan(held, explicit, pairs, clock)
    PROVE  ModelPlanOf(p, held, clock)
<1> DEFINE plan(q) == {[pre |-> held, explicit |-> explicit, post |-> u.held, impacts |-> u.impacts] :
                       u \in ApplyModels(q, ModelExpiries(q.held, clock))}
<1>1. /\ Placed(explicit) /\ (\A x \in explicit : x.event.clock = clock)
      /\ (\A id \in Models : LegalModel(id, held[id]))
      /\ p \in UNION {plan(q) : q \in ApplyModels([held |-> held, impacts |-> <<>>], CanonicalModels(explicit))}
  BY Zenon DEF ModelPlan
<1>2. PICK first, start : first = CanonicalModels(explicit) /\ start = [held |-> held, impacts |-> <<>>]
  OBVIOUS
<1>3. PICK s \in ApplyModels(start, first) : p \in plan(s)
  <2> HIDE DEF plan
  <2> QED BY <1>1, <1>2
<1>4. PICK t \in ApplyModels(s, ModelExpiries(s.held, clock)) :
         p = [pre |-> held, explicit |-> explicit, post |-> t.held, impacts |-> t.impacts]
  BY <1>3
<1> HIDE DEF plan
<1>5. PICK late : late = ModelExpiries(s.held, clock)
  OBVIOUS
<1>6. first \in Seq(explicit) /\ Len(first) \in Nat
  BY <1>1, <1>2, CanonicalModelsLists, LenProperties
<1>7. \A n \in 1..Len(first) : ModelPlanned(first[n], clock)
  BY <1>1, <1>6, ElementOfSeq DEF ModelPlanned
<1>8. ModelsLiving(start.held) /\ start.held = held
  BY <1>1, <1>2 DEF ModelsLiving
<1>9. ModelsLiving(s.held) /\ (ModelsUntil(start.held, clock) => ModelsUntil(s.held, clock))
  BY <1>3, <1>6, <1>7, <1>8, ModelEventsApply
<1>10. Len(late) \in Nat /\ \A n \in 1..Len(late) : ModelPlanned(late[n], clock)
  <2>1. PICK due : due = DueModels(s.held, clock)
    OBVIOUS
  <2>2. ModelExpiresEach(late, s.held, due, clock)
    BY <1>5, <2>1, ModelExpiriesPlanned
  <2> QED BY <2>2 DEF ModelExpiresEach
<1>11. ModelsLiving(t.held)
  BY <1>4, <1>5, <1>9, <1>10, ModelEventsApply
<1>12. p.post = t.held
  BY <1>4
<1> QED BY <1>4, <1>8, <1>9, <1>11, <1>12 DEF ModelPlanOf

\* No model stands past its expiry when the pass is done, unless it is declined
\* or changed at this very clock.
LEMMA NoModelOverdue ==
    ASSUME NEW p, NEW held, NEW clock \in Int, ModelPlanOf(p, held, clock), ModelsUntil(held, clock),
           NEW id \in Models \ Declined, NEW a \in ModelStates(id, p.post[id]) \ {NoState}
    PROVE  \/ a.standing \notin ChallengeableStandings \/ a.clock = clock
           \/ a.declared.expires = None
           \/ a.declared.expires # None => a.declared.expires > clock
<1>1. PICK s, t : /\ t \in ApplyModels(s, ModelExpiries(s.held, clock)) /\ p.post = t.held
                  /\ ModelsLiving(s.held) /\ ModelsUntil(s.held, clock) /\ ModelsLiving(t.held)
  BY Zenon DEF ModelPlanOf
<1>2. PICK h, k : h = s.held[id] /\ k = t.held[id]
  OBVIOUS
<1>2a. PICK due, late : due = DueModels(s.held, clock) /\ late = ModelExpiries(s.held, clock)
  OBVIOUS
<1>3. k = IF id \in due THEN Append(h, ExpireEvent(clock)) ELSE h
  <2>1. ModelPassDone(s, due, clock, ApplyModels(s, late))
    BY <1>1, <1>2a, ModelPassExpires
  <2> QED BY <1>1, <1>2, <1>2a, <2>1 DEF ModelPassDone
<1>4. /\ History(h) /\ (\A e \in Range(h) : e.clock <= clock) /\ History(k)
      /\ \A e \in Range(k) : e.op = "PROPOSE" => DeclaresModel(e.arg)
  BY <1>1, <1>2 DEF ModelsLiving, RegisteredModels, ModelsUntil
<1>5. a \in ModelStates(id, k) /\ a # NoState
  BY <1>1, <1>2
<1>5a. Len(k) \in Nat
  BY <1>4, SeqFacts DEF History
<1>5b. PICK f : /\ f[0] = {NoState}
                /\ \A n \in 1..Len(k) : f[n] = UNION {ReduceModel(id, x, k[n]) : x \in f[n - 1]}
                /\ ModelStates(id, k) = f[Len(k)]
  BY <1>5a, ModelFold
<1>6. k # <<>>
  BY <1>5, <1>5b
<1>7. ModelStates(id, k) = {a} /\ a.declared = k[1].arg /\ k[1].op = "PROPOSE" /\ k[1] \in Range(k) /\ a.clock = k[Len(k)].clock
      /\ k[Len(k)] \in Range(k) /\ a.clock \in Int
  BY <1>4, <1>5, <1>6, ModelAtEnd
<1>8. a.declared.expires # None => a.declared.expires \in Int
  BY <1>4, <1>7 DEF DeclaresModel, Dated
<1>9. CASE id \in due
  <2>1. Len(k) = Len(h) + 1 /\ k[Len(h) + 1] = ExpireEvent(clock)
    BY <1>3, <1>4, <1>9, AppendFacts DEF History
  <2> QED BY <1>7, <2>1 DEF ExpireEvent
<1>10. CASE id \notin due
  <2>1. k = h /\ ~ModelDue(id, k, clock)
    BY <1>2, <1>2a, <1>3, <1>10 DEF DueModels
  <2>2. ~(a.standing \in ChallengeableStandings /\ Due(a.declared.expires, a.clock, clock))
    BY <1>6, <1>7, <2>1 DEF ModelDue
  <2>3. a.clock <= clock
    BY <1>4, <1>7, <2>1
  <2> QED BY <1>7, <1>8, <2>2, <2>3 DEF Due
<1> QED BY <1>9, <1>10

\* A model that is due may be expired.
LEMMA ModelExpiryLegal ==
    ASSUME NEW id, NEW h, History(h), LegalModel(id, h), NEW clock \in Int, ModelDue(id, h, clock)
    PROVE  LegalModel(id, Append(h, ExpireEvent(clock)))
<1>1. PICK e : e = ExpireEvent(clock)
  OBVIOUS
<1>2. e.op = "EXPIRE" /\ e.clock = clock
  BY <1>1 DEF ExpireEvent
<1>3. PICK a \in ModelStates(id, h) : TRUE
  BY DEF LegalModel
<1>4. h # <<>>
  BY DEF ModelDue
<1>5. ModelStates(id, h) = {a} /\ ModelAt(id, h) = a /\ Shape(a) /\ a.clock \in Int
  BY <1>3, <1>4, ModelAtEnd
<1>6. /\ a.standing \in ChallengeableStandings /\ a.declared.expires # None /\ a.clock < clock
      /\ a.declared.expires # None => clock >= a.declared.expires
  BY <1>5 DEF ModelDue, Due
<1>7. a # NoState /\ a.standing \notin TerminalStandings /\ ~(e.clock <= a.clock)
  BY <1>2, <1>5, <1>6, ShapeNotAbsent DEF ChallengeableStandings, TerminalStandings
<1>8. ReduceModel(id, a, e) = ExpireModel(a, e)
  <2>1. ReduceModel(id, a, e) = ModelOperation(a, e)
    BY <1>7 DEF ReduceModel
  <2> QED BY <1>2, <2>1 DEF ModelOperation
<1>9. ExpireModel(a, e) # {}
  BY <1>2, <1>6 DEF ExpireModel, When
<1>10. ModelStates(id, Append(h, e)) = UNION {ReduceModel(id, s, e) : s \in ModelStates(id, h)}
  BY ModelStep DEF History
<1>11. ModelStates(id, Append(h, e)) # {}
  BY <1>5, <1>8, <1>9, <1>10
<1> QED BY <1>1, <1>11 DEF LegalModel

\* An explicit event of a model that is legal never makes a projection fail.
LEMMA ModelPlanPossible ==
    ASSUME NEW held, ModelsLiving(held), NEW clock \in Int, NEW explicit,
           explicit = {} \/ \E x : explicit = {x},
           \A x \in explicit : /\ ModelPlanned(x, clock) /\ Len(x.prev) \in Nat /\ x.event.op # "ADMIT"
                               /\ x.prev = held[x.id] /\ LegalModel(x.id, Append(x.prev, x.event))
    PROVE  ModelPlan(held, explicit, {}, clock) # {}
<1>1. IsFiniteSet(explicit) /\ Placed(explicit) /\ Cardinality(explicit) = IF explicit = {} THEN 0 ELSE 1
  BY FS_EmptySet, FS_Singleton DEF Placed
<1>2. PICK first, start : first = CanonicalModels(explicit) /\ start = [held |-> held, impacts |-> <<>>]
  OBVIOUS
<1>3. first \in Seq(explicit) /\ Len(first) = Cardinality(explicit) /\ Len(first) \in Nat
  <2>1. \A x \in explicit : x.id \in Models /\ Len(x.prev) \in Nat
    BY DEF ModelPlanned
  <2>2. first \in Seq(explicit) /\ Len(first) = Cardinality(explicit)
    BY <1>1, <1>2, <2>1, CanonicalModelsLists
  <2> QED BY <1>1, <2>2
<1>4. ModelsLiving(start.held) /\ start.held = held
  BY <1>2
<1>5. PICK f : ModelsRunThrough(f, start, first)
  BY <1>3, ModelsAppliedFold
<1>6. ApplyModels(start, first) # {}
  <2>1. /\ f[0] = {start}
        /\ \A n \in 1..Len(first) : f[n] = UNION {ApplyModel(s, first[n]) : s \in f[n - 1]}
        /\ ApplyModels(start, first) = f[Len(first)]
    BY <1>5 DEF ModelsRunThrough
  <2>2. CASE explicit = {}
    BY <1>1, <1>3, <2>1, <2>2
  <2>3. CASE explicit # {}
    <3>1. PICK x : x = first[1]
      OBVIOUS
    <3>2. Len(first) = 1 /\ 1 \in 1..Len(first) /\ 1 - 1 = 0
      BY <1>1, <1>3, <2>3
    <3>3. x \in explicit
      BY <1>3, <3>1, <3>2, ElementOfSeq
    <3>4. f[1] = UNION {ApplyModel(s, x) : s \in f[0]}
      BY <2>1, <3>1, <3>2
    <3>5. ModelPlanned(x, clock) /\ x.prev = start.held[x.id] /\ LegalModel(x.id, Append(x.prev, x.event))
      BY <1>4, <3>3
    <3>6. ApplyModel(start, x) # {}
      BY <1>4, <3>5, ModelEventPossible
    <3> QED BY <2>1, <3>2, <3>4, <3>6
  <2> QED BY <2>2, <2>3
<1>7. PICK s : s \in ApplyModels(start, first)
  BY <1>6
<1>8. ModelsLiving(s.held)
  <2>1. \A n \in 1..Len(first) : ModelPlanned(first[n], clock)
    BY <1>3, ElementOfSeq
  <2> QED BY <1>3, <1>4, <1>7, <2>1, ModelEventsApply
<1>9. PICK due, late : due = DueModels(s.held, clock) /\ late = ModelExpiries(s.held, clock)
  OBVIOUS
<1>10. due \in SUBSET Models /\ \A x \in due : ModelDue(x, s.held[x], clock)
  BY <1>9 DEF DueModels
<1>11. ModelsMayExpire(s.held, due, clock)
  <2> SUFFICES ASSUME NEW x \in due PROVE LegalModel(x, Append(s.held[x], ExpireEvent(clock)))
    BY DEF ModelsMayExpire
  <2>1. PICK h : h = s.held[x]
    OBVIOUS
  <2>2. History(h) /\ LegalModel(x, h) /\ ModelDue(x, h, clock)
    BY <1>8, <1>10, <2>1 DEF ModelsLiving, RegisteredModels
  <2> QED BY <2>1, <2>2, ModelExpiryLegal
<1>12. ApplyModels(s, late) # {}
  <2>1. ModelPassDone(s, due, clock, ApplyModels(s, late))
    BY <1>8, <1>9, <1>10, ModelPassExpires
  <2> QED BY <1>11, <2>1 DEF ModelPassDone
<1> DEFINE plan(q) == {[pre |-> held, explicit |-> explicit, post |-> u.held, impacts |-> u.impacts] :
                       u \in ApplyModels(q, ModelExpiries(q.held, clock))}
<1>13. ModelPlan(held, explicit, {}, clock) =
           UNION {plan(q) : q \in ApplyModels([held |-> held, impacts |-> <<>>], CanonicalModels(explicit))}
  <2>1. \A x \in explicit : BoundAdmission(x, {}, held) /\ x.event.clock = clock
    BY DEF BoundAdmission, ModelPlanned
  <2>2. \A id \in Models : LegalModel(id, held[id])
    BY DEF ModelsLiving
  <2> QED BY <1>1, <2>1, <2>2, Zenon DEF ModelPlan
<1>14. plan(s) # {}
  BY <1>9, <1>12
<1> HIDE DEF plan
<1> QED BY <1>2, <1>7, <1>13, <1>14

\* What a projection of models is asked to apply.
LEMMA AuthorizedModel ==
    ASSUME NEW was, NEW id, NEW by, NEW clock, NEW receipt, NEW a \in ModelAuthorization(was, id, by, clock, receipt)
    PROVE  a.id = id /\ a.prev = was[id] /\ Len(a.prev) = 1
<1>1. PICK m : a \in When(/\ ProposedModel(was, id, clock)
                          /\ receipt.material
                          /\ receipt.shadow = m.declared.graph
                          /\ receipt.difference = m.declared.difference,
                          [id |-> id, by |-> by, clock |-> clock, prev |-> was[id], root |-> was, receipt |-> receipt])
  BY DEF ModelAuthorization
<1>2. /\ ProposedModel(was, id, clock)
      /\ a = [id |-> id, by |-> by, clock |-> clock, prev |-> was[id], root |-> was, receipt |-> receipt]
  BY <1>1 DEF When
<1> QED BY <1>2 DEF ProposedModel

LEMMA AtMostTwo ==
    ASSUME NEW S, NEW T, S = {} \/ \E y : S = {y}, T = {} \/ \E y : T = {y}
    PROVE  IsFiniteSet(S \cup T)
<1>1. ASSUME NEW U, U = {} \/ \E y : U = {y} PROVE IsFiniteSet(U)
  <2>1. CASE U = {}
    BY <2>1, FS_EmptySet
  <2>2. ASSUME NEW y, U = {y} PROVE IsFiniteSet(U)
    <3>1. IsFiniteSet({y})
      BY FS_Singleton
    <3> QED BY <2>2, <3>1
  <2> QED BY <1>1, <2>1, <2>2
<1>2. IsFiniteSet(S) /\ IsFiniteSet(T)
  BY <1>1
<1> QED BY <1>2, FS_Union

ModelsAsked(explicit, pairs, clock) ==
    /\ IsFiniteSet(explicit) /\ \A x \in explicit : x.id \in Models /\ Len(x.prev) \in Nat
    /\ \A x \in explicit : x.event.op = "PROPOSE" => DeclaresModel(x.event.arg)
    /\ pairs = {} => /\ explicit = {} \/ \E x : explicit = {x}
                     /\ \A x \in explicit : x.prev = models[x.id] /\ x.event.clock = clock

LEMMA ModelExplicit ==
    ASSUME RegisteredModels(models), NEW clock, NEW pairs \in {{}} \cup {{p} : p \in ModelEvidence(clock)},
           NEW asked \in AskedOfModels(clock), NEW explicit,
           explicit = {[id |-> p.authorization.id, prev |-> p.authorization.prev,
                        event |-> ModelAdmitEvent(p.authorization)] : p \in pairs}
                      \cup {[id |-> x.id, prev |-> models[x.id], event |-> x.event] : x \in asked}
    PROVE  ModelsAsked(explicit, pairs, clock)
<1> DEFINE made(p) == [id |-> p.authorization.id, prev |-> p.authorization.prev, event |-> ModelAdmitEvent(p.authorization)]
           plain(x) == [id |-> x.id, prev |-> models[x.id], event |-> x.event]
<1>1. ASSUME NEW p \in pairs PROVE made(p).id \in Models /\ Len(made(p).prev) \in Nat /\ made(p).event.op = "ADMIT"
  <2>1. PICK id, receipt, was, a, c : /\ id \in Models /\ a \in ModelAuthorization(was, id, ExpiryAuthority, clock, receipt)
                                      /\ p = [authorization |-> a, comparison |-> c]
    BY DEF ModelEvidence
  <2>2. p.authorization = a
    BY <2>1
  <2>3. a.id \in Models /\ Len(a.prev) = 1
    BY <2>1, AuthorizedModel
  <2>4. ModelAdmitEvent(a).op = "ADMIT"
    BY DEF ModelAdmitEvent
  <2> QED BY <2>2, <2>3, <2>4
<1>2. asked = {} \/ \E id \in Models, e \in ModelIntents : e.clock = clock /\ asked = {[id |-> id, event |-> e]}
  BY DEF AskedOfModels
<1>3. ASSUME NEW x \in asked
      PROVE  /\ plain(x).id \in Models /\ Len(plain(x).prev) \in Nat /\ plain(x).prev = models[plain(x).id]
             /\ plain(x).event.clock = clock /\ (plain(x).event.op = "PROPOSE" => DeclaresModel(plain(x).event.arg))
  <2>1. PICK id \in Models, e \in ModelIntents : e.clock = clock /\ x = [id |-> id, event |-> e]
    BY <1>2
  <2>2. x.id = id /\ x.event = e
    BY <2>1
  <2>3. Len(models[id]) \in Nat
    BY SeqFacts DEF RegisteredModels, History
  <2>4. e.op = "PROPOSE" => DeclaresModel(e.arg)
    BY RequestsAssumption
  <2> QED BY <2>1, <2>2, <2>3, <2>4
<1>4. explicit = {made(p) : p \in pairs} \cup {plain(x) : x \in asked}
  OBVIOUS
<1> HIDE DEF made, plain
<1>5. {made(p) : p \in pairs} = {} \/ \E y : {made(p) : p \in pairs} = {y}
  <2>1. pairs = {} \/ \E p : pairs = {p}
    OBVIOUS
  <2> QED BY <2>1
<1>6. {plain(x) : x \in asked} = {} \/ \E y : {plain(x) : x \in asked} = {y}
  <2>1. asked = {} \/ \E x : asked = {x}
    BY <1>2
  <2> QED BY <2>1
<1>8. IsFiniteSet(explicit)
  <2>1. PICK S, T : S = {made(p) : p \in pairs} /\ T = {plain(x) : x \in asked}
    OBVIOUS
  <2>2. explicit = S \cup T /\ (S = {} \/ \E y : S = {y}) /\ (T = {} \/ \E y : T = {y})
    BY <1>4, <1>5, <1>6, <2>1
  <2>3. IsFiniteSet(S \cup T)
    BY <2>2, AtMostTwo, Zenon
  <2>4. explicit = S \cup T
    BY <2>2
  <2> QED BY <2>3, <2>4, Zenon
<1>9. \A y \in explicit : (\E p \in pairs : y = made(p)) \/ (\E x \in asked : y = plain(x))
  BY <1>4
<1>10. \A y \in explicit : /\ y.id \in Models /\ Len(y.prev) \in Nat
                           /\ y.event.op = "PROPOSE" => DeclaresModel(y.event.arg)
  <2>1. "ADMIT" # "PROPOSE"
    OBVIOUS
  <2> QED BY <1>1, <1>3, <1>9, <2>1
<1>11. ASSUME pairs = {}
       PROVE  /\ explicit = {} \/ \E x : explicit = {x}
              /\ \A x \in explicit : x.prev = models[x.id] /\ x.event.clock = clock
  <2>1. explicit = {plain(x) : x \in asked}
    BY <1>4, <1>11
  <2>2. \A y \in explicit : \E x \in asked : y = plain(x)
    BY <2>1
  <2> QED BY <1>3, <1>6, <2>1, <2>2
<1> QED BY <1>8, <1>10, <1>11 DEF ModelsAsked

\* Nothing is overdue in a registry that is projected, and a projection of
\* what is legal does not fail.
ProjectionComplete(explicit, plans, clock) ==
    /\ /\ \A x \in explicit : LegalAssumption(x.id, Append(x.prev, x.event)) /\ x.event.op # "ADMIT"
       /\ \A id \in Assumptions : LegalAssumption(id, hs[id])
       => plans # {}
    /\ \A p \in plans : \A id \in Assumptions \ Declined :
          p.post[id] # <<>> =>
              LET s == AssumptionAt(id, p.post[id])
              IN  \/ s.standing \notin ActiveStandings \/ s.clock = clock
                  \/ s.declared.expires = None
                  \/ s.declared.expires # None => s.declared.expires > clock

ModelProjectionComplete(explicit, pairs, plans, clock) ==
    /\ /\ pairs = {} /\ \A x \in explicit : LegalModel(x.id, Append(x.prev, x.event)) /\ x.event.op # "ADMIT"
       /\ \A id \in Models : LegalModel(id, models[id])
       => plans # {}
    /\ \A p \in plans : \A id \in Models \ Declined : \A m \in ModelStates(id, p.post[id]) \ {NoState} :
          \/ m.standing \notin ChallengeableStandings \/ m.clock = clock
          \/ m.declared.expires = None
          \/ m.declared.expires # None => m.declared.expires > clock

LEMMA ProjectionsComplete ==
    ASSUME Registered(hs), NEW clock \in Int, Until(hs, clock), NEW evidence, NEW intents \in Explicit(Assumptions, clock),
           NEW auths \in {{}} \cup {{p} : p \in Admissions(evidence, clock)},
           NEW explicit, explicit = intents \cup {[id |-> p.id, prev |-> p.prev, event |-> AdmitEvent(p)] : p \in auths},
           NEW root, NEW plans, plans = AssumptionPlan(hs, explicit, auths, root, clock)
    PROVE  ProjectionComplete(explicit, plans, clock)
<1>1. IsFiniteSet(explicit) /\ \A x \in explicit : x.id \in Assumptions /\ Len(x.prev) \in Nat
  BY ExplicitEvents
<1>2. \A x \in intents : x.event.clock = clock /\ x.prev = hs[x.id]
  <2>1. \A x \in intents : \E e \in Intents : x.event = e /\ e.clock = clock /\ x.prev = hs[x.id]
    BY ExplicitEvents
  <2> QED BY <2>1
<1>3. \A x \in explicit : x.event.op = "PROPOSE" => Declares(x.event.arg)
  BY ExplicitDeclares
<1>4. ASSUME \A x \in explicit : LegalAssumption(x.id, Append(x.prev, x.event)) /\ x.event.op # "ADMIT",
             \A id \in Assumptions : LegalAssumption(id, hs[id])
      PROVE  plans # {}
  <2>1. auths = {}
    <3> SUFFICES ASSUME NEW a \in auths PROVE FALSE
      OBVIOUS
    <3>1. PICK x : x = [id |-> a.id, prev |-> a.prev, event |-> AdmitEvent(a)]
      OBVIOUS
    <3>2. x \in explicit /\ x.event = AdmitEvent(a)
      BY <3>1
    <3>3. AdmitEvent(a).op = "ADMIT"
      BY DEF AdmitEvent
    <3> QED BY <1>4, <3>2, <3>3
  <2>2. explicit = intents
    BY <2>1
  <2>3. intents = {} \/ \E x : intents = {x}
    BY DEF Explicit
  <2>4. Living(hs)
    BY <1>4 DEF Living
  <2>5. \A x \in explicit : /\ Planned(x, clock) /\ Len(x.prev) \in Nat /\ x.event.op # "ADMIT"
                            /\ x.prev = hs[x.id] /\ LegalAssumption(x.id, Append(x.prev, x.event))
    BY <1>1, <1>2, <1>3, <1>4, <2>2 DEF Planned
  <2>6. explicit = {} \/ \E x : explicit = {x}
    BY <2>2, <2>3
  <2>7. AssumptionPlan(hs, explicit, {}, root, clock) # {}
    BY <2>4, <2>5, <2>6, PlanPossible
  <2> QED BY <2>1, <2>7
<1>5. ASSUME NEW p \in plans, NEW id \in Assumptions \ Declined, p.post[id] # <<>>, NEW s, s = AssumptionAt(id, p.post[id])
      PROVE  \/ s.standing \notin ActiveStandings \/ s.clock = clock
             \/ s.declared.expires = None
             \/ s.declared.expires # None => s.declared.expires > clock
  <2>1. p \in AssumptionPlan(hs, explicit, auths, root, clock)
    BY <1>5
  <2>2. \A x \in explicit : x.id \in Assumptions /\ Len(x.prev) \in Nat /\ (x.event.op = "PROPOSE" => Declares(x.event.arg))
    BY <1>1, <1>3
  <2>3. PlanOf(p, hs, clock)
    BY <1>1, <2>1, <2>2, PlanRuns
  <2> QED BY <1>5, <2>3, NothingOverdue
<1> QED BY <1>4, <1>5 DEF ProjectionComplete

LEMMA ModelProjectionsComplete ==
    ASSUME RegisteredModels(models), NEW clock \in Int, ModelsUntil(models, clock), NEW pairs, NEW explicit,
           ModelsAsked(explicit, pairs, clock), NEW plans, plans = ModelPlan(models, explicit, pairs, clock)
    PROVE  ModelProjectionComplete(explicit, pairs, plans, clock)
<1>1. IsFiniteSet(explicit) /\ \A x \in explicit : x.id \in Models /\ Len(x.prev) \in Nat
                                                /\ (x.event.op = "PROPOSE" => DeclaresModel(x.event.arg))
  BY DEF ModelsAsked
<1>2. ASSUME pairs = {},
             \A x \in explicit : LegalModel(x.id, Append(x.prev, x.event)) /\ x.event.op # "ADMIT",
             \A id \in Models : LegalModel(id, models[id])
      PROVE  plans # {}
  <2>1. explicit = {} \/ \E x : explicit = {x}
    BY <1>2 DEF ModelsAsked
  <2>2. \A x \in explicit : x.prev = models[x.id] /\ x.event.clock = clock
    BY <1>2 DEF ModelsAsked
  <2>3. ModelsLiving(models)
    BY <1>2 DEF ModelsLiving
  <2>4. \A x \in explicit : /\ ModelPlanned(x, clock) /\ Len(x.prev) \in Nat /\ x.event.op # "ADMIT"
                            /\ x.prev = models[x.id] /\ LegalModel(x.id, Append(x.prev, x.event))
    BY <1>1, <1>2, <2>2 DEF ModelPlanned
  <2>5. ModelPlan(models, explicit, {}, clock) # {}
    BY <2>1, <2>3, <2>4, ModelPlanPossible
  <2> QED BY <1>2, <2>5
<1>3. ASSUME NEW p \in plans, NEW id \in Models \ Declined, NEW m \in ModelStates(id, p.post[id]) \ {NoState}
      PROVE  \/ m.standing \notin ChallengeableStandings \/ m.clock = clock
             \/ m.declared.expires = None
             \/ m.declared.expires # None => m.declared.expires > clock
  <2>1. p \in ModelPlan(models, explicit, pairs, clock)
    BY <1>3
  <2>2. ModelPlanOf(p, models, clock)
    BY <1>1, <2>1, ModelPlanRuns
  <2> QED BY <1>3, <2>2, NoModelOverdue
<1> QED BY <1>2, <1>3 DEF ModelProjectionComplete

\* A projection of what is legal does not fail, and when it is done nothing but
\* what is declined, or changed at its clock, stands past its expiry.
THEOREM ExpiriesAreComplete == Spec => []ExpiryComplete
<1> DEFINE Rule == /\ Asked("projection") => ProjectionComplete(answer.explicit, answer.plans, answer.clock)
                   /\ Asked("model_projection") =>
                         ModelProjectionComplete(answer.explicit, answer.pairs, answer.plans, answer.clock)
<1>1. Init => Rule
  BY DEF Init, Asked
<1>2. Held /\ Rule /\ [Next]_vars => Rule'
  <2> SUFFICES ASSUME Held, Rule, [Next]_vars PROVE Rule'
    OBVIOUS
  <2>0. Registered(hs) /\ RegisteredModels(models)
    BY HeldRegistered
  <2>1. CASE UNCHANGED vars
    BY <2>1 DEF vars, Asked, ProjectionComplete, ModelProjectionComplete
  <2>2. ASSUME NEW clock \in Projected, NEW asked, NEW intents \in Explicit(Assumptions, clock),
               Project(clock, asked, intents), answer'.to = "projection", UNCHANGED <<hs, models>>
        PROVE  Rule'
    <3>1. PICK evidence, auths, explicit :
             /\ auths \in {{}} \cup {{p} : p \in Admissions(evidence, clock)}
             /\ explicit = intents \cup {[id |-> p.id, prev |-> p.prev, event |-> AdmitEvent(p)] : p \in auths}
             /\ answer' = [to |-> "projection", clock |-> clock, explicit |-> explicit, evidence |-> evidence,
                           plans |-> AssumptionPlan(hs, explicit, auths, EvidenceRoot(evidence.post), clock)]
      BY <2>2, Zenon DEF Project
    <3>2. PICK root, plans : root = EvidenceRoot(evidence.post) /\ plans = AssumptionPlan(hs, explicit, auths, root, clock)
      OBVIOUS
    <3>3. answer'.plans = plans /\ answer'.explicit = explicit /\ answer'.clock = clock
      BY <3>1, <3>2
    <3>4. clock \in Int /\ Until(hs, clock)
      BY RequestsAssumption, TicksAssumption, AssumptionsAssumption DEF Held, Until
    <3>5. ProjectionComplete(explicit, plans, clock)
      BY <2>0, <3>1, <3>2, <3>4, ProjectionsComplete
    <3>6. ProjectionComplete(explicit, plans, clock)'
      BY <2>2, <3>5 DEF ProjectionComplete
    <3> QED BY <2>2, <3>3, <3>6 DEF Asked, ProjectionComplete
  <2>3. ASSUME NEW clock \in Projected, NEW pairs \in {{}} \cup {{p} : p \in ModelEvidence(clock)},
               NEW asked \in AskedOfModels(clock), ProjectModels(clock, pairs, asked),
               answer'.to = "model_projection", UNCHANGED <<hs, models>>
        PROVE  Rule'
    <3>1. PICK explicit :
             /\ explicit = {[id |-> p.authorization.id, prev |-> p.authorization.prev,
                             event |-> ModelAdmitEvent(p.authorization)] : p \in pairs}
                           \cup {[id |-> x.id, prev |-> models[x.id], event |-> x.event] : x \in asked}
             /\ answer' = [to |-> "model_projection", clock |-> clock, explicit |-> explicit, pairs |-> pairs,
                           plans |-> ModelPlan(models, explicit, pairs, clock)]
      BY <2>3, Zenon DEF ProjectModels
    <3>2. PICK plans : plans = ModelPlan(models, explicit, pairs, clock)
      OBVIOUS
    <3>3. answer'.plans = plans /\ answer'.explicit = explicit /\ answer'.clock = clock /\ answer'.pairs = pairs
      BY <3>1, <3>2
    <3>4. clock \in Int /\ ModelsUntil(models, clock)
      BY RequestsAssumption, TicksAssumption DEF Held, ModelsUntil
    <3>5. ModelsAsked(explicit, pairs, clock)
      BY <2>0, <3>1, ModelExplicit
    <3>6. ModelProjectionComplete(explicit, pairs, plans, clock)
      BY <2>0, <3>2, <3>4, <3>5, ModelProjectionsComplete
    <3>7. ModelProjectionComplete(explicit, pairs, plans, clock)'
      BY <2>3, <3>6 DEF ModelProjectionComplete
    <3> QED BY <2>3, <3>3, <3>7 DEF Asked, ModelProjectionComplete
  <2>4. CASE Next /\ answer'.to \notin {"model_projection", "projection"}
    BY <2>4 DEF Asked
  <2> QED BY <2>1, <2>2, <2>3, <2>4, OneQuestion
<1>3. Rule => ExpiryComplete
  BY Zenon DEF ExpiryComplete, ProjectionComplete, ModelProjectionComplete
<1> HIDE DEF Rule
<1> QED BY <1>1, <1>2, <1>3, HeldAlways, PTL DEF Spec
=============================================================================
