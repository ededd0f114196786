--------------------------- MODULE IndicesProofs ---------------------------
(***************************************************************************)
(* About numbers, ranks, the items of a sequence at some of its indices    *)
(* and sequences laid one after the other: what other proofs rest on.      *)
(***************************************************************************)
EXTENDS Indices, SequencesExt, FiniteSetTheorems, SequenceTheorems,
        WellFoundedInduction, TLAPS

\* There is a least number of some.
LEMMA LeastNumber ==
    ASSUME NEW S, S \subseteq Nat, S # {}
    PROVE  \E m \in S : \A n \in S : m <= n
<1> DEFINE below == {0..(i - 1) : i \in S}
<1>1. below \subseteq FiniteSubsetsOf(Nat) /\ below # {}
  <2>1. \A i \in S : 0..(i - 1) \in SUBSET Nat /\ IsFiniteSet(0..(i - 1))
    <3> TAKE i \in S
    <3>1. i - 1 \in Int /\ 0 \in Int
      OBVIOUS
    <3>2. IsFiniteSet(0..(i - 1))
      BY <3>1, FS_Interval
    <3> QED  BY <3>2
  <2> QED  BY <2>1 DEF FiniteSubsetsOf
<1>2. \E b \in below : \A c \in below : <<c, b>> \notin StrictSubsetOrdering(Nat)
  <2> HIDE DEF below
  <2> QED  BY <1>1, FS_StrictSubsetOrderingWellFounded, WFMin
<1>3. PICK m \in S : \A n \in S : <<0..(n - 1), 0..(m - 1)>> \notin StrictSubsetOrdering(Nat)
  BY <1>2
<1>4. ASSUME NEW n \in S, n < m
      PROVE  FALSE
  <2>1. /\ 0..(n - 1) \subseteq 0..(m - 1) /\ n \in 0..(m - 1) /\ n \notin 0..(n - 1)
        /\ 0..(n - 1) \in SUBSET Nat /\ 0..(m - 1) \in SUBSET Nat
    BY <1>4
  <2>2. <<0..(n - 1), 0..(m - 1)>> \in StrictSubsetOrdering(Nat)
    BY <2>1 DEF StrictSubsetOrdering
  <2> QED  BY <1>3, <2>2
<1> QED  BY <1>4

----------------------------------------------------------------------------
(* Ranks in a finite order, given as the set of its pairs. *)

IsOrderOn(S, le) ==
    /\ \A p, q \in S : <<p, q>> \in le \/ <<q, p>> \in le
    /\ \A p, q \in S : <<p, q>> \in le /\ <<q, p>> \in le => p = q
    /\ \A p, q, r \in S : <<p, q>> \in le /\ <<q, r>> \in le => <<p, r>> \in le

Rank(S, le, p) == Cardinality({q \in S : <<q, p>> \in le})

LEMMA RankType ==
    ASSUME NEW S, IsFiniteSet(S), NEW le, IsOrderOn(S, le), NEW p \in S
    PROVE  Rank(S, le, p) \in 1..Cardinality(S)
<1> DEFINE upto == {q \in S : <<q, p>> \in le}
<1>1. upto \in SUBSET S /\ p \in upto
  BY DEF IsOrderOn
<1>2. IsFiniteSet(upto) /\ Cardinality(upto) <= Cardinality(S)
  BY <1>1, FS_Subset
<1>3. Cardinality(upto) \in Nat /\ Cardinality(upto) # 0
  <2> HIDE DEF upto
  <2> QED  BY <1>1, <1>2, FS_CardinalityType, FS_EmptySet
<1>4. Cardinality(S) \in Nat
  BY FS_CardinalityType
<1> QED  BY <1>2, <1>3, <1>4 DEF Rank

LEMMA RankIsMonotone ==
    ASSUME NEW S, IsFiniteSet(S), NEW le, IsOrderOn(S, le),
           NEW p \in S, NEW q \in S, <<p, q>> \in le, p # q
    PROVE  Rank(S, le, p) < Rank(S, le, q)
<1> DEFINE uptop == {r \in S : <<r, p>> \in le}
           uptoq == {r \in S : <<r, q>> \in le}
<1>1. uptop \in SUBSET uptoq /\ q \in uptoq /\ q \notin uptop
  BY DEF IsOrderOn
<1>2. uptoq \in SUBSET S
  OBVIOUS
<1> HIDE DEF uptop, uptoq
<1>3. IsFiniteSet(uptoq)
  BY <1>2, FS_Subset
<1>4. IsFiniteSet(uptop) /\ Cardinality(uptop) <= Cardinality(uptoq)
      /\ Cardinality(uptop) # Cardinality(uptoq)
  BY <1>1, <1>3, FS_Subset
<1>5. Cardinality(uptop) \in Nat /\ Cardinality(uptoq) \in Nat
  BY <1>3, <1>4, FS_CardinalityType
<1>6. Rank(S, le, p) = Cardinality(uptop) /\ Rank(S, le, q) = Cardinality(uptoq)
  BY DEF Rank, uptop, uptoq
<1> QED  BY <1>4, <1>5, <1>6

\* Every rank is somebody's.
LEMMA RanksAreTaken ==
    ASSUME NEW S, IsFiniteSet(S), NEW le, IsOrderOn(S, le), NEW k \in 1..Cardinality(S)
    PROVE  \E p \in S : Rank(S, le, p) = k
<1> DEFINE f == [p \in S |-> Rank(S, le, p)]
           n == Cardinality(S)
<1>1. f \in [S -> 1..n]
  BY RankType
<1>2. ASSUME NEW p \in S, NEW q \in S, f[p] = f[q] PROVE p = q
  <2>1. SUFFICES ASSUME p # q PROVE FALSE
    OBVIOUS
  <2>2. Rank(S, le, p) = Rank(S, le, q) /\ Rank(S, le, p) \in 1..n
    BY <1>2, RankType
  <2>3. <<p, q>> \in le \/ <<q, p>> \in le
    BY DEF IsOrderOn
  <2>4. Rank(S, le, p) < Rank(S, le, q) \/ Rank(S, le, q) < Rank(S, le, p)
    BY <2>1, <2>3, RankIsMonotone
  <2> QED  BY <2>2, <2>4
<1>3. f \in Injection(S, 1..n)
  BY <1>1, <1>2, Zenon DEF Injection, IsInjective
<1>4. IsFiniteSet(1..n) /\ Cardinality(1..n) = n
  <2>1. n \in Nat
    BY FS_CardinalityType
  <2> QED  BY <2>1, FS_Interval
<1>5. f \in Surjection(S, 1..n)
  BY <1>3, <1>4, FS_Injection
<1> QED  BY <1>5 DEF Surjection

----------------------------------------------------------------------------
(* The k-th of some numbers, and the items of a sequence at some indices. *)

UpTo(S) == {x \in S \X S : x[1] <= x[2]}

LEMMA NumbersAreOrdered ==
    ASSUME NEW S \in SUBSET Nat
    PROVE  /\ IsOrderOn(S, UpTo(S))
           /\ \A n \in S : Rank(S, UpTo(S), n) = Cardinality({m \in S : m <= n})
<1>1. \A m, n \in S : <<m, n>> \in UpTo(S) <=> m <= n
  BY DEF UpTo
<1>2. IsOrderOn(S, UpTo(S))
  BY <1>1 DEF IsOrderOn
<1>3. ASSUME NEW n \in S PROVE {m \in S : <<m, n>> \in UpTo(S)} = {m \in S : m <= n}
  BY <1>1
<1> QED  BY <1>2, <1>3 DEF Rank

LEMMA SmallestIs ==
    ASSUME NEW S \in SUBSET Nat, IsFiniteSet(S), NEW k \in 1..Cardinality(S)
    PROVE  /\ Smallest(S, k) \in S
           /\ Cardinality({m \in S : m <= Smallest(S, k)}) = k
<1>1. \E n \in S : Cardinality({m \in S : m <= n}) = k
  <2>1. IsOrderOn(S, UpTo(S))
    BY NumbersAreOrdered
  <2>2. PICK n \in S : Rank(S, UpTo(S), n) = k
    BY <2>1, RanksAreTaken
  <2> QED  BY <2>2, NumbersAreOrdered
<1> QED  BY <1>1 DEF Smallest

LEMMA CountedUpTo ==
    ASSUME NEW S \in SUBSET Nat, IsFiniteSet(S), NEW n \in S
    PROVE  /\ Cardinality({m \in S : m <= n}) \in 1..Cardinality(S)
           /\ Smallest(S, Cardinality({m \in S : m <= n})) = n
<1> DEFINE k == Cardinality({m \in S : m <= n})
           s == Smallest(S, k)
<1>1. k \in 1..Cardinality(S)
  BY NumbersAreOrdered, RankType
<1>2. s \in S /\ Cardinality({m \in S : m <= s}) = k
  <2> HIDE DEF k
  <2> QED  BY <1>1, SmallestIs
<1>3. Rank(S, UpTo(S), n) = k /\ Rank(S, UpTo(S), s) = k
  <2> HIDE DEF s
  <2> QED  BY <1>2, NumbersAreOrdered
<1> HIDE DEF k, s
<1>4. s = n
  <2> SUFFICES ASSUME s # n PROVE FALSE
    OBVIOUS
  <2>1. IsOrderOn(S, UpTo(S))
    BY NumbersAreOrdered
  <2>2. <<s, n>> \in UpTo(S) \/ <<n, s>> \in UpTo(S)
    BY <1>2, <2>1 DEF IsOrderOn
  <2>3. k < k
    BY <1>2, <1>3, <2>1, <2>2, RankIsMonotone
  <2> QED  BY <1>1, <2>3
<1> QED  BY <1>1, <1>4 DEF k, s

LEMMA SmallestIsMonotone ==
    ASSUME NEW S \in SUBSET Nat, IsFiniteSet(S),
           NEW k \in 1..Cardinality(S), NEW l \in 1..Cardinality(S), k < l
    PROVE  Smallest(S, k) < Smallest(S, l)
<1> DEFINE m == Smallest(S, k)
           n == Smallest(S, l)
<1>1. m \in S /\ n \in S /\ Rank(S, UpTo(S), m) = k /\ Rank(S, UpTo(S), n) = l
  BY SmallestIs, NumbersAreOrdered
<1> HIDE DEF m, n
<1>2. m # n
  BY <1>1
<1>3. SUFFICES ASSUME n < m PROVE FALSE
  <2>1. m \in Nat /\ n \in Nat
    BY <1>1
  <2>2. n < m \/ m < n
    BY <1>2, <2>1
  <2> QED  BY <2>2 DEF m, n
<1>4. <<n, m>> \in UpTo(S)
  BY <1>1, <1>3 DEF UpTo
<1>5. l < k
  BY <1>1, <1>2, <1>4, NumbersAreOrdered, RankIsMonotone
<1> QED  BY <1>5

LEMMA SequenceOfMore ==
    ASSUME NEW S, NEW T, S \subseteq T, NEW s \in Seq(S)
    PROVE  s \in Seq(T)
<1>1. Len(s) \in Nat /\ s \in [1..Len(s) -> S]
  OBVIOUS
<1>2. s \in [1..Len(s) -> T]
  BY <1>1
<1> QED  BY <1>1, <1>2

\* A sequence given by its items.
LEMMA ListIsSequence ==
    ASSUME NEW n \in Nat, NEW S, NEW f, f = [i \in 1..n |-> f[i]],
           \A i \in 1..n : f[i] \in S
    PROVE  f \in Seq(S) /\ Len(f) = n /\ DOMAIN f = 1..n
<1>1. f \in [1..n -> S]
  OBVIOUS
<1> QED  BY <1>1

\* The first of some numbers is the least.
LEMMA SmallestIsLeast ==
    ASSUME NEW S \in SUBSET Nat, IsFiniteSet(S), S # {}
    PROVE  Smallest(S, 1) \in S /\ \A n \in S : Smallest(S, 1) <= n
<1> DEFINE first == Smallest(S, 1)
<1>1. Cardinality(S) \in Nat /\ Cardinality(S) # 0
  BY FS_CardinalityType, FS_EmptySet
<1>2. 1 \in 1..Cardinality(S)
  BY <1>1
<1>3. first \in S /\ Cardinality({m \in S : m <= first}) = 1
  BY <1>2, SmallestIs
<1>4. ASSUME NEW n \in S, ~(first <= n)
      PROVE  FALSE
  <2>1. Rank(S, UpTo(S), first) = 1 /\ Rank(S, UpTo(S), n) \in 1..Cardinality(S)
    BY <1>3, NumbersAreOrdered, RankType
  <2>2. <<n, first>> \in UpTo(S) /\ n # first
    <3>1. first \in Nat /\ n \in Nat
      BY <1>3
    <3> HIDE DEF first
    <3> QED  BY <1>3, <1>4, <3>1 DEF UpTo
  <2>3. Rank(S, UpTo(S), n) < Rank(S, UpTo(S), first)
    BY <1>3, <2>2, NumbersAreOrdered, RankIsMonotone
  <2> QED  BY <2>1, <2>3
<1> QED  BY <1>3, <1>4

\* A part of a sequence is a sequence of its items.
LEMMA ThoseAre ==
    ASSUME NEW T, NEW s \in Seq(T), NEW S \in SUBSET DOMAIN s
    PROVE  /\ IsFiniteSet(S) /\ Cardinality(S) \in Nat
           /\ Those(s, S) \in Seq(T) /\ Len(Those(s, S)) = Cardinality(S)
           /\ \A k \in 1..Cardinality(S) : Smallest(S, k) \in S /\ Those(s, S)[k] = s[Smallest(S, k)]
           /\ Range(Those(s, S)) = {s[i] : i \in S}
<1>1. DOMAIN s = 1..Len(s) /\ Len(s) \in Nat
  OBVIOUS
<1>2. IsFiniteSet(S) /\ S \in SUBSET Nat /\ Cardinality(S) \in Nat
  <2>1. IsFiniteSet(1..Len(s))
    BY <1>1, FS_Interval
  <2> QED  BY <1>1, <2>1, FS_Subset, FS_CardinalityType
<1>3. \A k \in 1..Cardinality(S) : Smallest(S, k) \in S
  BY <1>2, SmallestIs
<1>4. \A k \in 1..Cardinality(S) : s[Smallest(S, k)] \in T
  BY <1>3
<1>5. Those(s, S) \in [1..Cardinality(S) -> T]
  BY <1>4 DEF Those
<1>6. Those(s, S) \in Seq(T) /\ Len(Those(s, S)) = Cardinality(S)
  BY <1>2, <1>5
<1>7. \A k \in 1..Cardinality(S) : Those(s, S)[k] = s[Smallest(S, k)]
  BY DEF Those
<1>8. DOMAIN Those(s, S) = 1..Cardinality(S)
  BY <1>5
<1>9. ASSUME NEW i \in S PROVE \E k \in 1..Cardinality(S) : Those(s, S)[k] = s[i]
  BY <1>2, <1>7, CountedUpTo
<1>10. Range(Those(s, S)) = {s[i] : i \in S}
  BY <1>3, <1>7, <1>8, <1>9 DEF Range
<1> QED  BY <1>2, <1>3, <1>6, <1>7, <1>10

----------------------------------------------------------------------------
(* Sequences one after the other. *)

\* FlattenSeq adds one sequence to those before it.
LEMMA FlattenIsThere ==
    ASSUME NEW S, NEW ss \in Seq(Seq(S)), NEW n \in 1..Len(ss)
    PROVE  \E f \in [1..n -> Seq(S)] :
              /\ f[1] = ss[1]
              /\ \A i \in 2..n : f[i] = f[i - 1] \o ss[i]
<1> DEFINE There(m) == \E f \in [1..m -> Seq(S)] :
                          /\ f[1] = ss[1]
                          /\ \A i \in 2..m : f[i] = f[i - 1] \o ss[i]
           without == {m \in 1..n : ~There(m)}
<1>1. \A i \in 1..Len(ss) : ss[i] \in Seq(S)
  OBVIOUS
<1>2. CASE without = {}
  <2>1. n \in 1..n
    OBVIOUS
  <2>2. There(n)
    <3> HIDE DEF There
    <3> QED  BY <1>2, <2>1
  <2> QED  BY <2>2
<1>3. CASE without # {}
  <2>1. PICK m \in without : \A l \in without : m <= l
    <3> HIDE DEF There
    <3>1. without \in SUBSET Nat
      OBVIOUS
    <3> QED  BY <1>3, <3>1, LeastNumber
  <2>2. m \in Nat /\ m >= 1 /\ m <= n /\ n \in Nat
    OBVIOUS
  <2>3. m # 1
    <3>1. [i \in 1..1 |-> ss[1]] \in [1..1 -> Seq(S)]
      BY <1>1, <2>2
    <3>2. There(1)
      <4>1. 2..1 = {}
        OBVIOUS
      <4>2. ([i \in 1..1 |-> ss[1]])[1] = ss[1]
        OBVIOUS
      <4> QED  BY <3>1, <4>1, <4>2
    <3> HIDE DEF There
    <3> QED  BY <3>2
  <2>4. There(m - 1)
    <3>1. m - 1 \in 1..n /\ ~(m <= m - 1)
      BY <2>2, <2>3
    <3> QED  BY <2>1, <3>1
  <2>5. PICK f \in [1..(m - 1) -> Seq(S)] :
           /\ f[1] = ss[1]
           /\ \A i \in 2..(m - 1) : f[i] = f[i - 1] \o ss[i]
    BY <2>4
  <2> DEFINE g == [i \in 1..m |-> IF i = m THEN f[m - 1] \o ss[m] ELSE f[i]]
  <2>6. f[m - 1] \o ss[m] \in Seq(S)
    <3>1. f[m - 1] \in Seq(S) /\ ss[m] \in Seq(S)
      BY <1>1, <2>2, <2>3, <2>5
    <3> QED  BY <3>1, ConcatProperties
  <2>7. g \in [1..m -> Seq(S)]
    <3>1. \A i \in 1..m : i # m => f[i] \in Seq(S)
      BY <2>2, <2>5
    <3> QED  BY <2>6, <3>1
  <2>8. g[1] = ss[1] /\ \A i \in 2..m : g[i] = g[i - 1] \o ss[i]
    <3>1. g[1] = ss[1]
      BY <2>2, <2>3, <2>5
    <3>2. ASSUME NEW i \in 2..m PROVE g[i] = g[i - 1] \o ss[i]
      <4>1. g[i - 1] = f[i - 1]
        BY <2>2
      <4>2. i # m => i \in 2..(m - 1) /\ i \in 1..m /\ g[i] = f[i]
        BY <2>2
      <4>3. m \in 1..m
        BY <2>2
      <4>4. g[m] = f[m - 1] \o ss[m]
        BY <4>3
      <4>5. i # m => f[i] = f[i - 1] \o ss[i]
        BY <2>5, <4>2
      <4> HIDE DEF g
      <4> QED  BY <4>1, <4>2, <4>4, <4>5
    <3> QED  BY <3>1, <3>2
  <2>9. There(m)
    <3> HIDE DEF g
    <3> QED  BY <2>7, <2>8
  <2> QED  BY <2>9
<1> QED  BY <1>2, <1>3

LEMMA FlattenSteps ==
    ASSUME NEW S, NEW ss \in Seq(Seq(S)), ss # <<>>
    PROVE  \E f \in [1..Len(ss) -> Seq(S)] :
              /\ f[1] = ss[1]
              /\ \A i \in 2..Len(ss) : f[i] = f[i - 1] \o ss[i]
              /\ FlattenSeq(ss) = f[Len(ss)]
<1> DEFINE n == Len(ss)
           Next(f) == [i \in 1..n |-> IF i = 1 THEN ss[i] ELSE f[i - 1] \o ss[i]]
           flatten == CHOOSE f : f = Next(f)
<1>1. n \in Nat /\ n # 0
  OBVIOUS
<1>2. FlattenSeq(ss) = flatten[n]
  BY <1>1 DEF FlattenSeq
<1>3. PICK f \in [1..n -> Seq(S)] :
         f[1] = ss[1] /\ \A i \in 2..n : f[i] = f[i - 1] \o ss[i]
  <2>1. n \in 1..Len(ss)
    BY <1>1
  <2> QED  BY <2>1, FlattenIsThere
<1>4. f = Next(f)
  <2>1. \A i \in 1..n : i # 1 => i \in 2..n
    BY <1>1
  <2>2. \A i \in 1..n : f[i] = Next(f)[i]
    BY <1>3, <2>1
  <2> HIDE DEF n
  <2> QED  BY <1>3, <2>2
<1>5. flatten = Next(flatten)
  <2> HIDE DEF Next
  <2> QED  BY <1>4
<1> HIDE DEF flatten
<1> DEFINE apart == {i \in 1..n : flatten[i] # f[i]}
<1>6. apart = {}
  <2> SUFFICES ASSUME apart # {} PROVE FALSE
    OBVIOUS
  <2>1. PICK m \in apart : \A l \in apart : m <= l
    <3>1. apart \in SUBSET Nat
      OBVIOUS
    <3> HIDE DEF apart
    <3> QED  BY <3>1, LeastNumber
  <2>2. m \in 1..n /\ flatten[m] # f[m]
    OBVIOUS
  <2>3. flatten[m] = IF m = 1 THEN ss[m] ELSE flatten[m - 1] \o ss[m]
    BY <1>5, <2>2
  <2>4. m # 1 => flatten[m - 1] = f[m - 1]
    <3>1. m # 1 => m - 1 \in 1..n /\ ~(m <= m - 1)
      BY <1>1, <2>2
    <3> QED  BY <2>1, <3>1
  <2>5. m # 1 => m \in 2..n
    BY <1>1, <2>2
  <2> QED  BY <1>3, <2>2, <2>3, <2>4, <2>5
<1>7. flatten[n] = f[n]
  <2>1. n \in 1..n
    BY <1>1
  <2> QED  BY <1>6, <2>1
<1> QED  BY <1>2, <1>3, <1>7

\* Sums of offsets.
LEMMA Within ==
    ASSUME NEW a \in Nat, NEW l \in Nat, NEW b \in Nat, b = a + l
    PROVE  /\ a <= b
           /\ \A c \in Nat : c <= a => c <= b
           /\ \A j \in 1..l : /\ a + j \in 1..b /\ a + j <= b
                             /\ ~(a + j <= a) /\ (a + j) - a = j
OBVIOUS

LEMMA Below ==
    ASSUME NEW a \in Nat, NEW b \in Nat, a <= b, NEW j \in 1..a
    PROVE  j \in 1..b /\ j <= b
OBVIOUS

\* The items of each sequence stand after those of the sequences before it.
Laid(ss, all, at) ==
    /\ at[0] = 0 /\ Len(all) = at[Len(ss)]
    /\ \A k \in 1..Len(ss) :
          /\ at[k] = at[k - 1] + Len(ss[k])
          /\ at[k] <= Len(all)
          /\ \A j \in 1..Len(ss[k]) : all[at[k - 1] + j] = ss[k][j]

LEMMA FlattenLays ==
    ASSUME NEW S, NEW ss \in Seq(Seq(S))
    PROVE  /\ FlattenSeq(ss) \in Seq(S)
           /\ \E at \in [0..Len(ss) -> Nat] : Laid(ss, FlattenSeq(ss), at)
<1>1. CASE ss = <<>>
  <2>1. FlattenSeq(ss) = <<>>
    BY <1>1 DEF FlattenSeq
  <2>2. Len(ss) = 0 /\ 1..Len(ss) = {}
    BY <1>1
  <2>3. [k \in 0..Len(ss) |-> 0] \in [0..Len(ss) -> Nat]
    OBVIOUS
  <2>4. Laid(ss, <<>>, [k \in 0..Len(ss) |-> 0])
    BY <2>2 DEF Laid
  <2> QED  BY <2>1, <2>3, <2>4
<1>2. CASE ss # <<>>
  <2> DEFINE n == Len(ss)
  <2>1. PICK f \in [1..n -> Seq(S)] :
           /\ f[1] = ss[1]
           /\ \A i \in 2..n : f[i] = f[i - 1] \o ss[i]
           /\ FlattenSeq(ss) = f[n]
    BY <1>2, FlattenSteps
  <2>2. n \in Nat /\ n # 0 /\ \A i \in 1..n : ss[i] \in Seq(S) /\ f[i] \in Seq(S)
    BY <1>2, <2>1
  <2> DEFINE at == [k \in 0..n |-> IF k = 0 THEN 0 ELSE Len(f[k])]
             upTo(m) == \A k \in 1..m :
                /\ at[k] <= at[m]
                /\ \A j \in 1..Len(ss[k]) : f[m][at[k - 1] + j] = ss[k][j]
             wrong == {m \in 1..n : ~upTo(m)}
  <2> HIDE DEF n
  <2>3. at \in [0..n -> Nat]
    BY <2>2
  <2>4. \A k \in 1..n : at[k] = Len(f[k]) /\ at[k - 1] \in Nat /\ at[k] \in Nat
    BY <2>2, <2>3
  <2>5. at[0] = 0 /\ at[1] = Len(ss[1])
    BY <2>1, <2>2, <2>4
  <2>6. ASSUME NEW m \in 2..n
        PROVE  /\ at[m] = at[m - 1] + Len(ss[m])
               /\ \A x \in 1..at[m] :
                     f[m][x] = IF x <= at[m - 1] THEN f[m - 1][x] ELSE ss[m][x - at[m - 1]]
    <3>1. /\ m \in 1..n /\ m - 1 \in 1..n
          /\ at[m] = Len(f[m]) /\ at[m - 1] = Len(f[m - 1])
      BY <2>2, <2>4
    <3>2. f[m] = f[m - 1] \o ss[m]
      BY <2>1
    <3>3. f[m - 1] \in Seq(S) /\ ss[m] \in Seq(S)
      BY <2>2, <3>1
    <3> DEFINE s == f[m - 1]
               t == ss[m]
    <3>4. /\ s \o t \in Seq(S)
          /\ Len(s \o t) = Len(s) + Len(t)
          /\ \A x \in 1..(Len(s) + Len(t)) :
                (s \o t)[x] = IF x <= Len(s) THEN s[x] ELSE t[x - Len(s)]
      <4> HIDE DEF s, t
      <4> QED  BY <3>3, ConcatProperties DEF s, t
    <3> HIDE DEF at
    <3> QED  BY <3>1, <3>2, <3>4
  <2>7. \A k \in 1..n : at[k] = at[k - 1] + Len(ss[k])
    <3>1. \A k \in 1..n : k = 1 \/ k \in 2..n
      BY <2>2
    <3>2. at[1] = at[0] + Len(ss[1])
      <4>1. 1 \in 1..n
        BY <2>2
      <4> HIDE DEF at
      <4> QED  BY <2>2, <2>5, <4>1
    <3> HIDE DEF at
    <3> QED  BY <2>6, <3>1, <3>2
  <2> HIDE DEF at
  <2>12. ASSUME NEW m \in 2..n, upTo(m - 1)
         PROVE  upTo(m)
    <3> HIDE DEF wrong, upTo
    <3>2. m \in 1..n /\ m \in Nat
      BY <2>2
    <3>5. ASSUME NEW k \in 1..m
          PROVE  /\ at[k] <= at[m]
                 /\ \A j \in 1..Len(ss[k]) : f[m][at[k - 1] + j] = ss[k][j]
      <4>1. k \in 1..n /\ (k = m \/ k \in 1..(m - 1))
        BY <2>2, <3>2
      <4>2. /\ at[m] = at[m - 1] + Len(ss[m]) /\ at[k] = at[k - 1] + Len(ss[k])
            /\ Len(ss[m]) \in Nat /\ Len(ss[k]) \in Nat
            /\ at[m] \in Nat /\ at[k] \in Nat /\ at[m - 1] \in Nat /\ at[k - 1] \in Nat
        <5>1. Len(ss[m]) \in Nat /\ Len(ss[k]) \in Nat
          BY <2>2, <3>2, <4>1
        <5> QED  BY <2>4, <2>7, <3>2, <4>1, <5>1
      <4>3. CASE k = m
        <5>1. ASSUME NEW j \in 1..Len(ss[m])
              PROVE  f[m][at[m - 1] + j] = ss[m][j]
          <6> DEFINE a == at[m - 1]
                     b == at[m]
                     l == Len(ss[m])
          <6>1. /\ at[m - 1] + j \in 1..at[m] /\ ~(at[m - 1] + j <= at[m - 1])
                /\ (at[m - 1] + j) - at[m - 1] = j
            <7>1. a \in Nat /\ b \in Nat /\ l \in Nat /\ b = a + l /\ j \in 1..l
              BY <4>2
            <7> HIDE DEF a, b, l
            <7>2. a + j \in 1..b /\ ~(a + j <= a) /\ (a + j) - a = j
              BY <7>1, Within
            <7> QED  BY <7>2 DEF a, b
          <6>2. f[m][at[m - 1] + j] = ss[m][(at[m - 1] + j) - at[m - 1]]
            BY <2>6, <6>1
          <6> QED  BY <6>1, <6>2
        <5> QED  BY <4>2, <4>3, <5>1
      <4>4. CASE k \in 1..(m - 1)
        <5>1. /\ at[k] <= at[m - 1]
              /\ \A j \in 1..Len(ss[k]) : f[m - 1][at[k - 1] + j] = ss[k][j]
          BY <2>12, <4>4 DEF upTo
        <5>2. ASSUME NEW j \in 1..Len(ss[k])
              PROVE  at[k - 1] + j \in 1..at[m] /\ at[k - 1] + j <= at[m - 1]
          <6> DEFINE a == at[k - 1]
                     b == at[k]
                     l == Len(ss[k])
                     c == at[m - 1]
                     d == at[m]
          <6>1. /\ a \in Nat /\ b \in Nat /\ l \in Nat /\ c \in Nat /\ d \in Nat
                /\ b = a + l /\ j \in 1..l
            BY <4>2
          <6>2. b <= c /\ c <= d
            BY <4>2, <5>1, Within, SMTT(30)
          <6> HIDE DEF a, b, l, c, d
          <6>3. a + j \in 1..b
            BY <6>1, Within
          <6>4. a + j \in 1..c /\ a + j <= c
            BY <6>1, <6>2, <6>3, Below
          <6>5. a + j \in 1..d
            BY <6>1, <6>2, <6>4, Below
          <6> QED  BY <6>4, <6>5 DEF a, c, d
        <5>3. \A j \in 1..Len(ss[k]) : f[m][at[k - 1] + j] = f[m - 1][at[k - 1] + j]
          BY <2>6, <5>2
        <5>4. at[k] <= at[m]
          BY <4>2, <5>1, Within, SMTT(30)
        <5> QED  BY <5>1, <5>3, <5>4
      <4> QED  BY <4>1, <4>3, <4>4
    <3> QED  BY <3>5 DEF upTo
  <2>8. wrong = {}
    <3> SUFFICES ASSUME wrong # {} PROVE FALSE
      OBVIOUS
    <3>1. PICK m \in wrong : \A l \in wrong : m <= l
      <4> HIDE DEF upTo
      <4>1. wrong \in SUBSET Nat
        OBVIOUS
      <4> QED  BY <4>1, LeastNumber
    <3>2. m \in 1..n
      OBVIOUS
    <3>3. m # 1
      <4>1. upTo(1)
        <5>1. 1 \in 1..n /\ \A j \in Nat : 0 + j = j
          BY <2>2
        <5>2. \A k \in 1..1 : k = 1
          OBVIOUS
        <5>3. \A j \in 1..Len(ss[1]) : f[1][at[0] + j] = ss[1][j]
          BY <2>1, <2>5, <5>1
        <5> QED  BY <2>4, <5>1, <5>2, <5>3, SMTT(30)
      <4> HIDE DEF upTo
      <4> QED  BY <4>1
    <3>4. m \in 2..n /\ upTo(m - 1)
      <4>1. m - 1 \in 1..n /\ ~(m <= m - 1) /\ m \in 2..n
        BY <2>2, <3>2, <3>3
      <4> HIDE DEF upTo
      <4> QED  BY <3>1, <4>1
    <3>6. upTo(m)
      <4> HIDE DEF upTo, wrong
      <4> QED  BY <2>12, <3>4
    <3> HIDE DEF upTo
    <3> QED  BY <3>6
  <2>9. upTo(n) /\ n \in 1..n
    <3>1. n \in 1..n
      BY <2>2
    <3> HIDE DEF upTo
    <3> QED  BY <2>8, <3>1
  <2>10. Len(FlattenSeq(ss)) = at[n]
    BY <2>1, <2>4, <2>9
  <2>11. Laid(ss, FlattenSeq(ss), at)
    <3>1. \A k \in 1..n : at[k] <= at[n]
                         /\ \A j \in 1..Len(ss[k]) : f[n][at[k - 1] + j] = ss[k][j]
      BY <2>9
    <3> QED  BY <2>1, <2>5, <2>7, <2>10, <3>1 DEF Laid, n
  <2> QED  BY <2>1, <2>2, <2>3, <2>9, <2>11 DEF n
<1> QED  BY <1>1, <1>2

\* The offsets grow.
LEMMA LaidInOrder ==
    ASSUME NEW S, NEW ss \in Seq(Seq(S)), NEW all, NEW at \in [0..Len(ss) -> Nat],
           Laid(ss, all, at),
           NEW k \in 0..Len(ss), NEW l \in 0..Len(ss), k <= l
    PROVE  at[k] <= at[l]
<1> DEFINE later == {m \in k..Len(ss) : ~(at[k] <= at[m])}
<1>1. Len(ss) \in Nat /\ \A m \in 0..Len(ss) : at[m] \in Nat
  <2>1. Len(ss) \in Nat
    OBVIOUS
  <2> QED  BY <2>1
<1>2. SUFFICES ASSUME later # {} PROVE FALSE
  <2>1. l \in k..Len(ss)
    BY <1>1
  <2> QED  BY <2>1
<1>3. PICK m \in later : \A n \in later : m <= n
  <2>1. later \in SUBSET Nat
    BY <1>1
  <2> HIDE DEF later
  <2> QED  BY <1>2, <2>1, LeastNumber
<1>4. m # k /\ m \in 1..Len(ss) /\ m - 1 \in k..Len(ss) /\ m \in Int
  BY <1>1
<1>5. at[k] <= at[m - 1]
  <2>1. m - 1 \notin later
    BY <1>3, <1>4
  <2> QED  BY <1>4, <2>1
<1>6. at[m] = at[m - 1] + Len(ss[m]) /\ Len(ss[m]) \in Nat
  <2>1. ss[m] \in Seq(S)
    BY <1>4
  <2> QED  BY <1>4, <2>1 DEF Laid
<1>7. m - 1 \in 0..Len(ss) /\ m \in 0..Len(ss) /\ ~(at[k] <= at[m])
  BY <1>1, <1>4
<1>8. at[m - 1] \in Nat /\ at[m] \in Nat /\ at[k] \in Nat
  BY <1>1, <1>7
<1> HIDE DEF later
<1> QED  BY <1>5, <1>6, <1>7, <1>8

\* Every item stands in one of them.
LEMMA LaidCovers ==
    ASSUME NEW S, NEW ss \in Seq(Seq(S)), NEW all, NEW at \in [0..Len(ss) -> Nat],
           Laid(ss, all, at), NEW i \in 1..Len(all)
    PROVE  \E k \in 1..Len(ss) : \E j \in 1..Len(ss[k]) : i = at[k - 1] + j
<1> DEFINE reach == {m \in 0..Len(ss) : i <= at[m]}
<1>1. Len(ss) \in Nat /\ (\A m \in 0..Len(ss) : at[m] \in Nat) /\ Len(all) = at[Len(ss)]
  <2>1. Len(ss) \in Nat
    OBVIOUS
  <2> QED  BY <2>1 DEF Laid
<1>2. i \in Nat /\ i >= 1 /\ i <= Len(all)
  BY <1>1
<1>3. PICK k \in reach : \A n \in reach : k <= n
  <2>1. reach \in SUBSET Nat /\ reach # {}
    <3>1. Len(ss) \in 0..Len(ss)
      BY <1>1
    <3>2. Len(ss) \in reach
      BY <1>1, <1>2, <3>1
    <3> QED  BY <1>1, <3>2
  <2> HIDE DEF reach
  <2> QED  BY <2>1, LeastNumber
<1>4. k # 0
  BY <1>2 DEF Laid
<1>5. k \in 1..Len(ss) /\ k - 1 \in 0..Len(ss) /\ k \in Int
  BY <1>1, <1>4
<1>6. ~(i <= at[k - 1])
  <2>1. k - 1 \notin reach
    BY <1>3, <1>5
  <2> QED  BY <1>5, <2>1
<1>7. at[k] = at[k - 1] + Len(ss[k]) /\ Len(ss[k]) \in Nat
  <2>1. ss[k] \in Seq(S)
    BY <1>5
  <2>2. Len(ss[k]) \in Nat
    BY <2>1
  <2> QED  BY <1>5, <2>2 DEF Laid
<1>8. i <= at[k] /\ at[k] \in Nat /\ at[k - 1] \in Nat
  BY <1>1, <1>5
<1>9. i - at[k - 1] \in 1..Len(ss[k]) /\ i = at[k - 1] + (i - at[k - 1])
  BY <1>2, <1>6, <1>7, <1>8
<1> QED  BY <1>5, <1>9

\* The first item of a kind stands in the first sequence that has one.
LEMMA FirstOfAKind ==
    ASSUME NEW S, NEW ss \in Seq(Seq(S)), NEW kind,
           NEW i \in DOMAIN FlattenSeq(ss), FlattenSeq(ss)[i] \in kind,
           \A h \in DOMAIN FlattenSeq(ss) : FlattenSeq(ss)[h] \in kind => i <= h
    PROVE  \E k \in DOMAIN ss :
              /\ \E j \in DOMAIN ss[k] : ss[k][j] = FlattenSeq(ss)[i]
              /\ \A l \in DOMAIN ss : (\E j \in DOMAIN ss[l] : ss[l][j] \in kind) => k <= l
<1> DEFINE all == FlattenSeq(ss)
<1>1. all \in Seq(S)
  BY FlattenLays
<1>2. PICK at \in [0..Len(ss) -> Nat] : Laid(ss, all, at)
  BY FlattenLays
<1>3. DOMAIN ss = 1..Len(ss) /\ Len(ss) \in Nat /\ DOMAIN all = 1..Len(all) /\ Len(all) \in Nat
  BY <1>1
<1>4. \A k \in 1..Len(ss) : ss[k] \in Seq(S) /\ DOMAIN ss[k] = 1..Len(ss[k]) /\ Len(ss[k]) \in Nat
  <2>1. \A k \in 1..Len(ss) : ss[k] \in Seq(S)
    OBVIOUS
  <2> QED  BY <2>1
<1>5. i \in 1..Len(all) /\ all[i] \in kind /\ \A h \in 1..Len(all) : all[h] \in kind => i <= h
  BY <1>3
<1> HIDE DEF all
<1>6. PICK k \in 1..Len(ss) : \E j \in 1..Len(ss[k]) : i = at[k - 1] + j
  BY <1>2, <1>5, LaidCovers
<1>7. PICK j \in 1..Len(ss[k]) : i = at[k - 1] + j
  BY <1>6
<1>8. ss[k][j] = all[i]
  BY <1>2, <1>6, <1>7 DEF Laid
<1>9. ASSUME NEW l \in 1..Len(ss), NEW g \in 1..Len(ss[l]), ss[l][g] \in kind, l < k
      PROVE  FALSE
  <2>1. /\ all[at[l - 1] + g] = ss[l][g] /\ at[l] = at[l - 1] + Len(ss[l])
        /\ at[l] <= Len(all)
    BY <1>2 DEF Laid
  <2>2. l - 1 \in 0..Len(ss) /\ l \in 0..Len(ss) /\ k - 1 \in 0..Len(ss) /\ l <= k - 1
    BY <1>3, <1>9
  <2>3. at[l] <= at[k - 1]
    BY <1>2, <2>2, LaidInOrder
  <2>4. /\ at[l - 1] \in Nat /\ at[l] \in Nat /\ at[k - 1] \in Nat
        /\ Len(ss[l]) \in Nat
    BY <1>4, <2>2
  <2> DEFINE a == at[l - 1]
             b == at[l]
             c == at[k - 1]
             n == Len(ss[l])
  <2>5. a \in Nat /\ b \in Nat /\ c \in Nat /\ n \in Nat /\ b = a + n /\ b <= c
        /\ b <= Len(all) /\ i = c + j /\ j \in Nat /\ j >= 1 /\ g \in 1..n
    BY <1>4, <1>7, <2>1, <2>3, <2>4
  <2> HIDE DEF a, b, c, n
  <2>6. a + g \in 1..Len(all) /\ ~(i <= a + g)
    <3>1. a + g \in 1..b
      BY <2>5, Within
    <3> QED  BY <1>3, <2>5, <3>1
  <2>7. all[a + g] \in kind
    BY <1>9, <2>1 DEF a
  <2> QED  BY <1>5, <2>6, <2>7
<1>10. \A l \in 1..Len(ss) : (\E g \in 1..Len(ss[l]) : ss[l][g] \in kind) => k <= l
  <2> SUFFICES ASSUME NEW l \in 1..Len(ss), NEW g \in 1..Len(ss[l]), ss[l][g] \in kind
               PROVE  k <= l
    OBVIOUS
  <2>1. ~(l < k)
    BY <1>9
  <2> QED  BY <1>3, <2>1
<1> QED  BY <1>3, <1>4, <1>6, <1>7, <1>8, <1>10 DEF all

\* Where there is an item of a kind, all of them together have one.
LEMMA FlattenKeeps ==
    ASSUME NEW S, NEW ss \in Seq(Seq(S)), NEW k \in DOMAIN ss, NEW j \in DOMAIN ss[k]
    PROVE  \E i \in DOMAIN FlattenSeq(ss) : FlattenSeq(ss)[i] = ss[k][j]
<1> DEFINE all == FlattenSeq(ss)
<1>1. all \in Seq(S)
  BY FlattenLays
<1>2. PICK at \in [0..Len(ss) -> Nat] : Laid(ss, all, at)
  BY FlattenLays
<1>3. ss[k] \in Seq(S) /\ k \in 1..Len(ss) /\ Len(ss) \in Nat
  OBVIOUS
<1>4. j \in 1..Len(ss[k]) /\ Len(ss[k]) \in Nat
  <2>1. ss[k] \in Seq(S)
    BY <1>3
  <2> QED  BY <2>1
<1>5. k - 1 \in 0..Len(ss) /\ k \in 0..Len(ss)
  BY <1>3
<1>6. at[k - 1] \in Nat /\ at[k] \in Nat
  BY <1>5
<1> HIDE DEF all
<1>7. at[k] = at[k - 1] + Len(ss[k]) /\ at[k] <= Len(all) /\ all[at[k - 1] + j] = ss[k][j]
  BY <1>2, <1>3, <1>4 DEF Laid
<1> DEFINE a == at[k - 1]
           b == at[k]
<1>8. a + j \in 1..b
  <2> DEFINE n == Len(ss[k])
  <2>1. a \in Nat /\ b \in Nat /\ n \in Nat /\ b = a + n /\ j \in 1..n
    BY <1>4, <1>6, <1>7
  <2> HIDE DEF a, b, n
  <2> QED  BY <2>1, Within
<1>9. a + j \in 1..Len(all)
  <2>1. b \in Nat /\ b <= Len(all) /\ Len(all) \in Nat
    BY <1>1, <1>6, <1>7
  <2> HIDE DEF a, b
  <2> QED  BY <1>8, <2>1
<1>10. a + j \in DOMAIN all
  BY <1>1, <1>9
<1> QED  BY <1>7, <1>10 DEF all

\* Each of all the items is one of theirs.
LEMMA FlattenItems ==
    ASSUME NEW S, NEW ss \in Seq(Seq(S)), NEW i \in DOMAIN FlattenSeq(ss)
    PROVE  \E k \in DOMAIN ss : \E j \in DOMAIN ss[k] : FlattenSeq(ss)[i] = ss[k][j]
<1> DEFINE all == FlattenSeq(ss)
           same == {h \in DOMAIN all : all[h] = all[i]}
<1>1. all \in Seq(S)
  BY FlattenLays
<1>2. PICK h \in same : \A g \in same : h <= g
  <2>1. same \in SUBSET Nat /\ same # {}
    BY <1>1
  <2> HIDE DEF same
  <2> QED  BY <2>1, LeastNumber
<1>3. h \in DOMAIN all /\ all[h] = all[i]
  OBVIOUS
<1>4. \A g \in DOMAIN all : all[g] = all[i] => h <= g
  BY <1>2
<1> DEFINE kind == {all[i]}
<1>5. h \in DOMAIN FlattenSeq(ss) /\ FlattenSeq(ss)[h] \in kind
      /\ \A g \in DOMAIN FlattenSeq(ss) : FlattenSeq(ss)[g] \in kind => h <= g
  BY <1>3, <1>4
<1> HIDE DEF kind
<1>6. \E k \in DOMAIN ss : \E j \in DOMAIN ss[k] : ss[k][j] = FlattenSeq(ss)[h]
  <2> HIDE DEF same, all
  <2> QED  BY <1>5, FirstOfAKind
<1> QED  BY <1>3, <1>6

\* An item before a sequence.
LEMMA ItemBefore ==
    ASSUME NEW S, NEW x \in S, NEW s \in Seq(S)
    PROVE  LET xs == <<x>> \o s
           IN  xs \in Seq(S) /\ Len(xs) = Len(s) + 1 /\ xs[1] = x /\ Tail(xs) = s
<1> DEFINE xs == <<x>> \o s
<1>1. <<x>> \in Seq(S) /\ Len(<<x>>) = 1
  OBVIOUS
<1>2. /\ xs \in Seq(S) /\ Len(xs) = 1 + Len(s)
      /\ \A i \in 1..(1 + Len(s)) : xs[i] = IF i <= 1 THEN <<x>>[i] ELSE s[i - 1]
  BY <1>1, ConcatProperties
<1> HIDE DEF xs
<1>3. Len(s) \in Nat /\ xs # <<>>
  BY <1>2
<1>4. /\ Tail(xs) \in Seq(S) /\ Len(Tail(xs)) = Len(xs) - 1
      /\ \A i \in 1..Len(Tail(xs)) : Tail(xs)[i] = xs[i + 1]
  BY <1>2, <1>3, HeadTailProperties
<1>5. Len(Tail(xs)) = Len(s)
  BY <1>2, <1>3, <1>4
<1>6. \A i \in 1..Len(s) : Tail(xs)[i] = s[i]
  <2> TAKE i \in 1..Len(s)
  <2>1. i + 1 \in 1..(1 + Len(s)) /\ ~(i + 1 <= 1) /\ (i + 1) - 1 = i
    BY <1>3
  <2> QED  BY <1>2, <1>4, <1>5, <2>1
<1>7. Tail(xs) = s
  BY <1>4, <1>5, <1>6
<1>8. xs[1] = x /\ Len(xs) = Len(s) + 1
  BY <1>2, <1>3
<1> QED  BY <1>2, <1>7, <1>8 DEF xs

----------------------------------------------------------------------------
(* Orders in which some are equal, given as the set of their pairs.        *)

IsWeakOn(T, R) ==
    /\ \A x, y \in T : ~(<<x, y>> \in R /\ <<y, x>> \in R)
    /\ \A x, y, z \in T : <<x, z>> \in R => <<x, y>> \in R \/ <<y, z>> \in R

\* What LexLess and SortDescending are of such an order.
LexAt(s, t, R, i) ==
    /\ \A j \in 1..(i - 1) : j <= Len(t) /\ <<s[j], t[j]>> \notin R /\ <<t[j], s[j]>> \notin R
    /\ i <= Len(t) /\ (i <= Len(s) => <<s[i], t[i]>> \in R)
LexPairs(T, R) ==
    {p \in Seq(T) \X Seq(T) : \E i \in 1..(Len(p[1]) + 1) : LexAt(p[1], p[2], R, i)}

Before(s, R, j, i) == \/ <<s[i], s[j]>> \in R
                      \/ <<s[j], s[i]>> \notin R /\ j <= i
Ranks(s, R) == [i \in DOMAIN s |-> Cardinality({j \in DOMAIN s : Before(s, R, j, i)})]
SortOf(s, R) == [k \in DOMAIN s |-> s[CHOOSE i \in DOMAIN s : Ranks(s, R)[i] = k]]

LEMMA LexIsWeak ==
    ASSUME NEW T, NEW R, IsWeakOn(T, R)
    PROVE  IsWeakOn(Seq(T), LexPairs(T, R))
<1> DEFINE L(s, t) == \E i \in 1..(Len(s) + 1) : LexAt(s, t, R, i)
<1>1. \A s, t \in Seq(T) : <<s, t>> \in LexPairs(T, R) <=> L(s, t)
  BY DEF LexPairs
<1>2. ASSUME NEW s \in Seq(T), NEW t \in Seq(T), L(s, t), L(t, s)
      PROVE  FALSE
  <2>1. PICK i \in 1..(Len(s) + 1) : LexAt(s, t, R, i)
    BY <1>2
  <2>2. PICK j \in 1..(Len(t) + 1) : LexAt(t, s, R, j)
    BY <1>2
  <2>3. /\ Len(s) \in Nat /\ Len(t) \in Nat /\ i \in Nat /\ j \in Nat /\ i >= 1 /\ j >= 1
        /\ i <= Len(t) /\ j <= Len(s)
    BY <2>1, <2>2 DEF LexAt
  <2>4. CASE i < j
    <3>1. i \in 1..(j - 1) /\ i <= Len(s)
      BY <2>3, <2>4
    <3> QED  BY <2>1, <2>2, <3>1 DEF LexAt
  <2>5. CASE j < i
    <3>1. j \in 1..(i - 1) /\ j <= Len(t)
      BY <2>3, <2>5
    <3> QED  BY <2>1, <2>2, <3>1 DEF LexAt
  <2>6. CASE i = j
    <3>1. s[i] \in T /\ t[i] \in T /\ i <= Len(s) /\ j <= Len(t)
      BY <2>3, <2>6
    <3>2. <<s[i], t[i]>> \in R /\ <<t[i], s[i]>> \in R
      BY <2>1, <2>2, <2>6, <3>1 DEF LexAt
    <3> QED  BY <3>1, <3>2 DEF IsWeakOn
  <2> QED  BY <2>3, <2>4, <2>5, <2>6
<1>3. ASSUME NEW a \in Seq(T), NEW b \in Seq(T), NEW c \in Seq(T), L(a, c)
      PROVE  L(a, b) \/ L(b, c)
  <2>1. PICK i \in 1..(Len(a) + 1) : LexAt(a, c, R, i)
    BY <1>3
  <2> DEFINE alike(x, y) == <<x, y>> \notin R /\ <<y, x>> \notin R
             same(m) == m <= Len(b) /\ alike(a[m], b[m])
             apart == {m \in 1..(i - 1) : ~same(m)}
  <2>2. /\ Len(a) \in Nat /\ Len(b) \in Nat /\ Len(c) \in Nat /\ i \in Nat /\ i >= 1
        /\ i <= Len(a) + 1 /\ i <= Len(c)
    BY <2>1 DEF LexAt
  <2>3. \A m \in 1..(i - 1) : /\ m <= Len(a) /\ m <= Len(c) /\ a[m] \in T /\ c[m] \in T
                              /\ alike(a[m], c[m])
    BY <2>1, <2>2 DEF LexAt
  <2>4. \A x, y, z \in T : alike(x, y) /\ alike(x, z) => alike(y, z)
    BY DEF IsWeakOn
  <2>5. \A m \in 1..Len(b) : b[m] \in T
    OBVIOUS
  <2>6. CASE apart # {}
    <3>1. PICK m \in apart : \A l \in apart : m <= l
      <4>1. apart \in SUBSET Nat
        OBVIOUS
      <4> HIDE DEF apart
      <4> QED  BY <2>6, <4>1, LeastNumber
    <3>2. m \in 1..(i - 1) /\ ~same(m) /\ m \in Nat /\ m >= 1 /\ m <= i - 1
      BY <2>2
    <3>3. \A l \in 1..(m - 1) : l \in 1..(i - 1) /\ same(l)
      <4> TAKE l \in 1..(m - 1)
      <4>1. l \in 1..(i - 1) /\ ~(m <= l)
        BY <2>2, <3>2
      <4>2. l \notin apart
        BY <3>1, <4>1
      <4> QED  BY <4>1, <4>2
    <3> HIDE DEF apart
    <3>4. m <= Len(b) + 1
      <4>1. CASE m = 1
        BY <2>2, <4>1
      <4>2. CASE m # 1
        <5>1. m - 1 \in 1..(m - 1)
          BY <3>2, <4>2
        <5>2. m - 1 <= Len(b)
          BY <3>3, <5>1
        <5> QED  BY <2>2, <3>2, <5>2
      <4> QED  BY <4>1, <4>2
    <3>5. \A l \in 1..(m - 1) : alike(a[l], b[l]) /\ alike(b[l], c[l])
                                /\ l <= Len(b) /\ l <= Len(c)
      <4> TAKE l \in 1..(m - 1)
      <4>1. l \in 1..(i - 1) /\ l \in 1..Len(b) /\ alike(a[l], b[l])
        <5>1. l \in 1..(i - 1) /\ l <= Len(b) /\ alike(a[l], b[l])
          <6> HIDE DEF alike
          <6> QED  BY <3>3
        <5>2. l \in 1..Len(b)
          <6> HIDE DEF alike
          <6> QED  BY <2>2, <5>1
        <5> QED  BY <5>1, <5>2
      <4>2. a[l] \in T /\ c[l] \in T /\ b[l] \in T /\ alike(a[l], c[l]) /\ l <= Len(c)
        BY <2>3, <2>5, <4>1
      <4>3. alike(b[l], c[l])
        <5> HIDE DEF alike
        <5> QED  BY <2>4, <4>1, <4>2
      <4> QED  BY <4>1, <4>2, <4>3
    <3>6. a[m] \in T /\ c[m] \in T /\ m <= Len(a) /\ m <= Len(c) /\ alike(a[m], c[m])
      BY <2>3, <3>2
    <3>7. CASE m > Len(b)
      <4>1. LexAt(b, c, R, m)
        <5>1. ~(m <= Len(b))
          BY <2>2, <3>2, <3>7
        <5> QED  BY <3>5, <3>6, <5>1 DEF LexAt
      <4> QED  BY <2>2, <3>2, <3>4, <4>1
    <3>8. CASE m <= Len(b)
      <4>1. m \in 1..Len(b) /\ b[m] \in T /\ ~alike(a[m], b[m])
        BY <2>2, <2>5, <3>2, <3>8
      <4>2. CASE <<a[m], b[m]>> \in R
        <5>1. LexAt(a, b, R, m)
          BY <3>5, <3>8, <4>2 DEF LexAt
        <5>2. m \in 1..(Len(a) + 1)
          BY <2>2, <3>2, <3>6
        <5> QED  BY <5>1, <5>2
      <4>3. CASE <<b[m], a[m]>> \in R
        <5>1. <<b[m], c[m]>> \in R
          BY <3>6, <4>1, <4>3 DEF IsWeakOn
        <5>2. LexAt(b, c, R, m)
          BY <3>5, <3>6, <5>1 DEF LexAt
        <5>3. m \in 1..(Len(b) + 1)
          BY <2>2, <3>2, <3>4
        <5> QED  BY <5>2, <5>3
      <4> QED  BY <4>1, <4>2, <4>3
    <3> QED  BY <2>2, <3>2, <3>7, <3>8
  <2>7. CASE apart = {}
    <3>1. \A l \in 1..(i - 1) : same(l)
      BY <2>7
    <3>2. \A l \in 1..(i - 1) : alike(a[l], b[l]) /\ alike(b[l], c[l])
                                /\ l <= Len(b) /\ l <= Len(c)
      <4> TAKE l \in 1..(i - 1)
      <4>1. l \in 1..Len(b) /\ alike(a[l], b[l])
        BY <2>2, <3>1
      <4>2. a[l] \in T /\ c[l] \in T /\ b[l] \in T /\ alike(a[l], c[l]) /\ l <= Len(c)
        BY <2>3, <2>5, <4>1
      <4>3. alike(b[l], c[l])
        <5> HIDE DEF alike
        <5> QED  BY <2>4, <4>1, <4>2
      <4> QED  BY <4>1, <4>2, <4>3
    <3>3. i <= Len(b) + 1
      <4>1. CASE i = 1
        BY <2>2, <4>1
      <4>2. CASE i # 1
        <5>1. i - 1 \in 1..(i - 1)
          BY <2>2, <4>2
        <5>2. i - 1 <= Len(b)
          BY <3>2, <5>1
        <5> QED  BY <2>2, <5>2
      <4> QED  BY <4>1, <4>2
    <3> HIDE DEF apart
    <3>4. CASE i > Len(b)
      <4>1. LexAt(b, c, R, i)
        <5>1. ~(i <= Len(b))
          BY <2>2, <3>4
        <5> QED  BY <2>2, <3>2, <5>1 DEF LexAt
      <4> QED  BY <2>2, <3>3, <4>1
    <3>5. CASE i <= Len(b) /\ i > Len(a)
      <4>1. LexAt(a, b, R, i)
        <5>1. ~(i <= Len(a))
          BY <2>2, <3>5
        <5> QED  BY <3>2, <3>5, <5>1 DEF LexAt
      <4> QED  BY <2>2, <4>1
    <3>6. CASE i <= Len(b) /\ i <= Len(a)
      <4>1. <<a[i], c[i]>> \in R /\ a[i] \in T /\ b[i] \in T /\ c[i] \in T
        BY <2>1, <2>2, <3>6 DEF LexAt
      <4>2. <<a[i], b[i]>> \in R \/ <<b[i], c[i]>> \in R
        BY <4>1 DEF IsWeakOn
      <4>3. CASE <<a[i], b[i]>> \in R
        <5>1. LexAt(a, b, R, i)
          BY <3>2, <3>6, <4>3 DEF LexAt
        <5> QED  BY <2>2, <5>1
      <4>4. CASE <<b[i], c[i]>> \in R
        <5>1. LexAt(b, c, R, i)
          BY <2>2, <3>2, <4>4 DEF LexAt
        <5> QED  BY <2>2, <3>3, <5>1
      <4> QED  BY <4>2, <4>3, <4>4
    <3> QED  BY <2>2, <3>4, <3>5, <3>6
  <2> QED  BY <2>6, <2>7
<1> HIDE DEF L
<1> QED  BY <1>1, <1>2, <1>3 DEF IsWeakOn

\* Where the items of a sequence are once it is sorted.
Places(s, R, place) ==
    /\ place \in [DOMAIN s -> DOMAIN s]
    /\ SortOf(s, R) = [k \in DOMAIN s |-> s[place[k]]]
    /\ \A i \in DOMAIN s : \E k \in DOMAIN s : place[k] = i
    /\ \A k, l \in DOMAIN s : k < l => place[k] # place[l] /\ Before(s, R, place[k], place[l])

LEMMA SortIs ==
    ASSUME NEW T, NEW R, IsWeakOn(T, R), NEW s \in Seq(T)
    PROVE  /\ SortOf(s, R) \in Seq(T) /\ Len(SortOf(s, R)) = Len(s)
           /\ \E place : Places(s, R, place)
<1> DEFINE D == DOMAIN s
           le == {p \in D \X D : Before(s, R, p[1], p[2])}
           place == [k \in D |-> CHOOSE i \in D : Ranks(s, R)[i] = k]
<1>1. D = 1..Len(s) /\ Len(s) \in Nat /\ \A i \in D : s[i] \in T
  OBVIOUS
<1>2. \A i, j \in D : <<j, i>> \in le <=> Before(s, R, j, i)
  OBVIOUS
<1> HIDE DEF D, le
<1>3. IsOrderOn(D, le)
  <2>1. \A i, j \in D : Before(s, R, j, i) \/ Before(s, R, i, j)
    BY <1>1 DEF Before, IsWeakOn
  <2>2. \A i, j \in D : Before(s, R, j, i) /\ Before(s, R, i, j) => i = j
    BY <1>1 DEF Before, IsWeakOn
  <2>3. ASSUME NEW i \in D, NEW j \in D, NEW k \in D, Before(s, R, k, j), Before(s, R, j, i)
        PROVE  Before(s, R, k, i)
    <3> DEFINE x == s[i]
               y == s[j]
               z == s[k]
    <3>1. /\ x \in T /\ y \in T /\ z \in T
          /\ <<y, z>> \in R \/ (<<z, y>> \notin R /\ k <= j)
          /\ <<x, y>> \in R \/ (<<y, x>> \notin R /\ j <= i)
      BY <1>1, <2>3 DEF Before
    <3> HIDE DEF x, y, z
    <3>2. <<x, z>> \in R \/ (<<z, x>> \notin R /\ k <= i)
      BY <1>1, <3>1 DEF IsWeakOn
    <3> QED  BY <3>2 DEF Before, x, z
  <2> QED  BY <1>2, <2>1, <2>2, <2>3 DEF IsOrderOn
<1>4. IsFiniteSet(D) /\ Cardinality(D) = Len(s)
  <2> DEFINE n == Len(s)
  <2>1. n \in Nat /\ D = 1..n
    BY <1>1
  <2> HIDE DEF n
  <2>2. IsFiniteSet(1..n) /\ Cardinality(1..n) = n
    BY <2>1, FS_Interval
  <2> QED  BY <2>1, <2>2 DEF n
<1>5. \A i \in D : Ranks(s, R)[i] = Rank(D, le, i)
  <2> TAKE i \in D
  <2>1. {j \in D : <<j, i>> \in le} = {j \in D : Before(s, R, j, i)}
    BY <1>2
  <2> QED  BY <2>1 DEF Ranks, Rank, D
<1>6. \A k \in D : place[k] \in D /\ Ranks(s, R)[place[k]] = k
  <2> TAKE k \in D
  <2>1. \E i \in D : Ranks(s, R)[i] = k
    BY <1>1, <1>3, <1>4, <1>5, RanksAreTaken
  <2> QED  BY <2>1
<1>7. place \in [D -> D]
  <2>1. place = [k \in D |-> place[k]]
    OBVIOUS
  <2> HIDE DEF place
  <2> QED  BY <1>6, <2>1
<1>8. SortOf(s, R) = [k \in D |-> s[place[k]]]
  BY DEF SortOf, D
<1> HIDE DEF place
<1>9. SortOf(s, R) \in Seq(T) /\ Len(SortOf(s, R)) = Len(s)
  <2> DEFINE f == SortOf(s, R)
  <2>1. f = [k \in 1..Len(s) |-> f[k]] /\ \A k \in 1..Len(s) : f[k] \in T
    BY <1>1, <1>6, <1>8
  <2> HIDE DEF f
  <2> QED  BY <1>1, <2>1, ListIsSequence DEF f
<1>10. ASSUME NEW i \in D PROVE \E k \in D : place[k] = i
  <2> DEFINE k == Rank(D, le, i)
  <2>1. k \in D
    BY <1>1, <1>3, <1>4, RankType
  <2>2. Rank(D, le, place[k]) = k /\ place[k] \in D
    BY <1>5, <1>6, <2>1
  <2>3. place[k] = i
    <3>1. SUFFICES ASSUME place[k] # i PROVE FALSE
      OBVIOUS
    <3>2. <<place[k], i>> \in le \/ <<i, place[k]>> \in le
      BY <1>3, <2>2 DEF IsOrderOn
    <3> DEFINE p == place[k]
    <3>3. Rank(D, le, p) < Rank(D, le, i) \/ Rank(D, le, i) < Rank(D, le, p)
      <4> HIDE DEF k
      <4> QED  BY <1>3, <1>4, <2>2, <3>1, <3>2, RankIsMonotone
    <3>4. Rank(D, le, i) \in Nat /\ Rank(D, le, p) = Rank(D, le, i)
      BY <1>1, <2>1, <2>2
    <3> QED  BY <3>3, <3>4
  <2> QED  BY <2>1, <2>3
<1>11. ASSUME NEW k \in D, NEW l \in D, k < l
       PROVE  place[k] # place[l] /\ Before(s, R, place[k], place[l])
  <2> DEFINE p == place[k]
             q == place[l]
  <2>1. p \in D /\ q \in D /\ Rank(D, le, p) = k /\ Rank(D, le, q) = l
    BY <1>5, <1>6
  <2> HIDE DEF p, q
  <2>2. k \in Nat /\ l \in Nat
    BY <1>1
  <2>3. p # q
    BY <1>11, <2>1, <2>2
  <2>4. <<q, p>> \notin le
    <3> SUFFICES ASSUME <<q, p>> \in le PROVE FALSE
      OBVIOUS
    <3>1. Rank(D, le, q) < Rank(D, le, p)
      BY <1>3, <1>4, <2>1, <2>3, RankIsMonotone
    <3> QED  BY <1>11, <2>1, <2>2, <3>1
  <2>5. <<p, q>> \in le
    BY <1>3, <2>1, <2>4 DEF IsOrderOn
  <2> QED  BY <1>2, <2>1, <2>3, <2>5 DEF p, q
<1>12. Places(s, R, place)
  BY <1>7, <1>8, <1>10, <1>11 DEF Places, D
<1> QED  BY <1>9, <1>12
=============================================================================
