------------------------------ MODULE Counting ------------------------------
(* Numbers and finite sets: facts the proofs of several components need of   *)
(* the operators they count and choose with.  The provers have no induction; *)
(* what stands in for it is that a nonempty set of numbers has a least one.   *)
EXTENDS FiniteSetsExt, Listings, FiniteSetTheorems, TLAPS

\* Of any nonempty set of numbers one is the least: of the intervals from 0 to
\* its members one contains no other.
LEMMA LeastNumber ==
    ASSUME NEW S, S \subseteq Nat, S # {}
    PROVE  \E n \in S : \A m \in S : n <= m
<1> DEFINE Below(n) == 0..n
           T == {Below(n) : n \in S}
           R == StrictSubsetOrdering(Nat)
<1>1. T \subseteq FiniteSubsetsOf(Nat)
  <2> SUFFICES ASSUME NEW n \in S PROVE Below(n) \in FiniteSubsetsOf(Nat)
    OBVIOUS
  <2>1. n \in Nat /\ 0 \in Int /\ n \in Int
    OBVIOUS
  <2>2. IsFiniteSet(0..n)
    BY <2>1, FS_Interval
  <2> QED BY <2>1, <2>2 DEF FiniteSubsetsOf
<1>2. T # {}
  OBVIOUS
<1>3. IsWellFoundedOn(R, FiniteSubsetsOf(Nat))
  BY FS_StrictSubsetOrderingWellFounded
<1>4. PICK x \in T : \A y \in T : ~ (<<y, x>> \in R)
  <2> HIDE DEF T, R
  <2> QED BY <1>1, <1>2, <1>3, WFMin
<1>5. PICK n \in S : x = Below(n)
  OBVIOUS
<1>6. ASSUME NEW m \in S PROVE n <= m
  <2>1. m \in Nat /\ n \in Nat
    OBVIOUS
  <2>2. CASE m < n
    <3>1. Below(m) \subseteq Below(n) /\ Below(m) # Below(n)
      BY <2>1, <2>2
    <3>2. Below(m) \in SUBSET Nat /\ Below(n) \in SUBSET Nat
      BY <2>1
    <3>3. <<Below(m), Below(n)>> \in R
      <4> HIDE DEF Below
      <4> QED BY <3>1, <3>2 DEF StrictSubsetOrdering
    <3> QED BY <3>3, <1>4, <1>5
  <2> QED BY <2>1, <2>2
<1> QED BY <1>6

\* Of a nonempty set of numbers with a bound one is the greatest.
LEMMA GreatestNumber ==
    ASSUME NEW S, S \subseteq Nat, S # {}, NEW b \in Nat, \A s \in S : s <= b
    PROVE  \E n \in S : \A m \in S : m <= n
<1> DEFINE T == {b - s : s \in S}
<1>1. T \subseteq Nat /\ T # {}
  <2>1. \A s \in S : b - s \in Nat
    OBVIOUS
  <2>2. PICK s \in S : TRUE
    OBVIOUS
  <2>3. b - s \in T
    OBVIOUS
  <2> QED BY <2>1, <2>3
<1>2. PICK n \in T : \A m \in T : n <= m
  <2> HIDE DEF T
  <2> QED BY <1>1, LeastNumber
<1>3. PICK s \in S : n = b - s
  OBVIOUS
<1>4. ASSUME NEW m \in S PROVE m <= s
  <2>1. b - s <= b - m
    BY <1>2, <1>3
  <2> QED BY <2>1
<1> QED BY <1>4

\* Max: the greatest of a nonempty set of numbers with a bound, whichever it is.
LEMMA MaxIsGreatest ==
    ASSUME NEW S, S \subseteq Nat, S # {}, NEW b \in Nat, \A s \in S : s <= b
    PROVE  Max(S) \in S /\ \A m \in S : m <= Max(S)
<1>1. \E n \in S : \A m \in S : n >= m
  BY GreatestNumber
<1> QED BY <1>1 DEF Max

\* Min: the least of a nonempty set of numbers.
LEMMA MinIsLeast ==
    ASSUME NEW S, S \subseteq Nat, S # {}
    PROVE  Min(S) \in S /\ \A m \in S : Min(S) <= m
<1>1. \E n \in S : \A m \in S : n <= m
  BY LeastNumber
<1> QED BY <1>1 DEF Min

\* R orders S: of any two members one comes before the other.
IsOrder(R, S) ==
    /\ \A s \in S : <<s, s>> \notin R
    /\ \A s, t, u \in S : <<s, t>> \in R /\ <<t, u>> \in R => <<s, u>> \in R
    /\ \A s, t \in S : s # t => <<s, t>> \in R \/ <<t, s>> \in R

\* What comes before a member of an ordered set comes with one more before the next.
LEMMA EarlierCountsLess ==
    ASSUME NEW S, IsFiniteSet(S), NEW R, IsOrder(R, S), NEW s \in S
    PROVE  /\ Cardinality(Earlier(S, R, s)) \in Nat
           /\ Cardinality(Earlier(S, R, s) \cup {s}) = Cardinality(Earlier(S, R, s)) + 1
           /\ Cardinality(Earlier(S, R, s)) + 1 <= Cardinality(S)
           /\ \A t \in S : <<s, t>> \in R => Cardinality(Earlier(S, R, s)) + 1 <= Cardinality(Earlier(S, R, t))
<1> DEFINE Before(x) == Earlier(S, R, x)
<1>1. \A x : IsFiniteSet(Before(x)) /\ Cardinality(Before(x)) \in Nat /\ Before(x) \subseteq S
  BY FS_Subset, FS_CardinalityType DEF Earlier
<1>2. s \notin Before(s)
  BY DEF IsOrder, Earlier
<1>3. Cardinality(Before(s) \cup {s}) = Cardinality(Before(s)) + 1
  <2> HIDE DEF Before
  <2> QED BY <1>1, <1>2, FS_AddElement
<1>4. Before(s) \cup {s} \subseteq S
  BY DEF Earlier
<1>5. Cardinality(Before(s) \cup {s}) <= Cardinality(S)
  BY <1>4, FS_Subset
<1>6. ASSUME NEW t \in S, <<s, t>> \in R PROVE Cardinality(Before(s)) + 1 <= Cardinality(Before(t))
  <2>1. Before(s) \cup {s} \subseteq Before(t)
    BY <1>6 DEF IsOrder, Earlier
  <2>2. Cardinality(Before(s) \cup {s}) <= Cardinality(Before(t))
    BY <1>1, <2>1, FS_Subset
  <2> QED BY <1>3, <2>2
<1> QED BY <1>1, <1>3, <1>5, <1>6

\* A nonempty part of an ordered finite set has a last member.
LEMMA LastOfPart ==
    ASSUME NEW S, IsFiniteSet(S), NEW R, IsOrder(R, S), NEW T, T \subseteq S, T # {}
    PROVE  \E m \in T : \A t \in T : t = m \/ <<t, m>> \in R
<1> DEFINE rank == [s \in S |-> Cardinality(Earlier(S, R, s))]
           Ranks == {rank[t] : t \in T}
<1>1. \A s \in S : rank[s] \in Nat /\ rank[s] <= Cardinality(S)
  <2> SUFFICES ASSUME NEW s \in S PROVE rank[s] \in Nat /\ rank[s] <= Cardinality(S)
    OBVIOUS
  <2>1. rank[s] = Cardinality(Earlier(S, R, s))
    OBVIOUS
  <2>2. /\ Cardinality(Earlier(S, R, s)) \in Nat
        /\ Cardinality(Earlier(S, R, s)) + 1 <= Cardinality(S)
    BY EarlierCountsLess
  <2>3. Cardinality(S) \in Nat
    BY FS_CardinalityType
  <2>4. PICK k \in Nat : k = rank[s]
    BY <2>1, <2>2
  <2>5. k + 1 <= Cardinality(S)
    BY ONLY <2>1, <2>2, <2>4
  <2>6. k <= Cardinality(S)
    BY ONLY <2>3, <2>5, k \in Nat
  <2> QED BY ONLY <2>4, <2>6, k \in Nat
<1>2. \A s, t \in S : <<s, t>> \in R => rank[s] + 1 <= rank[t]
  <2> SUFFICES ASSUME NEW s \in S, NEW t \in S, <<s, t>> \in R PROVE rank[s] + 1 <= rank[t]
    OBVIOUS
  <2>1. Cardinality(Earlier(S, R, s)) + 1 <= Cardinality(Earlier(S, R, t))
    BY EarlierCountsLess
  <2>2. rank[s] = Cardinality(Earlier(S, R, s)) /\ rank[t] = Cardinality(Earlier(S, R, t))
    OBVIOUS
  <2> QED BY ONLY <2>1, <2>2
<1> HIDE DEF rank
<1>3. PICK r \in Ranks : \A q \in Ranks : q <= r
  <2>1. Ranks \subseteq Nat /\ Ranks # {} /\ \A q \in Ranks : q <= Cardinality(S)
    BY <1>1
  <2>2. Cardinality(S) \in Nat
    BY FS_CardinalityType
  <2> HIDE DEF Ranks
  <2> QED BY <2>1, <2>2, GreatestNumber
<1>4. PICK m \in T : r = rank[m]
  OBVIOUS
<1>5. ASSUME NEW t \in T PROVE t = m \/ <<t, m>> \in R
  <2> SUFFICES ASSUME <<m, t>> \in R PROVE FALSE
    BY DEF IsOrder
  <2>1. rank[t] <= rank[m] /\ rank[m] + 1 <= rank[t]
    BY <1>2, <1>3, <1>4
  <2>2. rank[t] \in Nat /\ rank[m] \in Nat
    BY <1>1
  <2> QED BY ONLY <2>1, <2>2
<1> QED BY <1>5

\* Of an ordered finite set one member has none before it, one one, and so on.
LEMMA EveryRankIsTaken ==
    ASSUME NEW S, IsFiniteSet(S), NEW R, IsOrder(R, S), NEW n \in Nat, n < Cardinality(S)
    PROVE  \E s \in S : Cardinality(Earlier(S, R, s)) = n
<1> DEFINE Before(x) == Earlier(S, R, x)
           rank == [s \in S |-> Cardinality(Before(s))]
           Ranks == {rank[s] : s \in {t \in S : rank[t] >= n}}
<1>0. Cardinality(S) \in Nat
  BY FS_CardinalityType
<1>1. \A s \in S : rank[s] = Cardinality(Before(s)) /\ rank[s] \in Nat /\ Cardinality(Before(s) \cup {s}) = rank[s] + 1
  BY EarlierCountsLess
<1>2. \E s \in S : rank[s] >= n
  <2>1. S # {}
    BY <1>0, FS_EmptySet
  <2>2. PICK m \in S : \A t \in S : t = m \/ <<t, m>> \in R
    BY <2>1, LastOfPart
  <2>3. Before(m) \cup {m} = S
    BY <2>2 DEF Earlier
  <2>4. rank[m] + 1 = Cardinality(S) /\ rank[m] \in Nat
    BY <1>1, <2>3
  <2>5. rank[m] >= n
    BY ONLY <1>0, <2>4, n < Cardinality(S), n \in Nat
  <2> QED BY <2>5
<1>3. PICK r \in Ranks : \A q \in Ranks : r <= q
  <2>1. Ranks \subseteq Nat
    BY <1>1
  <2>2. Ranks # {}
    BY <1>2
  <2> HIDE DEF Ranks
  <2> QED BY <2>1, <2>2, LeastNumber
<1>4. PICK s \in S : r = rank[s] /\ rank[s] >= n
  OBVIOUS
<1>5. CASE rank[s] = n
  BY <1>1, <1>5
<1>6. CASE rank[s] # n
  <2>1. rank[s] \in Nat /\ rank[s] > n
    <3>1. rank[s] \in Nat
      BY <1>1
    <3> QED BY ONLY <1>4, <1>6, <3>1, n \in Nat
  <2>2. Before(s) # {} /\ Before(s) \subseteq S
    <3>1. Cardinality(Before(s)) # 0
      BY <1>1, <2>1
    <3> QED BY <3>1, FS_EmptySet DEF Earlier
  <2>3. PICK u \in Before(s) : \A t \in Before(s) : t = u \/ <<t, u>> \in R
    <3> HIDE DEF Before
    <3> QED BY <2>2, LastOfPart
  <2>4. u \in S /\ Before(u) \cup {u} = Before(s)
    BY <2>2, <2>3 DEF IsOrder, Earlier
  <2>5. rank[u] + 1 = rank[s] /\ rank[u] \in Nat
    BY <1>1, <2>4
  <2>6. rank[u] >= n /\ ~(rank[s] <= rank[u])
    BY ONLY <2>1, <2>5, n \in Nat
  <2> QED BY <1>3, <1>4, <2>4, <2>6
<1> QED BY <1>5, <1>6

\* The members of an ordered finite set with fewer than n before them are n.
LEMMA FirstOnesCount ==
    ASSUME NEW S, IsFiniteSet(S), NEW R, IsOrder(R, S), NEW n \in Nat, n <= Cardinality(S)
    PROVE  Cardinality({s \in S : Cardinality(Earlier(S, R, s)) < n}) = n
<1> DEFINE P == {s \in S : Cardinality(Earlier(S, R, s)) < n}
           rank == [s \in P |-> Cardinality(Earlier(S, R, s))]
<1>1. \A s \in S : Cardinality(Earlier(S, R, s)) \in Nat
  BY EarlierCountsLess
<1>2. rank \in [P -> 0..(n - 1)]
  BY <1>1
<1>3. ASSUME NEW s \in P, NEW t \in P, s # t PROVE rank[s] # rank[t]
  <2>1. ASSUME NEW a \in P, NEW b \in P, <<a, b>> \in R PROVE rank[a] # rank[b]
    <3>1. Cardinality(Earlier(S, R, a)) + 1 <= Cardinality(Earlier(S, R, b))
      BY <2>1, EarlierCountsLess
    <3>2. Cardinality(Earlier(S, R, a)) \in Nat /\ Cardinality(Earlier(S, R, b)) \in Nat
      BY <1>1
    <3>3. rank[a] = Cardinality(Earlier(S, R, a)) /\ rank[b] = Cardinality(Earlier(S, R, b))
      OBVIOUS
    <3> QED BY ONLY <3>1, <3>2, <3>3
  <2>2. <<s, t>> \in R \/ <<t, s>> \in R
    BY <1>3 DEF IsOrder
  <2> QED BY <2>1, <2>2
<1>4. ASSUME NEW m \in 0..(n - 1) PROVE \E s \in P : rank[s] = m
  <2>0. Cardinality(S) \in Nat
    BY FS_CardinalityType
  <2>1. m \in Nat /\ m < n /\ m < Cardinality(S)
    BY <2>0
  <2>2. PICK s \in S : Cardinality(Earlier(S, R, s)) = m
    BY <2>1, EveryRankIsTaken
  <2>3. s \in P
    BY <2>1, <2>2
  <2> QED BY <2>2, <2>3
<1>5. rank \in Bijection(P, 0..(n - 1))
  <2> HIDE DEF P, rank
  <2> QED BY <1>2, <1>3, <1>4 DEF Bijection, Injection, Surjection, IsInjective
<1>6. IsFiniteSet(P)
  BY FS_Subset
<1>7. Cardinality(P) = Cardinality(0..(n - 1))
  <2> HIDE DEF P, rank
  <2>1. ExistsBijection(P, 0..(n - 1))
    BY <1>5 DEF ExistsBijection
  <2> QED BY <1>6, <2>1, FS_Bijection
<1>8. Cardinality(0..(n - 1)) = n
  BY FS_Interval
<1> QED BY <1>7, <1>8

\* A listing has every member once, the earlier ones first.
LEMMA ListingIsSorted ==
    ASSUME NEW S, IsFiniteSet(S), NEW R, IsOrder(R, S)
    PROVE  /\ Listing(S, R) \in [1..Cardinality(S) -> S]
           /\ \A s \in S : \E k \in 1..Cardinality(S) : Listing(S, R)[k] = s
           /\ \A j, k \in 1..Cardinality(S) : j < k => <<Listing(S, R)[j], Listing(S, R)[k]>> \in R
<1> DEFINE rank(s) == Cardinality(Earlier(S, R, s))
           n == Cardinality(S)
           list == Listing(S, R)
<1>1. n \in Nat
  BY FS_CardinalityType
<1>2. ASSUME NEW s \in S
      PROVE  /\ rank(s) \in Nat /\ rank(s) + 1 <= n
             /\ \A t \in S : <<s, t>> \in R => rank(s) + 1 <= rank(t)
  BY EarlierCountsLess
<1>3. ASSUME NEW k \in 1..n PROVE list[k] \in S /\ rank(list[k]) = k - 1
  <2>1. k - 1 \in Nat /\ k - 1 < n
    BY <1>1
  <2>2. \E s \in S : rank(s) = k - 1
    BY <2>1, EveryRankIsTaken
  <2>3. list[k] = CHOOSE s \in S : rank(s) = k - 1
    BY DEF Listing
  <2> HIDE DEF rank, list
  <2> QED BY <2>2, <2>3
<1>4. ASSUME NEW s \in S, NEW t \in S, rank(s) = rank(t) PROVE s = t
  <2> SUFFICES ASSUME s # t PROVE FALSE
    OBVIOUS
  <2>1. <<s, t>> \in R \/ <<t, s>> \in R
    BY DEF IsOrder
  <2>2. rank(s) \in Nat /\ rank(t) \in Nat
    BY <1>2
  <2> HIDE DEF rank
  <2> QED BY <1>2, <1>4, <2>1, <2>2
<1>5. list \in [1..n -> S]
  <2>1. list = [k \in 1..n |-> list[k]]
    BY DEF Listing
  <2> HIDE DEF list, n
  <2> QED BY <1>3, <2>1
<1>6. ASSUME NEW s \in S PROVE \E k \in 1..n : list[k] = s
  <2>1. rank(s) + 1 \in 1..n
    BY <1>1, <1>2
  <2>2. list[rank(s) + 1] = s
    <3>1. list[rank(s) + 1] \in S /\ rank(list[rank(s) + 1]) = rank(s)
      <4>1. rank(s) \in Nat
        BY <1>2
      <4> HIDE DEF rank, list, n
      <4> QED BY <1>3, <2>1, <4>1
    <3> HIDE DEF rank, list
    <3> QED BY <1>4, <3>1
  <2> QED BY <2>1, <2>2
<1>7. ASSUME NEW j \in 1..n, NEW k \in 1..n, j < k PROVE <<list[j], list[k]>> \in R
  <2>1. /\ list[j] \in S /\ rank(list[j]) = j - 1
        /\ list[k] \in S /\ rank(list[k]) = k - 1
    BY <1>3
  <2>2. j \in Int /\ k \in Int
    OBVIOUS
  <2> HIDE DEF rank, list, n
  <2>3. list[j] # list[k]
    BY <1>7, <2>1, <2>2
  <2>4. <<list[k], list[j]>> \in R => rank(list[k]) + 1 <= rank(list[j])
    BY <1>2, <2>1
  <2>5. <<list[k], list[j]>> \notin R
    BY <1>7, <2>1, <2>2, <2>4
  <2> QED BY <2>1, <2>3, <2>5 DEF IsOrder
<1> QED BY <1>5, <1>6, <1>7

\* There is a function that sums up a field, bar by bar: the least number of bars for
\* which there was none would extend the one before.
Sums(k, field, from, to, run) == [j \in (from - 1)..to |-> IF j < from THEN 0 ELSE run[j-1] + k[j][field]]
SumsOf(k, field, from, to) == CHOOSE run : run = Sums(k, field, from, to, run)

LEMMA SumIsOfSums ==
  \A k, field, from, to : SumOver(k, field, from, to) = SumsOf(k, field, from, to)[to]
BY DEF SumOver, SumsOf, Sums

LEMMA SumsExist ==
  ASSUME NEW k, NEW field, NEW from \in Int, NEW len \in Nat
  PROVE  \E run : run = Sums(k, field, from, from - 1 + len, run)
<1> DEFINE At(n) == from - 1 + n
           Bad == {n \in Nat : ~ \E run : run = Sums(k, field, from, At(n), run)}
<1>1. Bad = {}
  <2> SUFFICES ASSUME Bad # {} PROVE FALSE
    OBVIOUS
  <2>1. PICK n \in Bad : \A m \in Bad : n <= m
    <3>1. Bad \subseteq Nat
      OBVIOUS
    <3> HIDE DEF Bad
    <3> QED BY <3>1, LeastNumber
  <2>2. CASE n = 0
    <3> DEFINE run == [j \in (from - 1)..At(0) |-> 0]
    <3>1. \A j \in (from - 1)..At(0) : j < from
      OBVIOUS
    <3>2. run = Sums(k, field, from, At(0), run)
      BY <3>1 DEF Sums
    <3> QED BY <2>1, <2>2, <3>2
  <2>3. CASE n # 0
    <3>1. n \in Nat /\ n-1 \in Nat /\ n-1 \notin Bad
      BY <2>1, <2>3
    <3>2. PICK before : before = Sums(k, field, from, At(n-1), before)
      BY <3>1
    <3>3. At(n) \in Int /\ At(n) >= from /\ At(n-1) = At(n) - 1
      BY <2>3, <3>1
    <3> HIDE DEF At
    <3> DEFINE run == [j \in (from - 1)..At(n) |-> IF j = At(n) THEN before[j-1] + k[j][field] ELSE before[j]]
    <3>4. ASSUME NEW j \in (from - 1)..At(n)
          PROVE run[j] = IF j < from THEN 0 ELSE run[j-1] + k[j][field]
      <4>1. CASE j = At(n)
        <5>1. j-1 \in (from - 1)..At(n) /\ j-1 # At(n)
          BY <3>3, <4>1
        <5>2. run[j-1] = before[j-1]
          BY <5>1
        <5> QED BY <3>3, <4>1, <5>2
      <4>2. CASE j # At(n)
        <5>1. j \in (from - 1)..At(n-1) /\ (~(j < from) => j-1 \in (from - 1)..At(n) /\ j-1 # At(n))
          BY <3>3, <4>2
        <5>2. before[j] = IF j < from THEN 0 ELSE before[j-1] + k[j][field]
          BY <3>2, <5>1 DEF Sums
        <5>3. run[j] = before[j] /\ (~(j < from) => run[j-1] = before[j-1])
          BY <4>2, <5>1
        <5> QED BY <5>2, <5>3
      <4> QED BY <4>1, <4>2
    <3>5. run = Sums(k, field, from, At(n), run)
      <4>1. run = [j \in (from - 1)..At(n) |-> run[j]]
        OBVIOUS
      <4> HIDE DEF run
      <4> QED BY <3>4, <4>1 DEF Sums
    <3> QED BY <2>1, <3>5
  <2> QED BY <2>2, <2>3
<1> QED BY <1>1

LEMMA SumsAreSums ==
  ASSUME NEW k, NEW field, NEW from \in Int, NEW to \in Int, from - 1 <= to
  PROVE  LET run == SumsOf(k, field, from, to)
         IN  run[from-1] = 0 /\ \A j \in from..to : run[j] = run[j-1] + k[j][field]
<1> DEFINE run == SumsOf(k, field, from, to)
<1>1. PICK len \in Nat : to = from - 1 + len
  <2>1. to - (from - 1) \in Nat /\ to = from - 1 + (to - (from - 1))
    OBVIOUS
  <2> QED BY <2>1
<1>2. \E other : other = Sums(k, field, from, to, other)
  <2>1. \E other : other = Sums(k, field, from, from - 1 + len, other)
    BY SumsExist
  <2> QED BY <1>1, <2>1
<1>3. run = Sums(k, field, from, to, run)
  BY <1>2 DEF SumsOf
<1> HIDE DEF run
<1>4. run[from-1] = 0
  BY <1>3 DEF Sums
<1>5. \A j \in from..to : run[j] = run[j-1] + k[j][field]
  BY <1>3 DEF Sums
<1> QED BY <1>4, <1>5 DEF run

\* A field of some bars of m is c times that of the bars of k.
FieldTimes(k, m, field, c, from, to) == \A j \in from..to : k[j][field] \in Int /\ m[j][field] = c * k[j][field]

\* A sum is in the unit of what is summed.
LEMMA SumIsInUnits ==
  ASSUME NEW k, NEW m, NEW field, NEW c \in Nat, NEW from \in Int, NEW to \in Int, from - 1 <= to,
         FieldTimes(k, m, field, c, from, to)
  PROVE  /\ SumOver(k, field, from, to) \in Int
         /\ SumOver(m, field, from, to) = c * SumOver(k, field, from, to)
<1> DEFINE one == SumsOf(k, field, from, to)
           other == SumsOf(m, field, from, to)
           Bad == {n \in Nat : from - 1 + n <= to /\ ~(one[from-1+n] \in Int /\ other[from-1+n] = c * one[from-1+n])}
<1>0. \A j \in from..to : k[j][field] \in Int /\ m[j][field] = c * k[j][field]
  BY DEF FieldTimes
<1>1. one[from-1] = 0 /\ \A j \in from..to : one[j] = one[j-1] + k[j][field]
  BY SumsAreSums
<1>2. other[from-1] = 0 /\ \A j \in from..to : other[j] = other[j-1] + m[j][field]
  BY SumsAreSums
<1> HIDE DEF one, other
<1>3. Bad = {}
  <2> SUFFICES ASSUME Bad # {} PROVE FALSE
    OBVIOUS
  <2>1. PICK n \in Bad : \A x \in Bad : n <= x
    <3>1. Bad \subseteq Nat
      OBVIOUS
    <3> HIDE DEF Bad
    <3> QED BY <3>1, LeastNumber
  <2>2. n # 0
    <3>1. from - 1 + 0 = from - 1 /\ c * 0 = 0
      OBVIOUS
    <3> QED BY <1>1, <1>2, <2>1, <3>1
  <2>3. n \in Nat /\ n-1 \in Nat /\ from - 1 + n \in from..to /\ from - 1 + (n-1) = (from - 1 + n) - 1
    BY <2>1, <2>2
  <2> DEFINE j == from - 1 + n
  <2>4. one[j-1] \in Int /\ other[j-1] = c * one[j-1]
    <3>1. n-1 \notin Bad
      <4>1. n \in Nat /\ ~(n <= n-1)
        BY <2>3
      <4> HIDE DEF Bad
      <4> QED BY <2>1, <4>1
    <3>2. j - 1 <= to /\ j - 1 = from - 1 + (n-1)
      BY <2>3
    <3> QED BY <2>3, <3>1, <3>2
  <2>5. j \in from..to /\ ~(one[j] \in Int /\ other[j] = c * one[j])
    BY <2>1, <2>3
  <2> HIDE DEF j
  <2>6. one[j] = one[j-1] + k[j][field] /\ k[j][field] \in Int
    BY <1>0, <1>1, <2>5
  <2>7. other[j] = c * one[j-1] + c * k[j][field]
    BY <1>0, <1>2, <2>4, <2>5
  <2>8. \A a, b \in Int : c * a + c * b = c * (a + b)
    OBVIOUS
  <2> QED BY <2>4, <2>5, <2>6, <2>7, <2>8
<1>4. PICK n \in Nat : from - 1 + n = to
  <2>1. to - (from - 1) \in Nat /\ from - 1 + (to - (from - 1)) = to
    OBVIOUS
  <2> QED BY <2>1
<1>5. one[to] \in Int /\ other[to] = c * one[to]
  <2>1. n \notin Bad
    BY <1>3
  <2>2. from - 1 + n <= to
    BY <1>4
  <2>3. one[from-1+n] \in Int /\ other[from-1+n] = c * one[from-1+n]
    BY <2>1, <2>2
  <2> QED BY <1>4, <2>3
<1> QED BY <1>5, SumIsOfSums DEF one, other

\* Finitely many numbers have a bound: the least count of them without one would give
\* the one before a bound, and the number added is one more.
LEMMA NumbersAreBounded ==
  ASSUME NEW from \in Int, NEW to \in Int, NEW x, \A j \in from..to : x[j] \in Nat
  PROVE  \E b \in Nat : \A j \in from..to : x[j] <= b
<1> DEFINE Bounded(i) == \E b \in Nat : \A j \in from..i : x[j] <= b
           Bad == {n \in Nat : from - 1 + n <= to /\ ~Bounded(from - 1 + n)}
<1>1. Bad = {}
  <2> SUFFICES ASSUME Bad # {} PROVE FALSE
    OBVIOUS
  <2>1. PICK n \in Bad : \A m \in Bad : n <= m
    <3>1. Bad \subseteq Nat
      OBVIOUS
    <3> HIDE DEF Bad
    <3> QED BY <3>1, LeastNumber
  <2>2. n # 0
    <3>1. from..(from - 1 + 0) = {}
      OBVIOUS
    <3>2. Bounded(from - 1 + 0)
      BY <3>1
    <3> HIDE DEF Bounded
    <3> QED BY <2>1, <3>2
  <2>3. PICK i \in Int : i = from - 1 + n
    BY <2>1
  <2>4. n \in Nat /\ i \in from..to /\ i - 1 = from - 1 + (n-1) /\ n-1 \in Nat /\ n-1 < n
    BY <2>1, <2>2, <2>3
  <2>5. Bounded(i-1) /\ ~Bounded(i)
    <3>1. n-1 \notin Bad
      <4> HIDE DEF Bad
      <4> QED BY <2>1, <2>4
    <3> HIDE DEF Bounded
    <3> QED BY <2>1, <2>3, <2>4, <3>1
  <2>6. PICK b \in Nat : \A j \in from..(i-1) : x[j] <= b
    BY <2>5
  <2>7. x[i] \in Nat
    BY <2>4
  <2>8. PICK a \in Nat : b <= a /\ x[i] <= a
    <3>1. b + x[i] \in Nat /\ b <= b + x[i] /\ x[i] <= b + x[i]
      BY <2>7
    <3> QED BY <3>1
  <2>9. \A j \in from..i : x[j] <= a
    <3> SUFFICES ASSUME NEW j \in from..i PROVE x[j] <= a
      OBVIOUS
    <3>1. x[j] \in Nat
      BY <2>4
    <3>2. CASE j = i
      BY <2>8, <3>2
    <3>3. CASE j # i
      <4>1. x[j] <= b
        BY <2>4, <2>6, <3>3
      <4> QED BY <2>8, <3>1, <4>1
    <3> QED BY <3>2, <3>3
  <2> QED BY <2>5, <2>9
<1>2. CASE from <= to
  <2>1. PICK n \in Nat : from - 1 + n = to
    <3>1. to - (from - 1) \in Nat /\ from - 1 + (to - (from - 1)) = to
      BY <1>2
    <3> QED BY <3>1
  <2>2. n \notin Bad
    BY <1>1
  <2>3. Bounded(to)
    <3> HIDE DEF Bounded
    <3> QED BY <2>1, <2>2
  <2> QED BY <2>3
<1>3. CASE ~(from <= to)
  <2>1. from..to = {} /\ 0 \in Nat
    BY <1>3
  <2> QED BY <2>1
<1> QED BY <1>2, <1>3
=============================================================================
