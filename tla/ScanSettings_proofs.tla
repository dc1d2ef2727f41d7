------------------------- MODULE ScanSettings_proofs ------------------------
(***************************************************************************)
(* What createScan() makes of its settings, for all of them: TLC varies    *)
(* one group of options at a time, here they vary together.                *)
(***************************************************************************)
EXTENDS ScanSettings, FiniteSetTheorems, SequenceTheorems, TLAPS

(* How many members of S there are up to each of them. *)
UpTo(S, i) == {j \in S : j <= i}
Rank(S) == [i \in S |-> Cardinality(UpTo(S, i))]

(* The rank in a finite set of numbers grows with the number.              *)
LEMMA RankGrows ==
    ASSUME NEW S, IsFiniteSet(S), S \subseteq Nat, NEW i \in S, NEW j \in S, i < j
    PROVE  Rank(S)[i] < Rank(S)[j]
<1>1. /\ UpTo(S, i) \in SUBSET UpTo(S, j) /\ UpTo(S, j) \in SUBSET S
      /\ j \in UpTo(S, j) /\ j \notin UpTo(S, i)
  <2>1. i \in Nat /\ j \in Nat /\ \A k \in S : k \in Nat
    OBVIOUS
  <2>2. \A k \in S : k <= i => k <= j
    BY <2>1
  <2>3. UpTo(S, i) \in SUBSET UpTo(S, j)
    BY <2>2 DEF UpTo
  <2>4. QED
    BY <2>1, <2>3 DEF UpTo
<1>2. IsFiniteSet(UpTo(S, j))
    BY <1>1, FS_Subset
<1>3. IsFiniteSet(UpTo(S, i))
    BY <1>1, <1>2, FS_Subset
<1>4. Cardinality(UpTo(S, i)) <= Cardinality(UpTo(S, j))
    BY <1>1, <1>2, FS_Subset
<1>5. Cardinality(UpTo(S, i)) # Cardinality(UpTo(S, j))
    BY <1>1, <1>2, FS_Subset
<1>6. Cardinality(UpTo(S, i)) \in Nat /\ Cardinality(UpTo(S, j)) \in Nat
    BY <1>2, <1>3, FS_CardinalityType
<1>7. QED
    BY <1>4, <1>5, <1>6 DEF Rank

(* The members of a finite set of numbers have different ranks, from one   *)
(* to the size of the set, each of which some member has.                  *)
LEMMA RankIsBijection ==
    ASSUME NEW S, IsFiniteSet(S), S \subseteq Nat
    PROVE  /\ Rank(S) \in [S -> 1..Cardinality(S)]
           /\ \A n \in 1..Cardinality(S) : \E i \in S : Rank(S)[i] = n
<1> DEFINE N == Cardinality(S)
<1>1. N \in Nat
    BY FS_CardinalityType
<1>2. ASSUME NEW i \in S PROVE Rank(S)[i] \in 1..N
  <2>1. UpTo(S, i) \in SUBSET S /\ i \in UpTo(S, i)
    BY DEF UpTo
  <2>2. IsFiniteSet(UpTo(S, i)) /\ Cardinality(UpTo(S, i)) <= N
    BY <2>1, FS_Subset
  <2>3. Cardinality(UpTo(S, i)) \in Nat
    BY <2>2, FS_CardinalityType
  <2>4. Cardinality(UpTo(S, i)) # 0
    BY <2>1, <2>2, FS_EmptySet
  <2>5. QED
    BY <1>1, <2>2, <2>3, <2>4 DEF Rank
<1>3. Rank(S) \in [S -> 1..N]
    BY <1>2 DEF Rank
<1>4. \A i, j \in S : Rank(S)[i] = Rank(S)[j] => i = j
  <2> SUFFICES ASSUME NEW i \in S, NEW j \in S, i < j PROVE Rank(S)[i] # Rank(S)[j]
    OBVIOUS
  <2>1. Rank(S)[i] < Rank(S)[j]
    BY RankGrows
  <2>2. QED
    BY <2>1, <1>3
<1>5. Rank(S) \in Injection(S, 1..N)
    BY <1>3, <1>4 DEF Injection, IsInjective
<1>6. IsFiniteSet(1..N) /\ Cardinality(1..N) = N
    BY <1>1, FS_Interval
<1>7. Rank(S) \in Surjection(S, 1..N)
    BY <1>5, <1>6, FS_Injection
<1>8. QED
    BY <1>3, <1>7 DEF Surjection

(* Ascending() lists every member of a finite set of numbers once.         *)
LEMMA AscendingLists ==
    ASSUME NEW S, IsFiniteSet(S), S \subseteq Nat
    PROVE  /\ Cardinality(S) \in Nat
           /\ Ascending(S) \in [1..Cardinality(S) -> S]
           /\ \A i, j \in 1..Cardinality(S) :
                 i < j => Ascending(S)[i] < Ascending(S)[j]
           /\ \A x \in S : \E i \in 1..Cardinality(S) : Ascending(S)[i] = x
<1> DEFINE N == Cardinality(S)
           f == [n \in 1..N |-> CHOOSE i \in S : Rank(S)[i] = n]
<1>1. N \in Nat
    BY FS_CardinalityType
<1>2. \A n \in 1..N : f[n] \in S /\ Rank(S)[f[n]] = n
    BY RankIsBijection
<1>3. ASSUME NEW i \in 1..N, NEW j \in 1..N, i < j PROVE f[i] < f[j]
  <2>1. CASE f[j] < f[i]
    <3>1. Rank(S)[f[j]] < Rank(S)[f[i]]
      BY <2>1, <1>2, RankGrows
    <3>2. QED
      BY <3>1, <1>2, <1>3
  <2>2. CASE f[i] = f[j]
    BY <2>2, <1>2, <1>3
  <2>3. f[i] \in Nat /\ f[j] \in Nat
    BY <1>2
  <2>4. QED
    BY <2>1, <2>2, <2>3
<1>4. f \in [1..N -> S] /\ \A i, j \in DOMAIN f : i < j => f[i] < f[j]
  <2>1. f \in [1..N -> S]
    BY <1>2
  <2>2. QED
    BY <2>1, <1>3
<1>5. /\ Ascending(S) \in [1..N -> S]
      /\ \A i, j \in DOMAIN Ascending(S) : i < j => Ascending(S)[i] < Ascending(S)[j]
    BY <1>4 DEF Ascending
<1>6. \A i, j \in 1..N : i < j => Ascending(S)[i] < Ascending(S)[j]
    BY <1>5
<1>7. \A i, j \in 1..N : Ascending(S)[i] = Ascending(S)[j] => i = j
  <2> SUFFICES ASSUME NEW i \in 1..N, NEW j \in 1..N, i < j
               PROVE  Ascending(S)[i] # Ascending(S)[j]
    BY <1>1
  <2>1. Ascending(S)[i] < Ascending(S)[j] /\ Ascending(S)[i] \in Nat
    BY <1>5, <1>6
  <2>2. QED
    BY <2>1
<1>8. Ascending(S) \in Injection(1..N, S)
    BY <1>5, <1>7 DEF Injection, IsInjective
<1>9. IsFiniteSet(1..N) /\ Cardinality(1..N) = N
    BY <1>1, FS_Interval
<1>10. Ascending(S) \in Surjection(1..N, S)
    BY <1>8, <1>9, FS_Injection
<1>11. QED
    BY <1>1, <1>5, <1>6, <1>10 DEF Surjection

(* A finite set of numbers has a least member.                             *)
LEMMA LeastMember ==
    ASSUME NEW S, IsFiniteSet(S), S \subseteq Nat, S # {}
    PROVE  \E m \in S : \A x \in S : m <= x
<1> DEFINE N == Cardinality(S)
           f == Ascending(S)
<1>1. N \in Nat /\ N # 0
    BY FS_CardinalityType, FS_EmptySet
<1>2. /\ f \in [1..N -> S]
      /\ \A i, j \in 1..N : i < j => f[i] < f[j]
      /\ \A x \in S : \E i \in 1..N : f[i] = x
    BY AscendingLists
<1> HIDE DEF N, f
<1>3. 1 \in 1..N /\ f[1] \in S
    BY <1>1, <1>2
<1>4. ASSUME NEW x \in S PROVE f[1] <= x
  <2>1. PICK i \in 1..N : f[i] = x
    BY <1>2
  <2>2. i = 1 \/ 1 < i
    BY <1>1
  <2>3. i = 1 \/ f[1] < f[i]
    BY <2>2, <1>2, <1>3
  <2>4. x \in Nat /\ f[1] \in Nat
    BY <1>3
  <2>5. QED
    BY <2>1, <2>3, <2>4
<1>5. QED
    BY <1>3, <1>4
-----------------------------------------------------------------------------
(* The tests are listed as the setter does: each position at most once,    *)
(* the plain tests first, none forgotten.                                  *)
LEMMA OrderLists ==
    ASSUME NEW tests \in Seq(Tests)
    PROVE  /\ Order(tests) \in Seq(DOMAIN tests)
           /\ Len(Order(tests)) <= Len(tests)
           /\ \A k, l \in DOMAIN Order(tests) : Order(tests)[k] = Order(tests)[l] => k = l
           /\ \A k, l \in DOMAIN Order(tests) :
                 k < l /\ Order(tests)[l] \in PlainTests(tests)
                   => Order(tests)[k] \in PlainTests(tests)
           /\ \A k \in DOMAIN Order(tests) :
                 Order(tests)[k] \in PlainTests(tests) \cup ConfiguredTests(tests)
           /\ \A i \in PlainTests(tests) \cup ConfiguredTests(tests) :
                 \E k \in DOMAIN Order(tests) : Order(tests)[k] = i
<1> DEFINE P == PlainTests(tests)
           C == ConfiguredTests(tests)
           D == DOMAIN tests
           p == Cardinality(P)
           c == Cardinality(C)
           s == Ascending(P)
           t == Ascending(C)
<1>1. D = 1..Len(tests) /\ Len(tests) \in Nat /\ IsFiniteSet(D) /\ Cardinality(D) = Len(tests)
  <2>1. D = 1..Len(tests) /\ Len(tests) \in Nat
    OBVIOUS
  <2>2. QED
    BY <2>1, FS_Interval
<1>2. P \in SUBSET D /\ C \in SUBSET D /\ P \cap C = {} /\ P \cup C \in SUBSET D
    BY DEF PlainTests, ConfiguredTests
<1>3. /\ IsFiniteSet(P) /\ IsFiniteSet(C) /\ IsFiniteSet(P \cup C)
      /\ Cardinality(P \cup C) <= Len(tests)
    BY <1>1, <1>2, FS_Subset
<1>4. P \subseteq Nat /\ C \subseteq Nat
    BY <1>1, <1>2
<1>5. /\ p \in Nat /\ s \in [1..p -> P]
      /\ \A i, j \in 1..p : i < j => s[i] < s[j]
      /\ \A x \in P : \E i \in 1..p : s[i] = x
    BY <1>3, <1>4, AscendingLists
<1>6. /\ c \in Nat /\ t \in [1..c -> C]
      /\ \A i, j \in 1..c : i < j => t[i] < t[j]
      /\ \A x \in C : \E i \in 1..c : t[i] = x
    BY <1>3, <1>4, AscendingLists
<1>7. p + c <= Len(tests)
  <2>1. Cardinality(P \cup C) = p + c - Cardinality(P \cap C)
    BY <1>3, FS_Union
  <2>2. Cardinality(P \cap C) = 0
    BY <1>2, FS_EmptySet
  <2>3. QED
    BY <2>1, <2>2, <1>3, <1>5, <1>6
<1> HIDE DEF P, C, p, c, s, t
<1>8. s \in Seq(D) /\ Len(s) = p /\ t \in Seq(D) /\ Len(t) = c
  <2>1. s \in [1..p -> D] /\ t \in [1..c -> D]
    BY <1>2, <1>5, <1>6
  <2>2. QED
    BY <2>1, <1>5, <1>6
<1> DEFINE o == s \o t
<1>9. /\ o \in Seq(D) /\ Len(o) = p + c /\ DOMAIN o = 1..(p + c)
      /\ \A k \in 1..p : o[k] = s[k] /\ o[k] \in P
      /\ \A k \in (p + 1)..(p + c) : o[k] = t[k - p] /\ o[k] \in C /\ k - p \in 1..c
  <2> HIDE DEF D
  <2>0. /\ o \in Seq(D) /\ Len(o) = p + c
        /\ \A k \in 1..(p + c) : o[k] = IF k <= p THEN s[k] ELSE t[k - p]
    BY <1>8, ConcatProperties
  <2>1. o \in Seq(D) /\ Len(o) = p + c /\ DOMAIN o = 1..(p + c)
    BY <2>0, LenProperties
  <2>2. ASSUME NEW k \in 1..p PROVE o[k] = s[k] /\ o[k] \in P
    BY <1>5, <1>6, <1>8
  <2>3. ASSUME NEW k \in (p + 1)..(p + c)
        PROVE  o[k] = t[k - p] /\ o[k] \in C /\ k - p \in 1..c
    <3>1. k - p \in 1..c
      BY <1>5, <1>6
    <3>2. o[k] = t[k - p]
      BY <2>0, <1>5, <1>6
    <3>3. QED
      BY <3>1, <3>2, <1>6
  <2>4. QED
    BY <2>1, <2>2, <2>3
<1>10. o = Order(tests)
    BY DEF o, s, t, P, C, Order
<1> HIDE DEF o
<1>11. ASSUME NEW k \in 1..(p + c), NEW l \in 1..(p + c), k < l
       PROVE  o[k] # o[l] /\ (o[l] \in P => o[k] \in P)
  <2>1. CASE l <= p
    <3>1. k \in 1..p /\ l \in 1..p
      BY <2>1, <1>5, <1>6, <1>11
    <3>2. o[k] < o[l] /\ o[k] \in Nat /\ o[k] \in P
      BY <3>1, <1>4, <1>5, <1>9, <1>11
    <3>3. QED
      BY <3>2
  <2>2. CASE p < k
    <3>1. k \in (p + 1)..(p + c) /\ l \in (p + 1)..(p + c)
      BY <2>2, <1>5, <1>6, <1>11
    <3>2. k - p \in 1..c /\ l - p \in 1..c /\ k - p < l - p
      BY <3>1, <1>5, <1>6, <1>11
    <3>3. o[k] < o[l] /\ o[k] \in Nat /\ o[l] \in C
      BY <3>1, <3>2, <1>4, <1>6, <1>9
    <3>4. QED
      BY <3>3, <1>2
  <2>3. CASE k <= p /\ p < l
    <3>1. k \in 1..p /\ l \in (p + 1)..(p + c)
      BY <2>3, <1>5, <1>6, <1>11
    <3>2. o[k] \in P /\ o[l] \in C
      BY <3>1, <1>9
    <3>3. QED
      BY <3>2, <1>2
  <2>4. QED
    BY <2>1, <2>2, <2>3, <1>5, <1>6
<1>12. ASSUME NEW i \in P \cup C PROVE \E k \in 1..(p + c) : o[k] = i
  <2>1. CASE i \in P
    <3>1. PICK k \in 1..p : s[k] = i
      BY <2>1, <1>5
    <3>2. o[k] = i /\ k \in 1..(p + c)
      BY <3>1, <1>5, <1>6, <1>9
    <3>3. QED
      BY <3>2
  <2>2. CASE i \in C
    <3>1. PICK k \in 1..c : t[k] = i
      BY <2>2, <1>6
    <3>2. k + p \in (p + 1)..(p + c) /\ (k + p) - p = k
      BY <1>5, <1>6
    <3>3. o[k + p] = i /\ k + p \in 1..(p + c)
      BY <3>1, <3>2, <1>5, <1>6, <1>9
    <3>4. QED
      BY <3>3
  <2>3. QED
    BY <2>1, <2>2
<1>13. \A k \in 1..(p + c) : o[k] \in P \cup C
  <2> SUFFICES ASSUME NEW k \in 1..(p + c) PROVE o[k] \in P \cup C
    OBVIOUS
  <2>1. k \in 1..p \/ k \in (p + 1)..(p + c)
    BY <1>5, <1>6
  <2>2. QED
    BY <2>1, <1>9
<1>14. \A k, l \in 1..(p + c) : o[k] = o[l] => k = l
    BY <1>5, <1>6, <1>11
<1>15. \A k, l \in 1..(p + c) : k < l /\ o[l] \in P => o[k] \in P
    BY <1>11
<1>16. QED
    BY <1>7, <1>9, <1>10, <1>12, <1>13, <1>14, <1>15 DEF P, C

(* The list of the tests is a list of tests, and no longer than the        *)
(* caller's.                                                               *)
LEMMA UniqueTestsType ==
    ASSUME NEW tests \in Seq(Tests)
    PROVE  /\ UniqueTests(tests) \in Seq(Tests)
           /\ DOMAIN UniqueTests(tests) = DOMAIN Order(tests)
           /\ Len(UniqueTests(tests)) = Len(Order(tests))
           /\ Len(UniqueTests(tests)) \in 0..Len(tests)
           /\ \A k \in DOMAIN Order(tests) :
                 /\ Order(tests)[k] \in DOMAIN tests
                 /\ UniqueTests(tests)[k] = tests[Order(tests)[k]]
<1> DEFINE o == Order(tests)
           n == Len(Order(tests))
<1>1. n \in Nat /\ o \in [1..n -> DOMAIN tests] /\ DOMAIN o = 1..n /\ n <= Len(tests)
    BY OrderLists, LenProperties
<1>2. \A i \in DOMAIN tests : tests[i] \in Tests
    BY ElementOfSeq, LenProperties
<1>3. UniqueTests(tests) \in [1..n -> Tests]
    BY <1>1, <1>2 DEF UniqueTests
<1>4. \A k \in 1..n : UniqueTests(tests)[k] = tests[o[k]] /\ o[k] \in DOMAIN tests
    BY <1>1 DEF UniqueTests
<1> HIDE DEF o, n
<1>5. UniqueTests(tests) \in Seq(Tests) /\ Len(UniqueTests(tests)) = n
      /\ DOMAIN UniqueTests(tests) = 1..n
    BY <1>1, <1>3
<1>6. Len(tests) \in Nat
    BY LenProperties
<1>7. QED
    BY <1>1, <1>4, <1>5, <1>6 DEF o, n

(* A plain test is kept at the place where it came first.                  *)
LEMMA PlainTestIsKept ==
    ASSUME NEW tests \in Seq(Tests), NEW i \in DOMAIN tests, tests[i].auth = NoAuth
    PROVE  \E j \in PlainTests(tests) : tests[j] = tests[i]
<1> DEFINE same == {j \in DOMAIN tests : tests[j] = tests[i]}
<1>1. DOMAIN tests = 1..Len(tests) /\ Len(tests) \in Nat /\ IsFiniteSet(DOMAIN tests)
  <2>1. DOMAIN tests = 1..Len(tests) /\ Len(tests) \in Nat
    BY LenProperties
  <2>2. QED
    BY <2>1, FS_Interval
<1>2. same \in SUBSET DOMAIN tests /\ same # {} /\ same \subseteq Nat
    BY <1>1
<1>3. IsFiniteSet(same)
    BY <1>1, <1>2, FS_Subset
<1>4. PICK m \in same : \A x \in same : m <= x
    BY <1>2, <1>3, LeastMember
<1>5. ASSUME NEW j \in 1..(m - 1) PROVE tests[j] # tests[m]
    BY <1>1, <1>4
<1>6. QED
    BY <1>4, <1>5 DEF PlainTests

(* What a list without repetitions has at two places.                      *)
LEMMA SameNameTwice ==
    ASSUME NEW tests \in Seq(Tests), \A i \in DOMAIN tests : ~Repeats(tests, i),
           NEW k \in DOMAIN Order(tests), NEW l \in DOMAIN Order(tests), k < l,
           UniqueTests(tests)[k].name = UniqueTests(tests)[l].name
    PROVE  /\ UniqueTests(tests)[k].auth = NoAuth
           /\ Order(tests)[l] < Order(tests)[k]
           /\ tests[Order(tests)[l]].auth # NoAuth
<1> DEFINE p == Order(tests)[k]
           q == Order(tests)[l]
<1>1. /\ p \in DOMAIN tests /\ q \in DOMAIN tests
      /\ UniqueTests(tests)[k] = tests[p] /\ UniqueTests(tests)[l] = tests[q]
      /\ DOMAIN tests = 1..Len(tests) /\ Len(tests) \in Nat
      /\ \A i \in DOMAIN tests : tests[i] \in Tests
    BY UniqueTestsType, LenProperties, ElementOfSeq
<1>2. k \in Nat /\ l \in Nat
    BY OrderLists, LenProperties
<1>3. p # q
    BY <1>2, OrderLists
<1>4. p \in PlainTests(tests) \cup ConfiguredTests(tests)
      /\ q \in PlainTests(tests) \cup ConfiguredTests(tests)
      /\ (q \in PlainTests(tests) => p \in PlainTests(tests))
    BY OrderLists
<1> HIDE DEF p, q
<1>5. ~(p \in PlainTests(tests) /\ q \in PlainTests(tests))
  <2> SUFFICES ASSUME p \in PlainTests(tests), q \in PlainTests(tests) PROVE FALSE
    OBVIOUS
  <2>1. tests[p] = tests[q]
    BY <1>1 DEF PlainTests, Tests
  <2>2. p \in 1..(q - 1) \/ q \in 1..(p - 1)
    BY <1>1, <1>3
  <2>3. QED
    BY <2>1, <2>2 DEF PlainTests
<1>6. q \in ConfiguredTests(tests)
    BY <1>4, <1>5
<1>7. tests[q].auth # NoAuth
    BY <1>6 DEF ConfiguredTests
<1>8. ~(p < q)
  <2>1. p < q => p \in 1..(q - 1)
    BY <1>1
  <2>2. QED
    BY <2>1, <1>1, <1>7 DEF Repeats
<1>9. q < p
    BY <1>1, <1>3, <1>8
<1>10. tests[p].auth = NoAuth
  <2>1. q \in 1..(p - 1)
    BY <1>1, <1>9
  <2>2. QED
    BY <2>1, <1>1 DEF Repeats
<1>11. QED
    BY <1>1, <1>7, <1>9, <1>10 DEF p, q

(* Every test and every configuration is sent, and a name is sent twice    *)
(* only when a plain test repeats a configured one before it.              *)
LEMMA TestsAreSent ==
    ASSUME NEW tests \in Seq(Tests), \A i \in DOMAIN tests : ~Repeats(tests, i)
    PROVE  LET u == UniqueTests(tests) IN
           /\ \A i \in DOMAIN tests :
                 /\ tests[i].name \in ToSet(Names(u))
                 /\ tests[i].auth # NoAuth => tests[i] \in Metadata(u)
           /\ \A i, j \in DOMAIN Names(u) : i # j /\ Names(u)[i] = Names(u)[j] =>
                 \E k, l \in DOMAIN tests :
                     /\ k < l /\ tests[k].auth # NoAuth
                     /\ tests[l] = Plain(Names(u)[i]) /\ tests[k].name = Names(u)[i]
<1> DEFINE u == UniqueTests(tests)
           o == Order(tests)
<1>1. /\ DOMAIN u = DOMAIN o /\ DOMAIN Names(u) = DOMAIN u
      /\ \A k \in DOMAIN u : o[k] \in DOMAIN tests /\ u[k] = tests[o[k]]
                             /\ Names(u)[k] = u[k].name /\ k \in Nat
      /\ DOMAIN tests = 1..Len(tests) /\ Len(tests) \in Nat
      /\ \A i \in DOMAIN tests : tests[i] \in Tests
  <2>1. /\ DOMAIN u = DOMAIN o
        /\ \A k \in DOMAIN u : o[k] \in DOMAIN tests /\ u[k] = tests[o[k]]
    BY UniqueTestsType
  <2>2. DOMAIN o = 1..Len(o) /\ Len(o) \in Nat
    BY OrderLists, LenProperties
  <2>3. DOMAIN Names(u) = DOMAIN u /\ \A k \in DOMAIN u : Names(u)[k] = u[k].name
    BY DEF Names
  <2>4. DOMAIN tests = 1..Len(tests) /\ Len(tests) \in Nat
        /\ \A i \in DOMAIN tests : tests[i] \in Tests
    BY LenProperties, ElementOfSeq
  <2>5. QED
    BY <2>1, <2>2, <2>3, <2>4
<1>2. \A i \in PlainTests(tests) \cup ConfiguredTests(tests) : \E k \in DOMAIN u : o[k] = i
    BY OrderLists, <1>1
<1>3. \A k, l \in DOMAIN u : k < l /\ u[k].name = u[l].name =>
          u[k].auth = NoAuth /\ o[l] < o[k] /\ tests[o[l]].auth # NoAuth
    BY <1>1, SameNameTwice
<1>4. \A i \in DOMAIN tests : tests[i].auth = NoAuth =>
          \E j \in PlainTests(tests) : tests[j] = tests[i]
    BY PlainTestIsKept
<1> HIDE DEF u, o
<1>5. ASSUME NEW i \in DOMAIN tests PROVE \E k \in DOMAIN u : u[k] = tests[i]
  <2>1. CASE tests[i].auth = NoAuth
    <3>1. PICK j \in PlainTests(tests) : tests[j] = tests[i]
      BY <2>1, <1>4
    <3>2. PICK k \in DOMAIN u : o[k] = j
      BY <1>2
    <3>3. QED
      BY <3>1, <3>2, <1>1
  <2>2. CASE tests[i].auth # NoAuth
    <3>1. i \in ConfiguredTests(tests)
      BY <2>2 DEF ConfiguredTests
    <3>2. PICK k \in DOMAIN u : o[k] = i
      BY <3>1, <1>2
    <3>3. QED
      BY <3>2, <1>1
  <2>3. QED
    BY <2>1, <2>2
<1>6. ASSUME NEW i \in DOMAIN tests
      PROVE  /\ tests[i].name \in ToSet(Names(u))
             /\ tests[i].auth # NoAuth => tests[i] \in Metadata(u)
  <2>1. PICK k \in DOMAIN u : u[k] = tests[i]
    BY <1>5
  <2>2. tests[i].name \in ToSet(Names(u))
    BY <2>1, <1>1 DEF ToSet
  <2>3. ASSUME tests[i].auth # NoAuth PROVE tests[i] \in Metadata(u)
    <3>1. \A l \in DOMAIN u : l > k => u[l].name # u[k].name
      BY <2>1, <2>3, <1>1, <1>3
    <3>2. QED
      BY <2>1, <2>3, <3>1 DEF Metadata
  <2>4. QED
    BY <2>2, <2>3
<1>7. ASSUME NEW i \in DOMAIN u, NEW j \in DOMAIN u, i < j, u[i].name = u[j].name
      PROVE  \E k, l \in DOMAIN tests :
                 /\ k < l /\ tests[k].auth # NoAuth
                 /\ tests[l] = Plain(u[i].name) /\ tests[k].name = u[i].name
  <2>1. u[i].auth = NoAuth /\ o[j] < o[i] /\ tests[o[j]].auth # NoAuth
    BY <1>3, <1>7
  <2>2. tests[o[i]] = Plain(u[i].name)
    BY <2>1, <1>1 DEF Tests, Plain
  <2>3. QED
    BY <2>1, <2>2, <1>1, <1>7
<1>8. ASSUME NEW i \in DOMAIN Names(u), NEW j \in DOMAIN Names(u),
             i # j, Names(u)[i] = Names(u)[j]
      PROVE  \E k, l \in DOMAIN tests :
                 /\ k < l /\ tests[k].auth # NoAuth
                 /\ tests[l] = Plain(Names(u)[i]) /\ tests[k].name = Names(u)[i]
  <2>1. i \in DOMAIN u /\ j \in DOMAIN u /\ u[i].name = u[j].name
        /\ Names(u)[i] = u[i].name /\ (i < j \/ j < i)
    BY <1>1, <1>8
  <2>2. CASE i < j
    BY <2>1, <2>2, <1>7
  <2>3. CASE j < i
    BY <2>1, <2>3, <1>7
  <2>4. QED
    BY <2>1, <2>2, <2>3
<1>9. QED
    BY <1>6, <1>8 DEF u
-----------------------------------------------------------------------------
(* The converter that is chosen handles the body, or everything that is    *)
(* said to be JSON.                                                        *)
LEMMA ConverterHandles ==
    ASSUME NEW body, NEW mime
    PROVE  \/ GetConverter(body, mime) = "none"
           \/ /\ GetConverter(body, mime) \in DOMAIN Handles
              /\ CanHandle(GetConverter(body, mime), body, mime)
<1> DEFINE I == {i \in 1..9 : CanHandle(Converters[i], body, mime)}
<1>1. SelectInSeq(Converters, LAMBDA c : CanHandle(c, body, mime)) =
          IF I # {} THEN Min(I) ELSE 0
    BY DEF SelectInSeq, Converters
<1>2. CASE I = {}
    BY <1>1, <1>2 DEF GetConverter
<1>3. CASE I # {}
  <2>1. IsFiniteSet(I) /\ I \subseteq Nat
    <3>1. IsFiniteSet(1..9)
      <4>1. \A n \in Nat : IsFiniteSet(1..n)
        BY FS_Interval
      <4>2. 9 \in Nat
        OBVIOUS
      <4>3. QED
        BY <4>1, <4>2, Zenon
    <3>2. I \in SUBSET (1..9)
      OBVIOUS
    <3>3. QED
      BY <3>1, <3>2, FS_Subset
  <2>2. Min(I) \in I
    BY <1>3, <2>1, LeastMember DEF Min
  <2>3. GetConverter(body, mime) = Converters[Min(I)]
    BY <1>1, <1>3, <2>2 DEF GetConverter
  <2>4. Converters[Min(I)] \in DOMAIN Handles
    BY <2>2 DEF Converters, Handles
  <2>5. QED
    BY <2>2, <2>3, <2>4
<1>4. QED
    BY <1>2, <1>3

(* There is a text of every body, whichever converter makes it.            *)
LEMMA TextOfBody ==
    ASSUME NEW body \in Bodies, NEW mime
    PROVE  Text(body, mime) # NoBody
<1>1. body # NoBody
    BY DEF Bodies, Strings, NoBody
<1>2. GetConverter(body, mime) = "none" \/ GetConverter(body, mime) \in DOMAIN Handles
    BY ConverterHandles
<1>3. NoBody \notin DOMAIN Handles
    BY DEF Handles, NoBody
<1>4. QED
    BY <1>1, <1>2, <1>3 DEF Text, NoBody

(* Which converter handles an object or a blob does not depend on the      *)
(* content type.                                                           *)
LEMMA SureConverters ==
    ASSUME NEW mime
    PROVE  /\ GetConverter("object", mime) = "Json"
           /\ GetConverter("jsonBlob", mime) = "Blob"
    BY DEF GetConverter, SelectInSeq, Min, CanHandle, Handles, Converters, Strings

(* Of the content types JSON alone has a say in which converter is chosen. *)
LEMMA OnlyJsonMatters ==
    ASSUME NEW body, NEW mime, NEW other, mime # "json", other # "json"
    PROVE  GetConverter(body, mime) = GetConverter(body, other)
<1>1. {i \in 1..Len(Converters) : CanHandle(Converters[i], body, mime)} =
      {i \in 1..Len(Converters) : CanHandle(Converters[i], body, other)}
    BY DEF CanHandle
<1>2. QED
    BY <1>1 DEF GetConverter, SelectInSeq

(* JSON is guessed for an object, a blob that says so and a string that    *)
(* looks like it; and a guess is one of the types or none.                 *)
LEMMA Guesses ==
    ASSUME NEW body \in Bodies
    PROVE  /\ GuessedType(body) \in MimeTypes \cup {NoMime}
           /\ GuessedType(body) = "json" => body \in {"object", "jsonBlob", "jsonString"}
<1> DEFINE c == GetConverter(body, NoMime)
<1>1. c = "none" \/ (c \in DOMAIN Handles /\ body \in Handles[c])
    BY ConverterHandles DEF CanHandle, NoMime
<1>2. MimeOf(c, body) \in MimeTypes \cup {NoMime}
      /\ (MimeOf(c, body) = "json" => body \in {"object", "jsonBlob", "jsonString"})
    BY <1>1 DEF MimeOf, Handles, MimeOfString, MimeTypes, NoMime, Strings
<1>3. QED
    BY <1>2 DEF GuessedType, MimeTypes

(* A body is converted the same way when the type that was guessed for it  *)
(* is given as its type, but for a string that looks like JSON.            *)
LEMMA GuessIsHarmless ==
    ASSUME NEW body \in Bodies, body # "jsonString"
    PROVE  Text(body, GuessedType(body)) = Text(body, NoMime)
<1>1. CASE GuessedType(body) = "json"
    BY <1>1, Guesses, SureConverters DEF Text
<1>2. CASE GuessedType(body) # "json"
  <2>1. GetConverter(body, GuessedType(body)) = GetConverter(body, NoMime)
    BY <1>2, OnlyJsonMatters DEF NoMime
  <2>2. QED
    BY <2>1 DEF Text
<1>3. QED
    BY <1>1, <1>2

(* A target and its copy store the same request, but for a string that     *)
(* looks like JSON and has no type.                                        *)
LEMMA CopyKeepsRequest ==
    ASSUME NEW o \in TargetOptions
    PROVE  LET t == MakeTarget(o) IN
           \/ Request(Copy(t)) = Request(t)
           \/ t.body = "jsonString" /\ t.header = NoMime
<1> DEFINE t == MakeTarget(o)
           copy == Copy(t)
<1> SUFFICES ASSUME ~(t.body = "jsonString" /\ t.header = NoMime)
             PROVE  Request(copy) = Request(t)
    OBVIOUS
<1>1. /\ t = [o EXCEPT !.method = t.method, !.search = t.search]
      /\ t.method = KnownMethod(o.method) /\ t.search = ReplacedQuery(o)
      /\ t.fragment = o.fragment /\ t.query = o.query /\ t.body = o.body
      /\ t.header = o.header
    BY DEF MakeTarget, TargetOptions
<1>2. /\ copy.method = KnownMethod(t.method) /\ copy.search = ReplacedQuery(t)
      /\ copy.fragment = t.fragment /\ copy.body = t.body /\ copy.header = ContentType(t)
    BY <1>1 DEF Copy, MakeTarget, TargetOptions, ReplacedQuery
<1>3. copy.method = t.method
    BY <1>1, <1>2 DEF KnownMethod, KnownMethods, Methods
<1>4. copy.search = t.search
    BY <1>1, <1>2 DEF ReplacedQuery, TargetOptions
<1>5. t.body = NoBody \/ t.body \in Bodies
    BY <1>1 DEF TargetOptions
<1>6. CASE t.header # NoMime \/ t.body = NoBody
  <2>1. ContentType(t) = t.header /\ ContentType(copy) = t.header /\ copy.header = t.header
    BY <1>2, <1>6 DEF ContentType
  <2>2. QED
    BY <2>1, <1>2, <1>3, <1>4 DEF Request
<1>7. CASE t.header = NoMime /\ t.body # NoBody
  <2>1. ContentType(t) = GuessedType(t.body) /\ ContentType(copy) = GuessedType(t.body)
    BY <1>2, <1>7 DEF ContentType
  <2>2. Text(copy.body, copy.header) = Text(t.body, t.header)
    BY <2>1, <1>2, <1>5, <1>7, GuessIsHarmless
  <2>3. QED
    BY <2>1, <2>2, <1>2, <1>3, <1>4 DEF Request
<1>8. QED
    BY <1>6, <1>7
-----------------------------------------------------------------------------
(* What createScan() can be called with: the groups of options vary        *)
(* together, and neither texts nor lists nor numbers are bounded.          *)
Options ==
    [target : TargetOptions, tests : Seq(Tests),
     locations : SUBSET (Locations \cup {"cookie"}),
     name : Nat, poolSize : Int, requestsRateLimit : Int]

OptionsInit ==
    /\ given \in Options
    /\ pc = "new"
    /\ settings = {} /\ entrypoint = {} /\ config = {}

OptionsSpec == OptionsInit /\ [][Next]_vars

(* The state is what the options make of it, as far as createScan() is.    *)
IInv ==
    /\ given \in Options
    /\ pc \in {"new", "refused", "settings", "entrypoint", "unsupported", "created"}
    /\ pc = "new" => settings = {}
    /\ settings # {} => ~Refused(given) /\ settings = {NewSettings(given)}
    /\ settings = {} => entrypoint = {} /\ config = {}
    /\ entrypoint \subseteq {Request(Copy(s.target)) : s \in settings}
    /\ config \subseteq {Created(s) : s \in settings}

(* What TLC begins with are options of the kind.                           *)
LEMMA InputsAreOptions == Inputs \subseteq Options
<1>1. Plain(CHOOSE name \in TestNames : TRUE) \in Tests
    BY TestNamesAssumption DEF Plain, Tests
<1>2. Defaults \in Options
  <2>1. Defaults.tests \in Seq(Tests)
    BY <1>1 DEF Defaults
  <2>2. Defaults.target \in TargetOptions
    BY DEF Defaults, TargetOptions, Methods, Bodies, Strings, NoMime
  <2>3. QED
    BY <2>1, <2>2 DEF Defaults, Options
<1>3. ASSUME NEW o \in TargetInputs PROVE o \in Options
  <2>1. PICK t \in TargetOptions, l \in LocationInputs : o = Aimed(t, l)
    BY DEF TargetInputs
  <2>2. l \in SUBSET (Locations \cup {"cookie"})
    BY DEF Locations, LocationInputs
  <2>3. QED
    BY <2>1, <2>2, <1>2 DEF Aimed, Options
<1>4. ASSUME NEW o \in TestInputs PROVE o \in Options
  <2>1. PICK n \in 0..MaxTests : \E ts \in [1..n -> Tests] : o = [Defaults EXCEPT !.tests = ts]
    BY DEF TestInputs
  <2>2. PICK ts \in [1..n -> Tests] : o = [Defaults EXCEPT !.tests = ts]
    BY <2>1
  <2>3. ts \in Seq(Tests)
    BY MaxTestsAssumption
  <2>4. QED
    BY <2>2, <2>3, <1>2 DEF Options
<1>5. ASSUME NEW o \in LimitInputs PROVE o \in Options
  <2>1. PICK n \in {0, 200, 201}, p \in {0, 1, 50, 51}, r \in {-1, 0, 1000, 1001} :
            o = [Defaults EXCEPT !.name = n, !.poolSize = p, !.requestsRateLimit = r]
    BY DEF LimitInputs
  <2>2. n \in Nat /\ p \in Int /\ r \in Int
    OBVIOUS
  <2>3. QED
    BY <2>1, <2>2, <1>2 DEF Options
<1>6. QED
    BY <1>3, <1>4, <1>5 DEF Inputs

(* The fields of new settings.                                             *)
LEMMA Fields ==
    ASSUME NEW o \in Options
    PROVE  /\ o.target \in TargetOptions /\ o.tests \in Seq(Tests)
           /\ o.name \in Nat /\ o.poolSize \in Int /\ o.requestsRateLimit \in Int
           /\ NewSettings(o).target = MakeTarget(o.target)
           /\ NewSettings(o).tests = UniqueTests(o.tests)
           /\ NewSettings(o).locations = ResolveLocations(o, MakeTarget(o.target))
           /\ NewSettings(o).name = o.name /\ NewSettings(o).poolSize = o.poolSize
           /\ NewSettings(o).requestsRateLimit = o.requestsRateLimit
    BY DEF Options, NewSettings

(* The target of settings that were accepted.                              *)
LEMMA AcceptedTarget ==
    ASSUME NEW o \in TargetOptions, ~BodyRefused(o)
    PROVE  /\ MakeTarget(o).method \in KnownMethods
           /\ MakeTarget(o).search \in Seq({"url", "given"})
           /\ MakeTarget(o).body # NoBody => MakeTarget(o).method \notin {"GET", "HEAD"}
           /\ MakeTarget(o).body = NoBody \/ MakeTarget(o).body \in Bodies
           /\ MakeTarget(o).header \in MimeTypes \cup {NoMime}
           /\ MakeTarget(o).query = o.query /\ MakeTarget(o).fragment = o.fragment
           /\ MakeTarget(o).search = ReplacedQuery(o)
<1>1. /\ MakeTarget(o).method = KnownMethod(o.method)
      /\ MakeTarget(o).search = ReplacedQuery(o) /\ MakeTarget(o).body = o.body
      /\ MakeTarget(o).header = o.header
      /\ MakeTarget(o).query = o.query /\ MakeTarget(o).fragment = o.fragment
    BY DEF MakeTarget, TargetOptions
<1>2. KnownMethod(o.method) \in KnownMethods
    BY DEF KnownMethod, KnownMethods, Methods
<1>3. ReplacedQuery(o) \in Seq({"url", "given"})
  <2>1. /\ <<>> \in Seq({"url", "given"}) /\ <<"url">> \in Seq({"url", "given"})
        /\ <<"given">> \in Seq({"url", "given"})
    OBVIOUS
  <2>2. o.search = <<>> \/ o.search = <<"url">>
    BY DEF TargetOptions
  <2>3. QED
    BY <2>1, <2>2 DEF ReplacedQuery
<1>4. o.header \in MimeTypes \cup {NoMime} /\ (o.body = NoBody \/ o.body \in Bodies)
    BY DEF TargetOptions, MimeTypes
<1>5. QED
    BY <1>1, <1>2, <1>3, <1>4 DEF BodyRefused

(* Settings that were accepted keep the limits of the backend.             *)
LEMMA AcceptedSettings ==
    ASSUME NEW o \in Options, ~Refused(o)
    PROVE  LET s == NewSettings(o) IN
           /\ s.poolSize \in 1..50 /\ s.requestsRateLimit \in 0..1000 /\ s.name \in 0..200
           /\ s.tests \in Seq(Tests) /\ Len(s.tests) \in 1..Len(o.tests)
           /\ s.locations \subseteq Locations /\ s.locations # {}
<1>1. o.poolSize \in 1..50 /\ o.requestsRateLimit \in 0..1000 /\ o.name \in 0..200
  <2>1. o.poolSize \in Int /\ o.requestsRateLimit \in Int /\ o.name \in Nat
    BY Fields
  <2>2. /\ CheckBoundaries(o.poolSize, 1, 50)
        /\ CheckBoundaries(o.requestsRateLimit, 0, 1000) /\ ~(o.name > 200)
    BY DEF Refused
  <2>3. QED
    BY <2>1, <2>2 DEF CheckBoundaries
<1>2. o.tests \in Seq(Tests) /\ o.tests # <<>> /\ Len(o.tests) \in Nat \ {0}
  <2>1. o.tests \in Seq(Tests) /\ o.tests # <<>>
    BY Fields DEF Refused
  <2>2. QED
    BY <2>1
<1>3. UniqueTests(o.tests) \in Seq(Tests) /\ Len(UniqueTests(o.tests)) \in 0..Len(o.tests)
    BY <1>2, UniqueTestsType
<1>4. Len(UniqueTests(o.tests)) # 0
  <2>1. 1 \in DOMAIN o.tests
    BY <1>2
  <2>2. \A i \in DOMAIN o.tests : ~Repeats(o.tests, i)
    BY DEF Refused
  <2>3. o.tests[1].name \in ToSet(Names(UniqueTests(o.tests)))
    BY <1>2, <2>1, <2>2, TestsAreSent
  <2>4. DOMAIN UniqueTests(o.tests) # {}
    BY <2>3 DEF ToSet, Names
  <2>5. QED
    BY <2>4, <1>3
<1>5. ResolveLocations(o, MakeTarget(o.target)) \subseteq Locations
      /\ ResolveLocations(o, MakeTarget(o.target)) # {}
    BY DEF ResolveLocations, Refused, Detected, DefaultLocations, Locations
<1>6. Len(UniqueTests(o.tests)) \in 1..Len(o.tests)
    BY <1>2, <1>3, <1>4
<1>7. /\ NewSettings(o).poolSize = o.poolSize /\ NewSettings(o).name = o.name
      /\ NewSettings(o).requestsRateLimit = o.requestsRateLimit
      /\ NewSettings(o).tests = UniqueTests(o.tests)
      /\ NewSettings(o).locations = ResolveLocations(o, MakeTarget(o.target))
    BY Fields
<1>8. QED
    BY <1>1, <1>3, <1>5, <1>6, <1>7

(* The invariant holds for all options, not only for those TLC begins with. *)
THEOREM Invariance == OptionsSpec => []IInv
<1>1. OptionsInit => IInv
    BY DEF OptionsInit, IInv
<1>2. IInv /\ [Next]_vars => IInv'
  <2> SUFFICES ASSUME IInv, [Next]_vars PROVE IInv'
    OBVIOUS
  <2>1. CASE Construct
    <3>1. entrypoint = {} /\ config = {} /\ UNCHANGED <<given, entrypoint, config>>
      BY <2>1 DEF Construct, IInv
    <3>2. CASE Refused(given)
      BY <2>1, <3>1, <3>2 DEF Construct, IInv
    <3>3. CASE ~Refused(given)
      BY <2>1, <3>1, <3>3 DEF Construct, IInv
    <3>4. QED
      BY <3>2, <3>3
  <2>2. CASE CreateEntrypoint
    BY <2>2 DEF CreateEntrypoint, IInv
  <2>3. CASE CreateScan
    <3>1. PICK s \in settings :
              IF Unsupported(s.tests) THEN pc' = "unsupported" /\ UNCHANGED config
              ELSE pc' = "created" /\ config' = {Created(s)}
      BY <2>3 DEF CreateScan
    <3>2. UNCHANGED <<given, settings, entrypoint>>
      BY <2>3 DEF CreateScan
    <3>3. config' \subseteq {Created(x) : x \in settings}
      BY <3>1 DEF IInv
    <3>4. pc' \in {"unsupported", "created"}
      BY <3>1
    <3>5. settings # {}
      BY <3>1
    <3>6. QED
      BY <3>2, <3>3, <3>4, <3>5 DEF IInv
  <2>4. CASE UNCHANGED vars
    BY <2>4 DEF vars, IInv
  <2>5. QED
    BY <2>1, <2>2, <2>3, <2>4 DEF Next
<1>3. QED
    BY <1>1, <1>2, PTL DEF OptionsSpec

(* What holds for all options holds of what TLC explores.                  *)
LEMMA SpecIsOptionsSpec == Spec => OptionsSpec
<1>1. Init => OptionsInit
    BY InputsAreOptions DEF Init, OptionsInit
<1>2. QED
    BY <1>1, PTL DEF Spec, OptionsSpec

(* Settings that exist keep every limit of the backend, for any options    *)
(* (the setters).                                                          *)
LEMMA LimitsKept ==
    ASSUME IInv, NEW s \in settings
    PROVE  /\ s.poolSize \in 1..50 /\ s.requestsRateLimit \in 0..1000 /\ s.name \in 0..200
           /\ s.tests \in Seq(Tests) /\ Len(s.tests) \in 1..Len(given.tests)
           /\ s.locations \subseteq Locations /\ s.locations # {}
           /\ s.target.method \in KnownMethods
           /\ s.target.search \in Seq({"url", "given"})
           /\ s.target.body # NoBody => s.target.method \notin {"GET", "HEAD"}
<1>1. given \in Options /\ ~Refused(given) /\ s = NewSettings(given)
    BY DEF IInv
<1>2. s.target = MakeTarget(given.target) /\ given.target \in TargetOptions
    BY <1>1, Fields
<1>3. ~BodyRefused(given.target)
    BY <1>1 DEF Refused
<1>4. /\ s.target.method \in KnownMethods
      /\ s.target.search \in Seq({"url", "given"})
      /\ s.target.body # NoBody => s.target.method \notin {"GET", "HEAD"}
    BY <1>2, <1>3, AcceptedTarget
<1>5. LET new == NewSettings(given) IN
      /\ new.poolSize \in 1..50 /\ new.requestsRateLimit \in 0..1000 /\ new.name \in 0..200
      /\ new.tests \in Seq(Tests) /\ Len(new.tests) \in 1..Len(given.tests)
      /\ new.locations \subseteq Locations /\ new.locations # {}
    BY <1>1, AcceptedSettings
<1>6. QED
    BY <1>1, <1>4, <1>5

(* The entry point is the request of the target that was described, but    *)
(* for a string that looks like JSON (createScanConfig).                   *)
THEOREM EntryPointIsDescribed == OptionsSpec => []EntryPointIsTarget
<1>1. IInv => EntryPointIsTarget
  <2> SUFFICES ASSUME IInv, NEW s \in settings, NEW e \in entrypoint
               PROVE  \/ e = Request(s.target)
                      \/ s.target.body = "jsonString" /\ s.target.header = NoMime
    BY DEF EntryPointIsTarget
  <2>1. /\ given.target \in TargetOptions /\ s.target = MakeTarget(given.target)
        /\ e = Request(Copy(s.target))
    BY Fields DEF IInv
  <2>2. QED
    BY <2>1, CopyKeepsRequest
<1>2. QED
    BY <1>1, Invariance, PTL

(* Every test reaches the backend once and with its configuration, but for *)
(* a plain test that repeats a configured one (tests,                      *)
(* convertToBackendFormat).                                                *)
THEOREM TestsAreComplete == OptionsSpec => []TestsReachBackend
<1>1. IInv => TestsReachBackend
  <2> SUFFICES ASSUME IInv, NEW c \in config
               PROVE  /\ \A i \in DOMAIN given.tests :
                            /\ given.tests[i].name \in ToSet(c.tests)
                            /\ given.tests[i].auth # NoAuth => given.tests[i] \in c.metadata
                      /\ \A i, j \in DOMAIN c.tests : i # j /\ c.tests[i] = c.tests[j] =>
                            \E k, l \in DOMAIN given.tests :
                                /\ k < l /\ given.tests[k].auth # NoAuth
                                /\ given.tests[l] = Plain(c.tests[i])
                                /\ given.tests[k].name = c.tests[i]
    BY DEF TestsReachBackend
  <2>1. /\ given \in Options /\ ~Refused(given)
        /\ c = Created(NewSettings(given))
    BY DEF IInv
  <2>2. /\ given.tests \in Seq(Tests)
        /\ c.tests = Names(UniqueTests(given.tests))
        /\ c.metadata = Metadata(UniqueTests(given.tests))
    BY <2>1, Fields DEF Created
  <2>3. \A i \in DOMAIN given.tests : ~Repeats(given.tests, i)
    BY <2>1 DEF Refused
  <2>4. QED
    BY <2>2, <2>3, TestsAreSent
<1>2. QED
    BY <1>1, Invariance, PTL

(* Every part of the stored request is attacked unless the caller says     *)
(* otherwise, a query that stands alone in the URL too, but for a query in *)
(* the URL of a request with a body or a fragment                          *)
(* (detectAttackParamLocations, resolveAttackParamLocations).              *)
THEOREM EveryPartIsAttacked == OptionsSpec => []PartsAttacked
<1>1. IInv => PartsAttacked
  <2> SUFFICES ASSUME IInv, NEW c \in config, NEW e \in entrypoint, given.locations = {}
               PROVE  /\ e.text # NoBody => "body" \in c.locations
                      /\ e.fragment => "fragment" \in c.locations
                      /\ e.search # <<>> => "query" \in c.locations \/ QueryOverlooked(e)
    BY DEF PartsAttacked
  <2> DEFINE t == MakeTarget(given.target)
  <2>1. /\ given \in Options /\ ~Refused(given) /\ given.target \in TargetOptions
        /\ e = Request(Copy(t)) /\ c = Created(NewSettings(given))
        /\ NewSettings(given).locations = ResolveLocations(given, t)
    BY Fields DEF IInv
  <2>2. ~BodyRefused(given.target)
    BY <2>1 DEF Refused
  <2>3. /\ t.body # NoBody => t.method \notin {"GET", "HEAD"}
        /\ t.query = given.target.query /\ t.query \in {"none", "empty", "given"}
        /\ t.fragment \in BOOLEAN
    BY <2>1, <2>2, AcceptedTarget DEF TargetOptions
  <2>4. c.locations = IF Detected(t) # {} THEN Detected(t) ELSE DefaultLocations
    BY <2>1 DEF Created, ResolveLocations
  <2>5. e.text = NoBody <=> t.body = NoBody
    <3>1. e.text = Text(t.body, ContentType(t)) /\ t.body \in Bodies \cup {NoBody}
      BY <2>1 DEF Request, Copy, MakeTarget, TargetOptions
    <3>2. CASE t.body = NoBody
      BY <3>1, <3>2 DEF Text
    <3>3. CASE t.body # NoBody
      BY <3>1, <3>3, TextOfBody
    <3>4. QED
      BY <3>2, <3>3
  <2>6. e.fragment = t.fragment
    BY <2>1 DEF Request, Copy, MakeTarget, TargetOptions
  <2>7. /\ e.text # NoBody => "body" \in c.locations
        /\ e.fragment => "fragment" \in c.locations
    BY <2>3, <2>4, <2>5, <2>6 DEF Detected, DefaultLocations, HasBody
  <2>8. ASSUME given.target.query # "none" PROVE "query" \in c.locations
    BY <2>3, <2>4, <2>8 DEF Detected, DefaultLocations
  <2>9. ASSUME given.target.query = "none", e.text = NoBody, ~e.fragment
        PROVE  "query" \in c.locations
    <3>1. Detected(t) = {}
      BY <2>3, <2>5, <2>6, <2>9 DEF Detected, HasBody
    <3>2. QED
      BY <2>4, <3>1 DEF DefaultLocations
  <2>10. QED
    BY <2>7, <2>8, <2>9 DEF QueryOverlooked
<1>2. QED
    BY <1>1, Invariance, PTL

(* The content type of an entry point: what was given, or the guess.       *)
LEMMA HeaderOfRequest ==
    ASSUME NEW o \in TargetOptions, ~BodyRefused(o)
    PROVE  Request(Copy(MakeTarget(o))).header \in MimeTypes \cup {NoMime}
<1> DEFINE t == MakeTarget(o)
           copy == Copy(t)
<1>1. t.header \in MimeTypes \cup {NoMime} /\ (t.body = NoBody \/ t.body \in Bodies)
    BY AcceptedTarget
<1>2. ContentType(t) \in MimeTypes \cup {NoMime}
    BY <1>1, Guesses DEF ContentType
<1>3. copy.header = ContentType(t) /\ copy.body = t.body
    BY DEF Copy, MakeTarget, TargetOptions
<1>4. ContentType(copy) \in MimeTypes \cup {NoMime}
    BY <1>1, <1>2, <1>3, Guesses DEF ContentType
<1>5. QED
    BY <1>4 DEF Request

(* What TLC begins with has at most as many tests as its bound says.       *)
LEMMA InputsAreBounded == ASSUME NEW o \in Inputs PROVE Len(o.tests) \in 0..MaxTests
<1>1. Len(Defaults.tests) \in 0..MaxTests
    BY MaxTestsAssumption DEF Defaults
<1>2. CASE o \in TargetInputs
  <2>1. PICK t \in TargetOptions, l \in LocationInputs : o = Aimed(t, l)
    BY <1>2 DEF TargetInputs
  <2>2. o.tests = Defaults.tests
    BY <2>1 DEF Aimed, Defaults
  <2>3. QED
    BY <2>2, <1>1
<1>3. CASE o \in TestInputs
  <2>1. PICK n \in 0..MaxTests : \E ts \in [1..n -> Tests] : o = [Defaults EXCEPT !.tests = ts]
    BY <1>3 DEF TestInputs
  <2>2. PICK ts \in [1..n -> Tests] : o = [Defaults EXCEPT !.tests = ts]
    BY <2>1
  <2>3. o.tests = ts
    BY <2>2 DEF Defaults
  <2>4. n \in Nat
    BY MaxTestsAssumption
  <2>5. Len(ts) = n
    BY <2>4
  <2>6. QED
    BY <2>3, <2>5
<1>4. CASE o \in LimitInputs
  <2>1. PICK n \in {0, 200, 201}, p \in {0, 1, 50, 51}, r \in {-1, 0, 1000, 1001} :
            o = [Defaults EXCEPT !.name = n, !.poolSize = p, !.requestsRateLimit = r]
    BY <1>4 DEF LimitInputs
  <2>2. o.tests = Defaults.tests
    BY <2>1 DEF Defaults
  <2>3. QED
    BY <2>2, <1>1
<1>5. QED
    BY <1>2, <1>3, <1>4 DEF Inputs

(* Every variable keeps its type, and settings that exist keep every limit *)
(* of the backend (the setters).                                           *)
THEOREM Types == Spec => []TypeOK
<1>1. Init => given \in Inputs
    BY DEF Init
<1>2. given \in Inputs /\ [Next]_vars => (given \in Inputs)'
    BY DEF Next, Construct, CreateEntrypoint, CreateScan, vars
<1>3. IInv /\ given \in Inputs => TypeOK
  <2> SUFFICES ASSUME IInv, given \in Inputs PROVE TypeOK
    OBVIOUS
  <2>1. ASSUME NEW s \in settings
        PROVE  /\ s.poolSize \in 1..50 /\ s.requestsRateLimit \in 0..1000
               /\ s.name \in 0..200
               /\ s.tests \in Seq(Tests) /\ Len(s.tests) \in 1..MaxTests
               /\ s.locations \subseteq Locations /\ s.locations # {}
               /\ s.target.method \in KnownMethods
               /\ s.target.search \in Seq({"url", "given"})
               /\ s.target.body # NoBody => s.target.method \notin {"GET", "HEAD"}
    <3>1. Len(s.tests) \in 1..Len(given.tests) /\ Len(given.tests) \in 0..MaxTests
      BY LimitsKept, InputsAreBounded
    <3>2. Len(s.tests) \in 1..MaxTests
      BY <3>1, MaxTestsAssumption
    <3>3. QED
      BY <3>2, LimitsKept
  <2>2. ASSUME NEW e \in entrypoint PROVE e.header \in MimeTypes \cup {NoMime}
    <3>1. given \in Options /\ ~Refused(given) /\ e = Request(Copy(NewSettings(given).target))
      BY DEF IInv
    <3>2. NewSettings(given).target = MakeTarget(given.target) /\ given.target \in TargetOptions
      BY <3>1, Fields
    <3>3. QED
      BY <3>1, <3>2, HeaderOfRequest DEF Refused
  <2>3. QED
    BY <2>1, <2>2 DEF IInv, TypeOK
<1>4. QED
    BY <1>1, <1>2, <1>3, Invariance, SpecIsOptionsSpec, PTL DEF Spec
=============================================================================
