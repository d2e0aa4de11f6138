--------------------------- MODULE ScoringProofs ----------------------------
(***************************************************************************)
(* The score of an analysis, the result of a panel and the offline score:  *)
(* no more occurrences of a deduction are penalised than its cap, the      *)
(* order of the rows is no matter, a shadow judge leaves no trace, the     *)
(* judges that are trimmed cannot take a category out of the others'       *)
(* range, and what a person decided stands, for any events, deductions,    *)
(* judges, overrides and rulesets.                                         *)
(***************************************************************************)
EXTENDS ScoringEngine, FunctionTheorems, FiniteSetTheorems, SequenceTheorems,
        WellFoundedInduction, TLAPS

CONSTANTS
  Assignments, MaxJudges, Once, Forms, FormCategories, Modes, Profiles,
  DraftPool, FlawPool, OverridePool, Scores, FromFeatures

VARIABLES mode, profile, judges, ai,
          fusion, drafts, faults, overrides, forms

Panel == INSTANCE PanelResults WITH Evaluations <- Forms, Categories <- FormCategories

Fusion == INSTANCE ScoringPipeline WITH
  profile <- fusion, events <- drafts, deductions <- faults,
  EventPool <- DraftPool, DeductionPool <- FlawPool

-----------------------------------------------------------------------------
(* Numbers.                                                                *)

\* Of some numbers one is the least.
LEMMA Least ==
  ASSUME NEW T \in SUBSET Nat, T # {}
  PROVE  \E m \in T : \A n \in T : m <= n
<1> DEFINE R == {p \in Nat \X Nat : p[1] < p[2]}
<1>1. R = OpToRel(<, Nat)
  BY DEF OpToRel
<1>2. IsWellFoundedOn(R, Nat)
  BY <1>1, NatLessThanWellFounded DEF OpToRel
<1>3. \A a, b \in Nat : a < b => <<a, b>> \in R
  OBVIOUS
<1> HIDE DEF R
<1>4. PICK m \in T : \A n \in T : ~ (<<n, m>> \in R)
  BY <1>2, WFMin
<1>5. ASSUME NEW n \in T
      PROVE  m <= n
  <2>1. m \in Nat /\ n \in Nat
    OBVIOUS
  <2>2. ~ (n < m)
    BY <1>3, <1>4, <2>1
  <2>3. QED
    BY <2>1, <2>2
<1>6. QED
  BY <1>5

\* What holds of 0 and of each next number holds of all of them.
LEMMA Induction ==
  ASSUME NEW n \in Nat, NEW S, 0 \in S, \A k \in 0 .. n - 1 : k \in S => k + 1 \in S
  PROVE  \A k \in 0 .. n : k \in S
<1> DEFINE T == {k \in 0 .. n : k \notin S}
<1>1. SUFFICES ASSUME T # {}
               PROVE  FALSE
  OBVIOUS
<1>2. T \in SUBSET Nat
  OBVIOUS
<1>3. PICK m \in T : \A k \in T : m <= k
  <2> HIDE DEF T
  <2>1. QED
    BY <1>1, <1>2, Least
<1>4. m \in 0 .. n /\ m # 0 /\ m \notin S
  BY <1>3
<1>5. m - 1 \in 0 .. n - 1 /\ ~ m <= m - 1 /\ m - 1 + 1 = m
  BY <1>4
<1>6. m - 1 \in S
  BY <1>3, <1>5
<1>7. QED
  BY <1>4, <1>5, <1>6

-----------------------------------------------------------------------------
(* Sums.                                                                   *)

\* A sum is computed: some function adds the elements up, from the first.
Adds(f, s, m) ==
  f = [n \in 0 .. m |-> IF n = 0 THEN 0 ELSE f[n - 1] + s[n]]

LEMMA SumsExist ==
  ASSUME NEW s \in Seq(Int)
  PROVE  \E f : Adds(f, s, Len(s))
<1> DEFINE N == Len(s)
           S == {m \in 0 .. N : \E f : Adds(f, s, m)}
<1>1. N \in Nat
  OBVIOUS
<1>2. 0 \in S
  <2>1. 0 .. 0 = {0}
    OBVIOUS
  <2>2. Adds([n \in 0 .. 0 |-> 0], s, 0)
    BY <2>1 DEF Adds
  <2>3. QED
    BY <1>1, <2>2
<1>3. ASSUME NEW k \in 0 .. N - 1, k \in S
      PROVE  k + 1 \in S
  <2>1. PICK f : Adds(f, s, k)
    BY <1>3
  <2> DEFINE g == [n \in 0 .. k + 1 |-> IF n = k + 1 THEN f[k] + s[k + 1] ELSE f[n]]
  <2>2. ASSUME NEW n \in 0 .. k + 1
        PROVE  g[n] = IF n = 0 THEN 0 ELSE g[n - 1] + s[n]
    <3>1. CASE n = k + 1
      <4>1. n # 0 /\ n - 1 = k /\ k # k + 1 /\ k \in 0 .. k + 1
        BY <1>1, <3>1
      <4>2. g[n] = f[k] + s[k + 1] /\ g[k] = f[k]
        BY <3>1, <4>1
      <4>3. QED
        BY <3>1, <4>1, <4>2
    <3>2. CASE n # k + 1
      <4>1. n \in 0 .. k /\ g[n] = f[n]
        BY <1>1, <3>2
      <4>2. f[n] = IF n = 0 THEN 0 ELSE f[n - 1] + s[n]
        BY <2>1, <4>1 DEF Adds
      <4>3. n # 0 => g[n - 1] = f[n - 1]
        BY <1>1, <4>1
      <4>4. QED
        BY <4>1, <4>2, <4>3
    <3>3. QED
      BY <3>1, <3>2
  <2>3. DOMAIN g = 0 .. k + 1 /\ g = [n \in 0 .. k + 1 |-> g[n]]
    OBVIOUS
  <2> HIDE DEF g
  <2>4. Adds(g, s, k + 1)
    BY <2>2, <2>3 DEF Adds
  <2>5. QED
    BY <1>1, <2>4
<1> HIDE DEF S, N
<1>4. \A k \in 0 .. N : k \in S
  BY <1>1, <1>2, <1>3, Induction
<1>5. N \in S
  BY <1>1, <1>4
<1>6. QED
  BY <1>5 DEF S, N

\* What sum() computes: a whole number, by some function that adds up.
LEMMA TotalAdds ==
  ASSUME NEW s \in Seq(Int)
  PROVE  \E f \in [0 .. Len(s) -> Int] :
           /\ Total(s) = f[Len(s)] /\ f[0] = 0
           /\ \A n \in 1 .. Len(s) : f[n] = f[n - 1] + s[n]
<1> DEFINE f == CHOOSE g : Adds(g, s, Len(s))
           S == {n \in 0 .. Len(s) : f[n] \in Int}
<1>1. Total(s) = f[Len(s)]
  BY DEF Total, Adds
<1>2. Adds(f, s, Len(s))
  BY SumsExist
<1>3. Len(s) \in Nat /\ \A n \in 1 .. Len(s) : s[n] \in Int
  BY ElementOfSeq
<1> HIDE DEF f
<1>a. f = [n \in 0 .. Len(s) |-> IF n = 0 THEN 0 ELSE f[n - 1] + s[n]]
  BY <1>2 DEF Adds
<1>b. DOMAIN f = 0 .. Len(s) /\ f = [n \in 0 .. Len(s) |-> f[n]]
  BY <1>a
<1>c. ASSUME NEW n \in 0 .. Len(s)
      PROVE  f[n] = IF n = 0 THEN 0 ELSE f[n - 1] + s[n]
  BY <1>a
<1>4. f[0] = 0 /\ \A n \in 1 .. Len(s) : f[n] = f[n - 1] + s[n]
  BY <1>3, <1>c
<1>5. 0 \in S
  BY <1>3, <1>4
<1>6. ASSUME NEW k \in 0 .. Len(s) - 1, k \in S
      PROVE  k + 1 \in S
  <2>1. k + 1 \in 1 .. Len(s) /\ k + 1 - 1 = k
    BY <1>3
  <2>2. f[k + 1] = f[k + 1 - 1] + s[k + 1]
    BY <1>4, <2>1
  <2>3. QED
    BY <1>3, <1>6, <2>1, <2>2
<1> HIDE DEF S
<1>7. \A n \in 0 .. Len(s) : n \in S
  BY <1>3, <1>5, <1>6, Induction
<1>8. f \in [0 .. Len(s) -> Int]
  BY <1>b, <1>7 DEF S
<1>9. QED
  BY <1>1, <1>4, <1>8

\* A sum is taken element by element.
LEMMA TotalGrows ==
  ASSUME NEW n \in Nat, NEW s \in [1 .. n + 1 -> Int], NEW t \in [1 .. n -> Int],
         \A i \in 1 .. n : t[i] = s[i]
  PROVE  Total(s) = Total(t) + s[n + 1] /\ Total(t) \in Int
<1>1. s \in Seq(Int) /\ Len(s) = n + 1 /\ t \in Seq(Int) /\ Len(t) = n
  OBVIOUS
<1>a. \E f \in [0 .. Len(s) -> Int] :
        /\ Total(s) = f[Len(s)] /\ f[0] = 0
        /\ \A k \in 1 .. Len(s) : f[k] = f[k - 1] + s[k]
  BY <1>1, TotalAdds
<1>2. PICK f \in [0 .. n + 1 -> Int] :
        /\ Total(s) = f[n + 1] /\ f[0] = 0
        /\ \A k \in 1 .. n + 1 : f[k] = f[k - 1] + s[k]
  BY <1>1, <1>a
<1>3. PICK g \in [0 .. n -> Int] :
        /\ Total(t) = g[n] /\ g[0] = 0
        /\ \A k \in 1 .. n : g[k] = g[k - 1] + t[k]
  BY <1>1, TotalAdds
<1> DEFINE S == {k \in 0 .. n : f[k] = g[k]}
<1>4. 0 \in S
  BY <1>2, <1>3
<1>5. ASSUME NEW k \in 0 .. n - 1, k \in S
      PROVE  k + 1 \in S
  <2>1. k + 1 \in 1 .. n /\ k + 1 \in 1 .. n + 1 /\ k + 1 - 1 = k
    OBVIOUS
  <2>2. f[k + 1] = f[k + 1 - 1] + s[k + 1] /\ g[k + 1] = g[k + 1 - 1] + t[k + 1]
    BY <1>2, <1>3, <2>1
  <2>3. QED
    BY <1>5, <2>1, <2>2
<1> HIDE DEF S
<1>6. \A k \in 0 .. n : k \in S
  BY <1>4, <1>5, Induction
<1>7. f[n] = g[n]
  BY <1>6 DEF S
<1>8. n + 1 \in 1 .. n + 1 /\ n + 1 - 1 = n
  OBVIOUS
<1>9. f[n + 1] = f[n + 1 - 1] + s[n + 1]
  BY <1>2, <1>8
<1>10. QED
  BY <1>2, <1>3, <1>7, <1>8, <1>9

\* The sum of nothing.
LEMMA TotalOfNone ==
  ASSUME NEW s \in [1 .. 0 -> Int]
  PROVE  Total(s) = 0
<1>1. s \in Seq(Int) /\ Len(s) = 0
  OBVIOUS
<1>2. QED
  BY <1>1, TotalAdds

\* The sum of the first elements of a list, by how many.
Upto(s, k) == Total([i \in 1 .. k |-> s[i]])

LEMMA UptoAdds ==
  ASSUME NEW n \in Nat, NEW s \in [1 .. n -> Int]
  PROVE  /\ Upto(s, 0) = 0 /\ Total(s) = Upto(s, n)
         /\ \A k \in 0 .. n : Upto(s, k) \in Int
         /\ \A k \in 0 .. n - 1 : Upto(s, k + 1) = Upto(s, k) + s[k + 1]
<1>1. [i \in 1 .. 0 |-> s[i]] \in [1 .. 0 -> Int]
  OBVIOUS
<1>2. Upto(s, 0) = 0
  BY <1>1, TotalOfNone DEF Upto
<1>3. s = [i \in 1 .. n |-> s[i]]
  OBVIOUS
<1>4. Total(s) = Upto(s, n)
  BY <1>3 DEF Upto
<1>5. ASSUME NEW k \in 0 .. n - 1
      PROVE  Upto(s, k + 1) = Upto(s, k) + s[k + 1] /\ Upto(s, k) \in Int
  <2> DEFINE a == [i \in 1 .. k + 1 |-> s[i]]
             b == [i \in 1 .. k |-> s[i]]
  <2>1. k \in Nat /\ a \in [1 .. k + 1 -> Int] /\ b \in [1 .. k -> Int] /\ a[k + 1] = s[k + 1]
    OBVIOUS
  <2>2. \A i \in 1 .. k : b[i] = a[i]
    OBVIOUS
  <2>3. Upto(s, k + 1) = Total(a) /\ Upto(s, k) = Total(b)
    BY DEF Upto
  <2> HIDE DEF a, b
  <2>4. QED
    BY <2>1, <2>2, <2>3, TotalGrows
<1>6. \A k \in 0 .. n : Upto(s, k) \in Int
  <2>1. CASE n = 0
    BY <1>2, <2>1
  <2>2. CASE n # 0
    <3>1. n - 1 \in 0 .. n - 1 /\ n - 1 + 1 = n
      BY <2>2
    <3>2. Upto(s, n - 1) \in Int /\ Upto(s, n - 1 + 1) = Upto(s, n - 1) + s[n - 1 + 1]
      BY <1>5, <3>1
    <3>3. Upto(s, n) \in Int
      BY <3>1, <3>2
    <3>4. \A k \in 0 .. n : k \in 0 .. n - 1 \/ k = n
      OBVIOUS
    <3>5. QED
      BY <1>5, <3>3, <3>4
  <2>3. QED
    BY <2>1, <2>2
<1>7. QED
  BY <1>2, <1>4, <1>5, <1>6

\* A sum of n numbers between a and b is between n * a and n * b.
LEMMA TotalWithin ==
  ASSUME NEW n \in Nat, NEW s \in [1 .. n -> Int], NEW a \in Int, NEW b \in Int,
         \A i \in 1 .. n : a <= s[i] /\ s[i] <= b
  PROVE  Total(s) \in Int /\ n * a <= Total(s) /\ Total(s) <= n * b
<1> DEFINE S == {k \in 0 .. n : k * a <= Upto(s, k) /\ Upto(s, k) <= k * b}
<1>1. 0 \in S
  BY UptoAdds
<1>2. ASSUME NEW k \in 0 .. n - 1, k \in S
      PROVE  k + 1 \in S
  <2>1. Upto(s, k + 1) = Upto(s, k) + s[k + 1] /\ Upto(s, k) \in Int
    BY UptoAdds
  <2>2. k + 1 \in 1 .. n /\ s[k + 1] \in Int /\ a <= s[k + 1] /\ s[k + 1] <= b
    OBVIOUS
  <2>3. (k + 1) * a = k * a + a /\ (k + 1) * b = k * b + b /\ k * a \in Int /\ k * b \in Int
    OBVIOUS
  <2>4. k * a <= Upto(s, k) /\ Upto(s, k) <= k * b
    BY <1>2
  <2>5. PICK u \in Int, x \in Int : u = Upto(s, k) /\ x = s[k + 1]
    BY <2>1, <2>2
  <2>6. (k + 1) * a <= u + x /\ u + x <= (k + 1) * b
    BY <2>2, <2>3, <2>4, <2>5
  <2>7. QED
    BY <2>1, <2>5, <2>6
<1> HIDE DEF S
<1>3. \A k \in 0 .. n : k \in S
  BY <1>1, <1>2, Induction
<1>4. n * a <= Upto(s, n) /\ Upto(s, n) <= n * b
  BY <1>3 DEF S
<1>5. QED
  BY <1>4, UptoAdds

\* Of two numbers.
LEMMA GreaterOfTwo ==
  ASSUME NEW a \in Int, NEW b \in Int
  PROVE  Max({a, b}) = IF a >= b THEN a ELSE b
BY DEF Max

LEMMA LesserOfTwo ==
  ASSUME NEW a \in Int, NEW b \in Int
  PROVE  Min({a, b}) = IF a <= b THEN a ELSE b
BY DEF Min

LEMMA SizeUpto ==
  ASSUME NEW n \in Nat
  PROVE  IsFiniteSet(1 .. n) /\ Cardinality(1 .. n) = n
BY FS_Interval

LEMMA SizeBetween ==
  ASSUME NEW a \in Int, NEW b \in Int, a <= b
  PROVE  IsFiniteSet(a .. b) /\ Cardinality(a .. b) = b - a + 1
BY FS_Interval

-----------------------------------------------------------------------------
(* Lists.                                                                  *)

LEMMA ListIs ==
  ASSUME NEW S, NEW s \in Seq(S)
  PROVE  List(s) = s
BY ConcatEmptySeq DEF List

\* The places of a set are counted in order, and all of them.
LEMMA PlacesInOrder ==
  ASSUME NEW n \in Nat, NEW places \in SUBSET (1 .. n)
  PROVE  /\ IsFiniteSet(places) /\ Cardinality(places) \in Nat
         /\ \A k \in 1 .. Cardinality(places) : Nth(places, k) \in places
         /\ \A k, l \in 1 .. Cardinality(places) : k < l => Nth(places, k) < Nth(places, l)
         /\ \A i \in places : \E k \in 1 .. Cardinality(places) : Nth(places, k) = i
<1> DEFINE Below(i) == {j \in places : j <= i}
           c == Cardinality(places)
<1>1. IsFiniteSet(places) /\ c \in Nat
  <2>1. IsFiniteSet(1 .. n)
    BY FS_Interval
  <2>2. IsFiniteSet(places)
    BY <2>1, FS_Subset
  <2>3. QED
    BY <2>2, FS_CardinalityType
<1>2. ASSUME NEW i \in places
      PROVE  IsFiniteSet(Below(i)) /\ Cardinality(Below(i)) \in 1 .. c
  <2>1. Below(i) \in SUBSET places /\ Below(i) # {}
    OBVIOUS
  <2> HIDE DEF Below
  <2>2. IsFiniteSet(Below(i)) /\ Cardinality(Below(i)) <= c
    BY <1>1, <2>1, FS_Subset
  <2>3. Cardinality(Below(i)) \in Nat /\ Cardinality(Below(i)) # 0
    BY <2>1, <2>2, FS_CardinalityType, FS_EmptySet
  <2>4. QED
    BY <1>1, <2>2, <2>3
<1>3. ASSUME NEW i \in places, NEW j \in places, i < j
      PROVE  Cardinality(Below(i)) < Cardinality(Below(j))
  <2>1. Below(i) \in SUBSET Below(j) /\ j \in Below(j) /\ j \notin Below(i)
    <3>1. i \in Int /\ j \in Int /\ j <= j /\ ~ j <= i
      BY <1>3
    <3>2. \A m \in places : m <= i => m <= j
      BY <1>3, <3>1
    <3>3. QED
      BY <3>1, <3>2
  <2>2. PICK a \in 1 .. c, b \in 1 .. c : a = Cardinality(Below(i)) /\ b = Cardinality(Below(j))
    <3> HIDE DEF Below, c
    <3>1. QED
      BY <1>2
  <2>3. IsFiniteSet(Below(j))
    BY <1>2
  <2> HIDE DEF Below
  <2>4. Cardinality(Below(i)) <= Cardinality(Below(j)) /\ Cardinality(Below(i)) # Cardinality(Below(j))
    BY <2>1, <2>3, FS_Subset
  <2>5. QED
    BY <2>2, <2>4
<1> HIDE DEF c
<1> DEFINE rank == [i \in places |-> Cardinality(Below(i))]
<1>4. rank \in [places -> 1 .. c]
  BY <1>2
<1>5. \A i \in places : rank[i] = Cardinality(Below(i))
  OBVIOUS
<1> HIDE DEF rank
<1>6. \A i, j \in places : i < j => rank[i] < rank[j]
  BY <1>3, <1>5
<1>7. \A i, j \in places : rank[i] = rank[j] => i = j
  BY <1>4, <1>6
<1>8. rank \in Injection(places, 1 .. c)
  BY <1>4, <1>7, Fun_IsInj
<1>9. IsFiniteSet(1 .. c) /\ Cardinality(1 .. c) = c
  BY <1>1, FS_Interval
<1>10. rank \in Surjection(places, 1 .. c)
  BY <1>1, <1>8, <1>9, FS_Injection DEF c
<1>11. \A k \in 1 .. c : \E i \in places : rank[i] = k
  BY <1>10 DEF Surjection
<1>12. ASSUME NEW k \in 1 .. c
       PROVE  Nth(places, k) \in places /\ rank[Nth(places, k)] = k
  <2>1. \E i \in places : Cardinality(Below(i)) = k
    BY <1>5, <1>11
  <2>2. Nth(places, k) \in places /\ Cardinality(Below(Nth(places, k))) = k
    BY <2>1 DEF Nth
  <2>3. QED
    BY <1>5, <2>2
<1>13. ASSUME NEW k \in 1 .. c, NEW l \in 1 .. c, k < l
       PROVE  Nth(places, k) < Nth(places, l)
  <2>1. PICK i \in places, j \in places : i = Nth(places, k) /\ j = Nth(places, l)
    BY <1>12
  <2>2. rank[i] = k /\ rank[j] = l
    BY <1>12, <2>1
  <2>3. j < i => rank[j] < rank[i]
    BY <1>6
  <2>4. QED
    BY <1>13, <2>1, <2>2, <2>3
<1>14. ASSUME NEW i \in places
       PROVE  \E k \in 1 .. c : Nth(places, k) = i
  <2>1. rank[i] \in 1 .. c
    BY <1>4
  <2>2. QED
    BY <1>7, <1>12, <2>1
<1>15. QED
  BY <1>1, <1>12, <1>13, <1>14 DEF c

\* A comprehension keeps what meets its condition, once and in order.
LEMMA KeptInOrder ==
  ASSUME NEW S, NEW s \in Seq(S), NEW places \in SUBSET (1 .. Len(s))
  PROVE  /\ ElementsAt(s, places) \in Seq(S)
         /\ \A k \in 1 .. Len(ElementsAt(s, places)) :
              \E i \in places : ElementsAt(s, places)[k] = s[i]
         /\ \A i \in places :
              \E k \in 1 .. Len(ElementsAt(s, places)) : ElementsAt(s, places)[k] = s[i]
         /\ IsInjective(s) => IsInjective(ElementsAt(s, places))
<1> DEFINE e == ElementsAt(s, places)
           c == Cardinality(places)
<1>1. Len(s) \in Nat /\ DOMAIN s = 1 .. Len(s)
  OBVIOUS
<1>2. /\ c \in Nat
      /\ \A k \in 1 .. c : Nth(places, k) \in places
      /\ \A k, l \in 1 .. c : k < l => Nth(places, k) < Nth(places, l)
      /\ \A i \in places : \E k \in 1 .. c : Nth(places, k) = i
  BY <1>1, PlacesInOrder
<1>3. e = [k \in 1 .. c |-> s[Nth(places, k)]]
  BY DEF ElementsAt
<1> HIDE DEF e, c
<1>4. \A k \in 1 .. c : s[Nth(places, k)] \in S
  BY <1>1, <1>2, ElementOfSeq
<1>5. e \in Seq(S) /\ Len(e) = c /\ DOMAIN e = 1 .. c
  BY <1>2, <1>3, <1>4
<1>6. \A k \in 1 .. c : e[k] = s[Nth(places, k)]
  BY <1>3
<1>7. ASSUME IsInjective(s), NEW k \in 1 .. c, NEW l \in 1 .. c, e[k] = e[l]
      PROVE  k = l
  <2>1. Nth(places, k) \in 1 .. Len(s) /\ Nth(places, l) \in 1 .. Len(s)
    BY <1>2
  <2>2. Nth(places, k) = Nth(places, l)
    BY <1>1, <1>6, <1>7, <2>1 DEF IsInjective
  <2>3. ~ k < l /\ ~ l < k
    BY <1>2, <2>1, <2>2
  <2>4. QED
    BY <1>2, <2>3
<1>8. IsInjective(s) => IsInjective(e)
  BY <1>5, <1>7 DEF IsInjective
<1>9. QED
  BY <1>2, <1>5, <1>6, <1>8 DEF e

\* Nothing comes at two places, and all places are taken.
LEMMA PlacesAreTaken ==
  ASSUME NEW n \in Nat, NEW keys \in [1 .. n -> Int]
  PROVE  /\ \A i \in 1 .. n : Place(keys, i) \in 1 .. n
         /\ \A i, j \in 1 .. n : Sooner(keys, i, j) => Place(keys, i) < Place(keys, j)
         /\ \A k \in 1 .. n : \E i \in 1 .. n : Place(keys, i) = k
<1> DEFINE S(i) == {j \in 1 .. n : Sooner(keys, j, i)}
<1>0. IsFiniteSet(1 .. n) /\ Cardinality(1 .. n) = n
  BY FS_Interval
<1>1. \A i \in 1 .. n : Place(keys, i) = Cardinality(S(i)) + 1
  BY DEF Place
<1>2. ASSUME NEW i \in 1 .. n
      PROVE  /\ IsFiniteSet(S(i)) /\ Cardinality(S(i)) \in Nat
             /\ Cardinality(S(i)) < n
  <2>1. S(i) \in SUBSET (1 .. n) /\ i \notin S(i)
    BY DEF Sooner
  <2> HIDE DEF S
  <2>2. /\ IsFiniteSet(S(i)) /\ Cardinality(S(i)) <= n /\ Cardinality(S(i)) # n
    BY <1>0, <2>1, FS_Subset
  <2>3. Cardinality(S(i)) \in Nat
    BY <2>2, FS_CardinalityType
  <2>4. QED
    BY <2>2, <2>3
<1>3. ASSUME NEW i \in 1 .. n, NEW j \in 1 .. n, Sooner(keys, i, j)
      PROVE  Cardinality(S(i)) < Cardinality(S(j))
  <2>1. S(i) \in SUBSET S(j)
    <3> SUFFICES ASSUME NEW m \in 1 .. n, Sooner(keys, m, i)
                 PROVE  Sooner(keys, m, j)
      OBVIOUS
    <3>1. keys[m] \in Int /\ keys[i] \in Int /\ keys[j] \in Int
      OBVIOUS
    <3>2. QED
      BY <1>3, <3>1 DEF Sooner
  <2>2. i \in S(j) /\ i \notin S(i)
    BY <1>3 DEF Sooner
  <2> HIDE DEF S
  <2>3. Cardinality(S(i)) <= Cardinality(S(j)) /\ Cardinality(S(i)) # Cardinality(S(j))
    BY <1>2, <2>1, <2>2, FS_Subset
  <2>4. QED
    BY <1>2, <2>3
<1> HIDE DEF S
<1>a. ASSUME NEW i \in 1 .. n
      PROVE  Place(keys, i) \in 1 .. n
  <2>1. PICK c \in Nat : c = Cardinality(S(i)) /\ c < n
    BY <1>2
  <2>2. Place(keys, i) = c + 1
    BY <1>1, <2>1
  <2>3. QED
    BY <2>1, <2>2
<1>b. ASSUME NEW i \in 1 .. n, NEW j \in 1 .. n, Sooner(keys, i, j)
      PROVE  Place(keys, i) < Place(keys, j)
  <2>1. PICK c \in Nat, d \in Nat : c = Cardinality(S(i)) /\ d = Cardinality(S(j))
    BY <1>2
  <2>2. c < d /\ Place(keys, i) = c + 1 /\ Place(keys, j) = d + 1
    BY <1>1, <1>3, <1>b, <2>1
  <2>3. QED
    BY <2>1, <2>2
<1>4. /\ \A i \in 1 .. n : Place(keys, i) \in 1 .. n
      /\ \A i, j \in 1 .. n : Sooner(keys, i, j) => Place(keys, i) < Place(keys, j)
  BY <1>a, <1>b
<1>5. \A k \in 1 .. n : \E i \in 1 .. n : Place(keys, i) = k
  <2> DEFINE place == [i \in 1 .. n |-> Place(keys, i)]
  <2>1. place \in [1 .. n -> 1 .. n]
    BY <1>4
  <2>2. ASSUME NEW i \in 1 .. n, NEW j \in 1 .. n, place[i] = place[j]
        PROVE  i = j
    <3>1. Place(keys, i) = Place(keys, j) /\ Place(keys, i) \in Int /\ Place(keys, j) \in Int
      BY <1>4, <2>2
    <3>2. ~ Sooner(keys, i, j) /\ ~ Sooner(keys, j, i)
      BY <1>4, <3>1
    <3>3. keys[i] \in Int /\ keys[j] \in Int
      OBVIOUS
    <3>4. QED
      BY <3>2, <3>3 DEF Sooner
  <2> HIDE DEF place
  <2>3. place \in Injection(1 .. n, 1 .. n)
    BY <2>1, <2>2, Fun_IsInj
  <2>4. place \in Surjection(1 .. n, 1 .. n)
    BY <1>0, <2>3, FS_Injection
  <2>5. \A k \in 1 .. n : \E i \in 1 .. n : place[i] = k
    BY <2>1, <2>4 DEF Surjection
  <2>6. QED
    BY <2>5 DEF place
<1>6. QED
  BY <1>4, <1>5

\* sorted() puts every element somewhere, once, and the keys in order.
LEMMA SortingSorts ==
  ASSUME NEW n \in Nat, NEW keys \in [1 .. n -> Int]
  PROVE  /\ Sorting(keys) \in [1 .. n -> 1 .. n]
         /\ \A a, b \in 1 .. n :
              a < b => /\ Sorting(keys)[a] # Sorting(keys)[b]
                       /\ keys[Sorting(keys)[a]] <= keys[Sorting(keys)[b]]
<1> DEFINE order == Sorting(keys)
<1>1. DOMAIN keys = 1 .. n
  OBVIOUS
<1>2. order = [k \in 1 .. n |-> CHOOSE i \in 1 .. n : Place(keys, i) = k]
  BY <1>1 DEF Sorting
<1> HIDE DEF order
<1>3. \A k \in 1 .. n : order[k] \in 1 .. n /\ Place(keys, order[k]) = k
  BY <1>2, PlacesAreTaken
<1>4. order \in [1 .. n -> 1 .. n]
  BY <1>2, <1>3
<1>5. ASSUME NEW a \in 1 .. n, NEW b \in 1 .. n, a < b
      PROVE  order[a] # order[b] /\ keys[order[a]] <= keys[order[b]]
  <2>1. order[a] # order[b]
    BY <1>3, <1>5
  <2>a. PICK i \in 1 .. n, j \in 1 .. n : i = order[a] /\ j = order[b]
    BY <1>3
  <2>b. Place(keys, i) = a /\ Place(keys, j) = b /\ ~ b < a
    BY <1>3, <1>5, <2>a
  <2>c. Sooner(keys, j, i) => Place(keys, j) < Place(keys, i)
    BY PlacesAreTaken
  <2>2. ~ Sooner(keys, order[b], order[a])
    BY <2>a, <2>b, <2>c
  <2>3. keys[order[a]] \in Int /\ keys[order[b]] \in Int
    BY <1>3
  <2>4. QED
    BY <2>1, <2>2, <2>3 DEF Sooner
<1>6. QED
  BY <1>4, <1>5 DEF order

-----------------------------------------------------------------------------
(* The cap of a deduction type.                                            *)

\* What the packaged rulesets and the rows are: one rule for each type, caps
\* that are counts, a rule is not None.
RulesOK(r) ==
  /\ \A q \in r.rules : q # None /\ (q.cap = None \/ q.cap \in Nat)
  /\ \A p, q \in r.rules : p.type = q.type => p = q

LEMMA RuleFound ==
  ASSUME NEW r, RulesOK(r), NEW q \in r.rules
  PROVE  RuleFor(r, q.type) = q
BY DEF RulesOK, RuleFor

Charges(ds) == /\ \E S : ds \in Seq(S)
               /\ \A i \in 1 .. Len(ds) : ds[i].at \in Int /\ ds[i].quantity \in Nat

LEMMA ByTimeCharges ==
  ASSUME NEW ds, Charges(ds)
  PROVE  Charges(ByTime(ds)) /\ Len(ByTime(ds)) = Len(ds)
<1> DEFINE n == Len(ds)
           keys == [i \in 1 .. n |-> ds[i].at]
           t == [k \in 1 .. n |-> ds[Sorting(keys)[k]]]
<1>1. PICK S : ds \in Seq(S)
  BY DEF Charges
<1>2. n \in Nat /\ DOMAIN ds = 1 .. n /\ \A i \in 1 .. n : ds[i] \in S
  BY <1>1, ElementOfSeq
<1>3. keys \in [1 .. n -> Int]
  BY DEF Charges
<1>4. SortedBy(ds, LAMBDA d : d.at) = t
  BY <1>2 DEF SortedBy
<1>5. Sorting(keys) \in [1 .. n -> 1 .. n]
  BY <1>2, <1>3, SortingSorts
<1> HIDE DEF keys, n
<1>6. t \in Seq(S) /\ Len(t) = n /\ \A k \in 1 .. n : \E i \in 1 .. n : t[k] = ds[i]
  BY <1>2, <1>5
<1>7. ByTime(ds) = t
  BY <1>4, <1>6, ListIs DEF ByTime
<1> HIDE DEF t
<1>8. QED
  BY <1>6, <1>7 DEF Charges, n

\* What is charged of each row of a type, and what the rows are for.
Of(ds, t) == [i \in 1 .. Len(ds) |-> IF ds[i].type = t THEN ds[i].quantity ELSE 0]

LEMMA PriorIsSum ==
  ASSUME NEW ds, Charges(ds), NEW i \in 1 .. Len(ds)
  PROVE  Prior(ds, i) = Upto(Of(ds, ds[i].type), i - 1)
<1> DEFINE b == SubSeq(ds, 1, i - 1)
           F(d) == IF d.type = ds[i].type THEN d.quantity ELSE 0
<1>1. PICK S : ds \in Seq(S)
  BY DEF Charges
<1>2. Len(ds) \in Nat /\ i - 1 \in Int /\ \A k \in 1 .. i - 1 : k \in 1 .. Len(ds) /\ ds[k] \in S
  BY <1>1, ElementOfSeq
<1>3. b \in Seq(S) /\ Len(b) = i - 1 /\ \A k \in 1 .. i - 1 : b[k] = ds[k]
  <2>1. /\ b \in Seq(S) /\ Len(b) = IF 1 <= i - 1 THEN i - 1 - 1 + 1 ELSE 0
        /\ \A k \in 1 .. i - 1 - 1 + 1 : b[k] = ds[1 + k - 1]
    BY <1>2, SubSeqProperties
  <2>2. i - 1 - 1 + 1 = i - 1 /\ i - 1 \in Nat /\ \A k \in 1 .. i - 1 : 1 + k - 1 = k
    BY <1>2
  <2>3. QED
    BY <2>1, <2>2
<1>4. DOMAIN b = 1 .. i - 1
  BY <1>3
<1>5. Prior(ds, i) = Total([k \in DOMAIN b |-> F(b[k])])
  BY DEF Prior, SumOver
<1> HIDE DEF b
<1>6. [k \in DOMAIN b |-> F(b[k])] = [k \in 1 .. i - 1 |-> Of(ds, ds[i].type)[k]]
  BY <1>2, <1>3, <1>4 DEF Of
<1>7. QED
  BY <1>5, <1>6 DEF Upto

\* However a quantity is spread, no more is penalised than the cap and than
\* what there was (_deduction_points).
LEMMA CapHolds ==
  ASSUME NEW r, RulesOK(r), NEW read, Charges(read), NEW q \in r.rules, q.cap # None
  PROVE  SumOver(LAMBDA p : IF p.type = q.type THEN p.allowed ELSE 0, Penalties(r, read)) <= q.cap
<1> DEFINE ds == ByTime(read)
           n == Len(ds)
           g == Of(ds, q.type)
           P == Penalties(r, read)
           a == [i \in DOMAIN P |-> IF P[i].type = q.type THEN P[i].allowed ELSE 0]
<1>1. Charges(ds)
  BY ByTimeCharges
<1> HIDE DEF ds
<1>2. n \in Nat /\ DOMAIN ds = 1 .. n
  BY <1>1 DEF Charges
<1>3. q.cap \in Nat
  BY DEF RulesOK
<1>4. g \in [1 .. n -> Nat]
  BY <1>1 DEF Charges, Of
<1>5. DOMAIN P = 1 .. n /\ \A i \in 1 .. n : P[i].type = ds[i].type
  BY <1>2 DEF Penalties, ds
<1>6. ASSUME NEW i \in 1 .. n, ds[i].type = q.type
      PROVE  P[i].allowed = Max({0, Min({ds[i].quantity, q.cap - Prior(ds, i)})})
  <2>1. RuleFor(r, ds[i].type) = q /\ q # None
    BY <1>6, RuleFound DEF RulesOK
  <2>2. QED
    BY <1>2, <2>1 DEF Penalties, ds
<1> HIDE DEF P, g
<1>7. ASSUME NEW i \in 1 .. n
      PROVE  IF ds[i].type = q.type
             THEN a[i] = Max({0, Min({g[i], q.cap - Upto(g, i - 1)})}) /\ g[i] = ds[i].quantity
             ELSE a[i] = 0 /\ g[i] = 0
  <2>1. g[i] = IF ds[i].type = q.type THEN ds[i].quantity ELSE 0
    BY DEF g, Of
  <2>2. a[i] = IF P[i].type = q.type THEN P[i].allowed ELSE 0
    BY <1>5
  <2>3. ASSUME ds[i].type = q.type
        PROVE  Prior(ds, i) = Upto(g, i - 1)
    BY <1>1, <2>3, PriorIsSum DEF g
  <2> HIDE DEF a
  <2>4. QED
    BY <1>5, <1>6, <2>1, <2>2, <2>3
<1>8. DOMAIN a = 1 .. n
  BY <1>5
<1>9. SumOver(LAMBDA p : IF p.type = q.type THEN p.allowed ELSE 0, P) = Total(a)
  BY DEF SumOver
<1> HIDE DEF a, n
<1>10. /\ Upto(g, 0) = 0 /\ \A k \in 0 .. n : Upto(g, k) \in Int
       /\ \A k \in 0 .. n - 1 : Upto(g, k + 1) = Upto(g, k) + g[k + 1]
  <2>1. g \in [1 .. n -> Int]
    BY <1>4
  <2>2. QED
    BY <1>2, <2>1, UptoAdds
<1>11. ASSUME NEW i \in 1 .. n
       PROVE  /\ a[i] \in Int /\ Upto(g, i - 1) \in Int
              /\ LET u == Upto(g, i - 1)
                 IN  a[i] = 0 \/ (u < q.cap /\ u + a[i] <= q.cap /\ a[i] <= g[i])
  <2>1. i - 1 \in 0 .. n
    BY <1>2
  <2>2. PICK u \in Int, x \in Nat : u = Upto(g, i - 1) /\ x = g[i]
    BY <1>4, <1>10, <2>1
  <2>3. PICK c \in Nat : c = q.cap
    BY <1>3
  <2>4. c - u \in Int /\ Min({x, c - u}) = IF x <= c - u THEN x ELSE c - u
    BY LesserOfTwo
  <2>5. PICK m \in Int : m = Min({x, c - u}) /\ m <= x /\ m <= c - u
    BY <2>4
  <2>6. Max({0, m}) = IF 0 >= m THEN 0 ELSE m
    BY GreaterOfTwo
  <2>7. a[i] = 0 \/ (a[i] = m /\ m > 0)
    BY <1>7, <2>2, <2>3, <2>5, <2>6
  <2>8. QED
    BY <2>2, <2>3, <2>5, <2>7
<1>12. a \in [1 .. n -> Int]
  <2>1. a = [i \in 1 .. n |-> a[i]]
    BY <1>8 DEF a
  <2>2. QED
    BY <1>11, <2>1
<1>13. /\ Upto(a, 0) = 0 /\ \A k \in 0 .. n : Upto(a, k) \in Int /\ Total(a) = Upto(a, n)
       /\ \A k \in 0 .. n - 1 : Upto(a, k + 1) = Upto(a, k) + a[k + 1]
  BY <1>2, <1>12, UptoAdds
<1> DEFINE S == {k \in 0 .. n : Upto(a, k) <= q.cap /\ Upto(a, k) <= Upto(g, k)}
<1>14. 0 \in S
  BY <1>2, <1>3, <1>10, <1>13
<1>15. ASSUME NEW k \in 0 .. n - 1, k \in S
       PROVE  k + 1 \in S
  <2>1. k + 1 \in 1 .. n /\ k + 1 - 1 = k /\ k \in 0 .. n
    BY <1>2
  <2>2. PICK u \in Int, v \in Int, x \in Nat, y \in Int, c \in Nat :
          u = Upto(g, k) /\ v = Upto(a, k) /\ x = g[k + 1] /\ y = a[k + 1] /\ c = q.cap
    BY <1>3, <1>4, <1>10, <1>11, <1>13, <2>1
  <2>3. Upto(g, k + 1) = u + x /\ Upto(a, k + 1) = v + y
    BY <1>10, <1>13, <2>2
  <2>4. v <= c /\ v <= u
    BY <1>15, <2>2
  <2>5. y = 0 \/ (u + y <= c /\ y <= x)
    <3>1. a[k + 1] = 0 \/ (Upto(g, k + 1 - 1) + a[k + 1] <= q.cap /\ a[k + 1] <= g[k + 1])
      BY <1>11, <2>1
    <3>2. QED
      BY <2>1, <2>2, <3>1
  <2>6. v + y <= c /\ v + y <= u + x
    BY <2>4, <2>5
  <2>7. QED
    BY <2>1, <2>2, <2>3, <2>6
<1> HIDE DEF S
<1>16. \A k \in 0 .. n : k \in S
  BY <1>2, <1>14, <1>15, Induction
<1>17. n \in 0 .. n
  BY <1>2
<1>18. Total(a) <= q.cap
  BY <1>13, <1>16, <1>17 DEF S
<1>19. QED
  BY <1>9, <1>18 DEF P

-----------------------------------------------------------------------------
(* The state of an analysis.                                               *)

\* The rows have the columns of their tables.
ScoringOK ==
  /\ EventPool \subseteq Event /\ DeductionPool \subseteq Deduction
  /\ \A r \in Rulesets : RulesOK(r)

ScoringInv ==
  /\ ruleset \in Rulesets
  /\ window \in Windows
  /\ events \in Seq(Reviewed(EventPool))
  /\ deductions \in Seq(Reviewed(DeductionPool))
  /\ evaluation \in Evaluations \cup {None}

LEMMA RowRemoved ==
  ASSUME NEW S, NEW s \in Seq(S), NEW i \in DOMAIN s
  PROVE  RemoveAt(s, i) \in Seq(S)
<1>1. Len(s) \in Nat /\ DOMAIN s = 1 .. Len(s) /\ \A k \in 1 .. Len(s) : s[k] \in S
  BY ElementOfSeq
<1>2. i - 1 \in Int /\ i + 1 \in Int /\ \A k \in 1 .. i - 1 : k \in 1 .. Len(s)
  BY <1>1
<1>3. \A k \in i + 1 .. Len(s) : k \in 1 .. Len(s)
  BY <1>1
<1>4. SubSeq(s, 1, i - 1) \in Seq(S)
  BY <1>1, <1>2, SubSeqProperties
<1>5. SubSeq(s, i + 1, Len(s)) \in Seq(S)
  BY <1>1, <1>2, <1>3, SubSeqProperties
<1>6. QED
  BY <1>4, <1>5, ConcatProperties DEF RemoveAt

LEMMA RowUpdated ==
  ASSUME NEW pool, NEW s \in Seq(Reviewed(pool)), NEW i \in DOMAIN s, NEW t \in ReviewStatuses
  PROVE  Updated(s, i, t) \in Seq(Reviewed(pool))
<1>1. i \in 1 .. Len(s)
  OBVIOUS
<1>2. s[i] \in Reviewed(pool)
  BY <1>1, ElementOfSeq
<1>3. PICK r \in pool, u \in ReviewStatuses : s[i] = [row |-> r, status |-> u]
  BY <1>2 DEF Reviewed
<1>4. [s[i] EXCEPT !.status = t] = [row |-> r, status |-> t]
  BY <1>3
<1>5. [s[i] EXCEPT !.status = t] \in Reviewed(pool)
  BY <1>4 DEF Reviewed
<1>6. RemoveAt(s, i) \in Seq(Reviewed(pool))
  BY RowRemoved
<1> HIDE DEF Reviewed
<1>7. QED
  BY <1>5, <1>6 DEF Updated

\* Rows come, go and move, and keep their columns (repositories of the
\* analysis's events and deductions).
LEMMA ScoringKeeps ==
  ASSUME ScoringInv, [Next]_vars
  PROVE  ScoringInv'
<1>1. /\ "pending" \in ReviewStatuses /\ "confirmed" \in ReviewStatuses
      /\ "rejected" \in ReviewStatuses
  BY DEF ReviewStatuses
<1>2. ASSUME NEW e \in EventPool, NEW t \in NewStatuses, AddEvent(e, t)
      PROVE  ScoringInv'
  <2>1. [row |-> e, status |-> t] \in Reviewed(EventPool)
    BY <1>1 DEF NewStatuses, Reviewed
  <2>2. QED
    BY <1>2, <2>1 DEF AddEvent, ScoringInv
<1>3. ASSUME NEW d \in DeductionPool, NEW t \in NewStatuses, AddDeduction(d, t)
      PROVE  ScoringInv'
  <2>1. [row |-> d, status |-> t] \in Reviewed(DeductionPool)
    BY <1>1 DEF NewStatuses, Reviewed
  <2>2. QED
    BY <1>3, <2>1 DEF AddDeduction, ScoringInv
<1>4. ASSUME NEW i \in DOMAIN events, DeleteEvent(i)
      PROVE  ScoringInv'
  BY <1>4, RowRemoved DEF DeleteEvent, ScoringInv
<1>5. ASSUME NEW i \in DOMAIN deductions, DeleteDeduction(i)
      PROVE  ScoringInv'
  BY <1>5, RowRemoved DEF DeleteDeduction, ScoringInv
<1>6. ASSUME NEW i \in DOMAIN events, NEW t \in {"confirmed", "rejected"}, ReviewEvent(i, t)
      PROVE  ScoringInv'
  <2>1. Updated(events, i, t) \in Seq(Reviewed(EventPool))
    BY <1>1, RowUpdated DEF ScoringInv
  <2>2. QED
    BY <1>6, <2>1 DEF ReviewEvent, ScoringInv
<1>7. ASSUME NEW i \in DOMAIN deductions, NEW t \in {"confirmed", "rejected"}, ReviewDeduction(i, t)
      PROVE  ScoringInv'
  <2>1. Updated(deductions, i, t) \in Seq(Reviewed(DeductionPool))
    BY <1>1, RowUpdated DEF ScoringInv
  <2>2. QED
    BY <1>7, <2>1 DEF ReviewDeduction, ScoringInv
<1>8. ASSUME NEW ev \in Evaluations, Evaluate(ev)
      PROVE  ScoringInv'
  BY <1>8 DEF Evaluate, ScoringInv
<1>9. CASE UNCHANGED vars
  BY <1>9 DEF vars, ScoringInv
<1>10. QED
  BY <1>2, <1>3, <1>4, <1>5, <1>6, <1>7, <1>8, <1>9 DEF Next

LEMMA ScoringInvariant ==
  Spec => []ScoringInv
<1>1. Init => ScoringInv
  BY DEF Init, ScoringInv
<1>2. ScoringInv /\ [Next]_vars => ScoringInv'
  BY ScoringKeeps
<1>3. QED
  BY <1>1, <1>2, PTL DEF Spec

\* However the analysis and the reviewer work on them, the rows stay reviewed rows
\* of their pools (the repositories of an analysis's rows).
THEOREM ScoringIsTyped ==
  Spec => []TypeOK
<1>1. ScoringInv => TypeOK
  <2>1. ASSUME NEW S, NEW s \in Seq(S), NEW i \in DOMAIN s
        PROVE  s[i] \in S
    BY ElementOfSeq
  <2>2. QED
    BY <2>1 DEF ScoringInv, TypeOK
<1>2. QED
  BY <1>1, ScoringInvariant, PTL

\* The rows that count are rows.
LEMMA ScoredAreRows ==
  ASSUME NEW pool, NEW s \in Seq(Reviewed(pool)), NEW counts \in SUBSET (DOMAIN s)
  PROVE  /\ Rows(s) \in Seq(pool) /\ Len(Rows(s)) = Len(s)
         /\ List(ElementsAt(Rows(s), counts)) = ElementsAt(Rows(s), counts)
         /\ ElementsAt(Rows(s), counts) \in Seq(pool)
<1>1. Len(s) \in Nat /\ DOMAIN s = 1 .. Len(s) /\ \A i \in 1 .. Len(s) : s[i] \in Reviewed(pool)
  BY ElementOfSeq
<1>2. \A i \in 1 .. Len(s) : s[i].row \in pool
  BY <1>1 DEF Reviewed
<1>3. Rows(s) \in Seq(pool) /\ Len(Rows(s)) = Len(s)
  BY <1>1, <1>2 DEF Rows
<1>4. counts \in SUBSET (1 .. Len(Rows(s)))
  BY <1>1, <1>3
<1>5. ElementsAt(Rows(s), counts) \in Seq(pool)
  BY <1>3, <1>4, KeptInOrder
<1>6. QED
  BY <1>3, <1>5, ListIs

\* No more occurrences of a type are penalised than its cap, whatever rows
\* there are, and however they are reviewed (_deduction_points).
THEOREM CapsAreCaps ==
  ASSUME ScoringOK
  PROVE  Spec => []CapPerType
<1>1. ASSUME ScoringInv
      PROVE  CapPerType
  <2>1. SUFFICES ASSUME NEW q \in ruleset.rules, q.cap # None
                 PROVE  q.cap >= SumOver(LAMBDA p : IF p.type = q.type THEN p.allowed ELSE 0,
                                         Penalties(ruleset, ScoredDeductions(deductions)))
    BY DEF CapPerType
  <2> DEFINE read == ScoredDeductions(deductions)
  <2>2. read \in Seq(DeductionPool)
    BY <1>1, ScoredAreRows DEF ScoringInv, ScoredDeductions
  <2>3. Charges(read)
    <3>1. \A i \in 1 .. Len(read) : read[i] \in Deduction
      BY <2>2, ElementOfSeq DEF ScoringOK
    <3>2. QED
      BY <2>2, <3>1 DEF Charges, Deduction
  <2>4. RulesOK(ruleset)
    BY <1>1 DEF ScoringInv, ScoringOK
  <2> HIDE DEF read
  <2>5. SumOver(LAMBDA p : IF p.type = q.type THEN p.allowed ELSE 0, Penalties(ruleset, read)) <= q.cap
    BY <2>1, <2>3, <2>4, CapHolds
  <2>6. QED
    BY <2>5 DEF read
<1>2. QED
  BY <1>1, ScoringInvariant, PTL

-----------------------------------------------------------------------------
(* The order of the rows.                                                  *)

\* A list in which a key tells the elements apart.
Distinct(s, key) == \A i, j \in 1 .. Len(s) : key[s[i]] = key[s[j]] => i = j

SameElements(s, t) ==
  /\ \A i \in 1 .. Len(s) : \E j \in 1 .. Len(t) : s[i] = t[j]
  /\ \A j \in 1 .. Len(t) : \E i \in 1 .. Len(s) : s[i] = t[j]

LEMMA SameSize ==
  ASSUME NEW S, NEW T, IsFiniteSet(S), NEW f \in [S -> T],
         \A a, b \in S : f[a] = f[b] => a = b, \A t \in T : \E a \in S : f[a] = t
  PROVE  IsFiniteSet(T) /\ Cardinality(T) = Cardinality(S)
<1>1. f \in Injection(S, T)
  BY Fun_IsInj
<1>2. f \in Surjection(S, T)
  BY Fun_IsSurj
<1>3. ExistsBijection(S, T)
  BY <1>1, <1>2 DEF ExistsBijection, Bijection
<1>4. QED
  BY <1>3, FS_Bijection

\* What is sorted before an element, as elements.
Lower(s, key, x) == {s[j] : j \in {i \in 1 .. Len(s) : key[s[i]] < key[x]}}

KeysOf(s, key) == [i \in 1 .. Len(s) |-> key[s[i]]]

LEMMA PlaceByLower ==
  ASSUME NEW S, NEW s \in Seq(S), NEW key \in [S -> Int], Distinct(s, key), NEW i \in 1 .. Len(s)
  PROVE  /\ IsFiniteSet(Lower(s, key, s[i]))
         /\ Place(KeysOf(s, key), i) = Cardinality(Lower(s, key, s[i])) + 1
<1> DEFINE n == Len(s)
           keys == KeysOf(s, key)
           B == {j \in 1 .. n : Sooner(keys, j, i)}
           f == [j \in B |-> s[j]]
<1>1. n \in Nat /\ \A j \in 1 .. n : s[j] \in S /\ key[s[j]] \in Int
  BY ElementOfSeq
<1>2. DOMAIN keys = 1 .. n /\ \A j \in 1 .. n : keys[j] = key[s[j]]
  BY DEF KeysOf
<1>3. B = {j \in 1 .. n : key[s[j]] < key[s[i]]}
  <2>1. ASSUME NEW j \in 1 .. n
        PROVE  Sooner(keys, j, i) <=> key[s[j]] < key[s[i]]
    <3>1. key[s[j]] = key[s[i]] => j = i
      BY DEF Distinct
    <3>2. QED
      BY <1>1, <1>2, <3>1 DEF Sooner
  <2>2. QED
    BY <2>1
<1>4. Lower(s, key, s[i]) = {s[j] : j \in B}
  BY <1>3 DEF Lower
<1>5. IsFiniteSet(B)
  <2>1. IsFiniteSet(1 .. n)
    BY <1>1, FS_Interval
  <2>2. B \in SUBSET (1 .. n)
    OBVIOUS
  <2> HIDE DEF B
  <2>3. QED
    BY <2>1, <2>2, FS_Subset
<1>6. Place(keys, i) = Cardinality(B) + 1
  BY <1>2 DEF Place
<1>7. B \subseteq 1 .. n
  OBVIOUS
<1> HIDE DEF B, n, keys
<1>8. f \in [B -> Lower(s, key, s[i])] /\ \A x \in Lower(s, key, s[i]) : \E a \in B : f[a] = x
  BY <1>4
<1>9. \A a, b \in B : f[a] = f[b] => a = b
  <2>1. SUFFICES ASSUME NEW a \in B, NEW b \in B, f[a] = f[b]
                 PROVE  a = b
    OBVIOUS
  <2>2. s[a] = s[b] /\ a \in 1 .. Len(s) /\ b \in 1 .. Len(s)
    BY <1>7, <2>1 DEF n
  <2>3. QED
    BY <2>2 DEF Distinct
<1> DEFINE T == Lower(s, key, s[i])
<1>10. f \in [B -> T] /\ \A x \in T : \E a \in B : f[a] = x
  BY <1>8
<1> HIDE DEF f, T
<1>11. IsFiniteSet(T) /\ Cardinality(T) = Cardinality(B)
  BY ONLY <1>5, <1>9, <1>10, SameSize
<1>12. QED
  BY <1>6, <1>11 DEF keys, T

\* The element that sorting puts at a place is the one of that place.
LEMMA PlaceOfSorted ==
  ASSUME NEW n \in Nat, NEW keys \in [1 .. n -> Int], NEW k \in 1 .. n
  PROVE  Sorting(keys)[k] \in 1 .. n /\ Place(keys, Sorting(keys)[k]) = k
<1>1. DOMAIN keys = 1 .. n
  OBVIOUS
<1>2. \E i \in 1 .. n : Place(keys, i) = k
  BY PlacesAreTaken
<1>3. Sorting(keys)[k] = CHOOSE i \in 1 .. n : Place(keys, i) = k
  BY <1>1 DEF Sorting
<1>4. QED
  BY <1>2, <1>3

SortedAs(s, key) == [k \in 1 .. Len(s) |-> s[Sorting(KeysOf(s, key))[k]]]

LEMMA SortedAlike ==
  ASSUME NEW S, NEW s \in Seq(S), NEW t \in Seq(S), NEW key \in [S -> Int],
         Distinct(s, key), Distinct(t, key), SameElements(s, t)
  PROVE  Len(s) = Len(t) /\ SortedAs(s, key) = SortedAs(t, key)
<1>1. /\ Len(s) \in Nat /\ \A i \in 1 .. Len(s) : s[i] \in S /\ key[s[i]] \in Int
      /\ Len(t) \in Nat /\ \A i \in 1 .. Len(t) : t[i] \in S /\ key[t[i]] \in Int
  BY ElementOfSeq
<1>2. Len(s) = Len(t)
  <2> DEFINE f == [i \in 1 .. Len(s) |-> CHOOSE j \in 1 .. Len(t) : s[i] = t[j]]
  <2>1. ASSUME NEW i \in 1 .. Len(s)
        PROVE  f[i] \in 1 .. Len(t) /\ s[i] = t[f[i]]
    <3>1. \E j \in 1 .. Len(t) : s[i] = t[j]
      BY DEF SameElements
    <3>2. f[i] = CHOOSE j \in 1 .. Len(t) : s[i] = t[j]
      OBVIOUS
    <3> HIDE DEF f
    <3>3. QED
      BY <3>1, <3>2
  <2>2. f \in [1 .. Len(s) -> 1 .. Len(t)]
    BY <2>1
  <2> HIDE DEF f
  <2>3. ASSUME NEW a \in 1 .. Len(s), NEW b \in 1 .. Len(s), f[a] = f[b]
        PROVE  a = b
    <3>1. s[a] = s[b]
      BY <2>1, <2>3
    <3>2. QED
      BY <3>1 DEF Distinct
  <2>4. ASSUME NEW j \in 1 .. Len(t)
        PROVE  \E i \in 1 .. Len(s) : f[i] = j
    <3>1. PICK i \in 1 .. Len(s) : s[i] = t[j]
      BY DEF SameElements
    <3>2. t[f[i]] = t[j] /\ f[i] \in 1 .. Len(t) /\ j \in 1 .. Len(t)
      BY <2>1, <3>1
    <3>3. \A a, b \in 1 .. Len(t) : key[t[a]] = key[t[b]] => a = b
      BY DEF Distinct
    <3>4. f[i] = j
      BY ONLY <3>2, <3>3
    <3>5. QED
      BY <3>4
  <2>5. IsFiniteSet(1 .. Len(s)) /\ Cardinality(1 .. Len(s)) = Len(s) /\ Cardinality(1 .. Len(t)) = Len(t)
    <3>1. Len(s) \in Nat /\ Len(t) \in Nat
      BY <1>1
    <3>2. QED
      BY ONLY <3>1, SizeUpto
  <2>6. \A j \in 1 .. Len(t) : \E i \in 1 .. Len(s) : f[i] = j
    BY <2>4
  <2>7. IsFiniteSet(1 .. Len(t)) /\ Cardinality(1 .. Len(t)) = Cardinality(1 .. Len(s))
    BY ONLY <2>2, <2>3, <2>5, <2>6, SameSize
  <2>8. QED
    BY <2>5, <2>7
<1>3. ASSUME NEW x \in S
      PROVE  Lower(s, key, x) = Lower(t, key, x)
  <2>1. ASSUME NEW y \in Lower(s, key, x)
        PROVE  y \in Lower(t, key, x)
    <3>1. PICK i \in 1 .. Len(s) : key[s[i]] < key[x] /\ y = s[i]
      BY DEF Lower
    <3>2. PICK j \in 1 .. Len(t) : s[i] = t[j]
      BY DEF SameElements
    <3>3. QED
      BY <3>1, <3>2 DEF Lower
  <2>2. ASSUME NEW y \in Lower(t, key, x)
        PROVE  y \in Lower(s, key, x)
    <3>1. PICK j \in 1 .. Len(t) : key[t[j]] < key[x] /\ y = t[j]
      BY DEF Lower
    <3>2. PICK i \in 1 .. Len(s) : s[i] = t[j]
      BY DEF SameElements
    <3>3. QED
      BY <3>1, <3>2 DEF Lower
  <2>3. QED
    BY <2>1, <2>2
<1>4. ASSUME NEW k \in 1 .. Len(s)
      PROVE  SortedAs(s, key)[k] = SortedAs(t, key)[k]
  <2>1. KeysOf(s, key) \in [1 .. Len(s) -> Int] /\ KeysOf(t, key) \in [1 .. Len(t) -> Int]
    BY <1>1 DEF KeysOf
  <2>2. k \in 1 .. Len(t)
    BY <1>2
  <2>3. PICK i \in 1 .. Len(s) : i = Sorting(KeysOf(s, key))[k] /\ Place(KeysOf(s, key), i) = k
    BY <1>1, <2>1, PlaceOfSorted
  <2>4. PICK j \in 1 .. Len(t) : j = Sorting(KeysOf(t, key))[k] /\ Place(KeysOf(t, key), j) = k
    BY <1>1, <2>1, <2>2, PlaceOfSorted
  <2>5. IsFiniteSet(Lower(s, key, s[i])) /\ Cardinality(Lower(s, key, s[i])) + 1 = k
    BY <2>3, PlaceByLower
  <2>6. IsFiniteSet(Lower(t, key, t[j])) /\ Cardinality(Lower(t, key, t[j])) + 1 = k
    BY <2>4, PlaceByLower
  <2>7. PICK m \in 1 .. Len(s) : s[m] = t[j]
    BY DEF SameElements
  <2>8. Lower(t, key, t[j]) = Lower(s, key, s[m])
    BY <1>1, <1>3, <2>7
  <2> DEFINE A == Lower(s, key, s[i])
             B == Lower(s, key, s[m])
  <2>9. /\ IsFiniteSet(A) /\ IsFiniteSet(B) /\ Cardinality(A) = Cardinality(B)
    <3>1. Cardinality(A) \in Nat /\ Cardinality(B) \in Nat
      BY <2>5, <2>6, <2>8, FS_CardinalityType
    <3>2. QED
      BY <2>5, <2>6, <2>8, <3>1
  <2>10. i = m
    <3>1. key[s[i]] \in Int /\ key[s[m]] \in Int
      BY <1>1
    <3>2. CASE key[s[i]] < key[s[m]]
      <4>1. A \in SUBSET B /\ s[i] \in B /\ s[i] \notin A
        <5>1. ASSUME NEW a \in 1 .. Len(s), key[s[a]] < key[s[i]]
              PROVE  key[s[a]] < key[s[m]]
          <6>1. key[s[a]] \in Int
            BY <1>1
          <6>2. QED
            BY ONLY <3>1, <3>2, <5>1, <6>1
        <5>2. A \in SUBSET B
          <6>1. SUFFICES ASSUME NEW x \in A
                         PROVE  x \in B
            OBVIOUS
          <6>2. PICK a \in 1 .. Len(s) : key[s[a]] < key[s[i]] /\ x = s[a]
            BY DEF Lower
          <6>3. QED
            BY <5>1, <6>2 DEF Lower
        <5>3. s[i] \in B
          BY <3>2 DEF Lower
        <5>4. s[i] \notin A
          <6>1. SUFFICES ASSUME s[i] \in A
                         PROVE  FALSE
            OBVIOUS
          <6>2. PICK a \in 1 .. Len(s) : key[s[a]] < key[s[i]] /\ s[i] = s[a]
            BY <6>1 DEF Lower
          <6>3. QED
            BY <1>1, <6>2
        <5>5. QED
          BY <5>2, <5>3, <5>4
      <4> HIDE DEF A, B
      <4>2. A = B
        BY <2>9, <4>1, FS_Subset
      <4>3. QED
        BY <4>1, <4>2
    <3>3. CASE key[s[m]] < key[s[i]]
      <4>1. B \in SUBSET A /\ s[m] \in A /\ s[m] \notin B
        <5>1. ASSUME NEW a \in 1 .. Len(s), key[s[a]] < key[s[m]]
              PROVE  key[s[a]] < key[s[i]]
          <6>1. key[s[a]] \in Int
            BY <1>1
          <6>2. QED
            BY ONLY <3>1, <3>3, <5>1, <6>1
        <5>2. B \in SUBSET A
          <6>1. SUFFICES ASSUME NEW x \in B
                         PROVE  x \in A
            OBVIOUS
          <6>2. PICK a \in 1 .. Len(s) : key[s[a]] < key[s[m]] /\ x = s[a]
            BY DEF Lower
          <6>3. QED
            BY <5>1, <6>2 DEF Lower
        <5>3. s[m] \in A
          BY <3>3 DEF Lower
        <5>4. s[m] \notin B
          <6>1. SUFFICES ASSUME s[m] \in B
                         PROVE  FALSE
            OBVIOUS
          <6>2. PICK a \in 1 .. Len(s) : key[s[a]] < key[s[m]] /\ s[m] = s[a]
            BY <6>1 DEF Lower
          <6>3. QED
            BY <1>1, <6>2
        <5>5. QED
          BY <5>2, <5>3, <5>4
      <4> HIDE DEF A, B
      <4>2. A = B
        BY <2>9, <4>1, FS_Subset
      <4>3. QED
        BY <4>1, <4>2
    <3>4. CASE key[s[m]] = key[s[i]]
      BY <3>4 DEF Distinct
    <3>5. QED
      BY <3>1, <3>2, <3>3, <3>4
  <2>11. s[i] = t[j]
    BY <2>7, <2>10
  <2>12. SortedAs(s, key)[k] = s[i] /\ SortedAs(t, key)[k] = t[j]
    BY <2>2, <2>3, <2>4 DEF SortedAs
  <2>13. QED
    BY <2>11, <2>12
<1>5. SortedAs(s, key) = [k \in 1 .. Len(s) |-> SortedAs(s, key)[k]]
  BY DEF SortedAs
<1>6. SortedAs(t, key) = [k \in 1 .. Len(s) |-> SortedAs(t, key)[k]]
  BY <1>2 DEF SortedAs
<1>7. QED
  BY <1>2, <1>4, <1>5, <1>6

\* The places of the elements that are in a set.
Having(s, L) == {i \in 1 .. Len(s) : s[i] \in L}

\* What holds of as many elements of the one as of the other.
LEMMA CountAlike ==
  ASSUME NEW S, NEW s \in Seq(S), NEW t \in Seq(S), NEW key,
         Distinct(s, key), Distinct(t, key), SameElements(s, t), NEW L
  PROVE  Cardinality(Having(s, L)) = Cardinality(Having(t, L))
<1> DEFINE A == {i \in 1 .. Len(s) : s[i] \in L}
           B == {i \in 1 .. Len(t) : t[i] \in L}
           f == [i \in A |-> CHOOSE j \in 1 .. Len(t) : s[i] = t[j]]
<1>1. ASSUME NEW i \in A
      PROVE  f[i] \in B /\ s[i] = t[f[i]]
  <2>1. \E j \in 1 .. Len(t) : s[i] = t[j]
    BY DEF SameElements
  <2>2. f[i] = CHOOSE j \in 1 .. Len(t) : s[i] = t[j]
    OBVIOUS
  <2>3. s[i] \in L
    OBVIOUS
  <2> HIDE DEF f
  <2>4. f[i] \in 1 .. Len(t) /\ s[i] = t[f[i]]
    BY <2>1, <2>2
  <2>5. QED
    BY <2>3, <2>4
<1>2. f \in [A -> B]
  BY <1>1
<1>3. IsFiniteSet(A)
  <2>1. Len(s) \in Nat
    OBVIOUS
  <2>2. IsFiniteSet(1 .. Len(s)) /\ A \in SUBSET (1 .. Len(s))
    BY <2>1, FS_Interval
  <2> HIDE DEF A
  <2>3. QED
    BY <2>2, FS_Subset
<1>4. ASSUME NEW a \in A, NEW b \in A, f[a] = f[b]
      PROVE  a = b
  <2>1. s[a] = s[b] /\ a \in 1 .. Len(s) /\ b \in 1 .. Len(s)
    BY <1>1, <1>4
  <2>2. QED
    BY <2>1 DEF Distinct
<1>5. ASSUME NEW j \in B
      PROVE  \E i \in A : f[i] = j
  <2>1. PICK i \in 1 .. Len(s) : s[i] = t[j]
    BY DEF SameElements
  <2>2. i \in A /\ j \in 1 .. Len(t)
    BY <2>1
  <2>3. t[f[i]] = t[j] /\ f[i] \in 1 .. Len(t)
    BY <1>1, <2>1, <2>2
  <2>4. f[i] = j
    BY <2>2, <2>3 DEF Distinct
  <2>5. QED
    BY <2>2, <2>4
<1> HIDE DEF A, B, f
<1>6. /\ \A a, b \in A : f[a] = f[b] => a = b
      /\ \A j \in B : \E i \in A : f[i] = j
  BY <1>4, <1>5
<1>7. Cardinality(B) = Cardinality(A)
  BY ONLY <1>2, <1>3, <1>6, SameSize
<1>8. QED
  BY <1>7 DEF A, B, Having

\* Elements that are told apart are told apart among those that are kept.
LEMMA DistinctKept ==
  ASSUME NEW S, NEW s \in Seq(S), NEW key, Distinct(s, key), NEW A \in SUBSET (1 .. Len(s))
  PROVE  Distinct(ElementsAt(s, A), key)
<1> DEFINE m == Cardinality(A)
           e == ElementsAt(s, A)
<1>1. Len(s) \in Nat
  OBVIOUS
<1>2. /\ m \in Nat /\ \A k \in 1 .. m : Nth(A, k) \in A
      /\ \A k, l \in 1 .. m : k < l => Nth(A, k) < Nth(A, l)
  BY <1>1, PlacesInOrder
<1>3. \A k \in 1 .. m : e[k] = s[Nth(A, k)]
  BY DEF ElementsAt
<1>4. Len(e) = m
  <2>1. e = [k \in 1 .. m |-> s[Nth(A, k)]]
    BY DEF ElementsAt
  <2> HIDE DEF e, m
  <2>2. DOMAIN e = 1 .. m
    BY <2>1
  <2>3. e \in Seq(S)
    BY KeptInOrder DEF e
  <2>4. QED
    BY <1>2, <2>2, <2>3, LenProperties
<1> HIDE DEF e, m
<1>5. ASSUME NEW k \in 1 .. m, NEW l \in 1 .. m, key[e[k]] = key[e[l]]
      PROVE  k = l
  <2>1. key[s[Nth(A, k)]] = key[s[Nth(A, l)]]
    BY <1>3, <1>5
  <2>2. PICK a \in 1 .. Len(s), b \in 1 .. Len(s) : a = Nth(A, k) /\ b = Nth(A, l)
    BY <1>2
  <2>3. a = b
    BY <2>1, <2>2 DEF Distinct
  <2>4. ~ (a < b) /\ ~ (b < a)
    BY <2>3
  <2>5. ~ (k < l) /\ ~ (l < k)
    BY <1>2, <2>2, <2>4
  <2>6. QED
    BY <1>2, <2>5
<1>6. QED
  BY <1>4, <1>5 DEF Distinct, e

\* The same elements are kept, when the one keeps what the other keeps.
LEMMA SameKept ==
  ASSUME NEW S, NEW s \in Seq(S), NEW t \in Seq(S),
         NEW A \in SUBSET (1 .. Len(s)), NEW B \in SUBSET (1 .. Len(t)),
         \A i \in A : \E j \in B : s[i] = t[j], \A j \in B : \E i \in A : s[i] = t[j]
  PROVE  SameElements(ElementsAt(s, A), ElementsAt(t, B))
<1> DEFINE d == ElementsAt(s, A)
           e == ElementsAt(t, B)
<1>1. /\ \A k \in 1 .. Len(d) : \E i \in A : d[k] = s[i]
      /\ \A i \in A : \E k \in 1 .. Len(d) : d[k] = s[i]
  BY KeptInOrder
<1>2. /\ \A k \in 1 .. Len(e) : \E i \in B : e[k] = t[i]
      /\ \A i \in B : \E k \in 1 .. Len(e) : e[k] = t[i]
  BY KeptInOrder
<1> HIDE DEF d, e
<1>3. \A k \in 1 .. Len(d) : \E l \in 1 .. Len(e) : d[k] = e[l]
  BY <1>1, <1>2
<1>4. \A l \in 1 .. Len(e) : \E k \in 1 .. Len(d) : d[k] = e[l]
  BY <1>1, <1>2
<1>5. QED
  BY <1>3, <1>4 DEF SameElements, d, e

\* All elements are kept.
LEMMA AllKept ==
  ASSUME NEW S, NEW s \in Seq(S)
  PROVE  ElementsAt(s, 1 .. Len(s)) = s
<1> DEFINE n == Len(s)
<1>1. n \in Nat /\ s = [k \in 1 .. n |-> s[k]] /\ IsFiniteSet(1 .. n) /\ Cardinality(1 .. n) = n
  BY FS_Interval, LenProperties
<1>2. ASSUME NEW k \in 1 .. n
      PROVE  Nth(1 .. n, k) = k
  <2>1. ASSUME NEW i \in 1 .. n
        PROVE  Cardinality({j \in 1 .. n : j <= i}) = i
    <3>1. {j \in 1 .. n : j <= i} = 1 .. i
      BY <1>1
    <3>2. Cardinality(1 .. i) = i
      BY <1>1, FS_Interval
    <3>3. QED
      BY <3>1, <3>2
  <2>2. QED
    BY <2>1 DEF Nth
<1> HIDE DEF n
<1>3. ElementsAt(s, 1 .. n) = [k \in 1 .. n |-> s[k]]
  BY <1>1, <1>2 DEF ElementsAt
<1>4. QED
  BY <1>1, <1>3 DEF n

\* Two lists of the same elements, which a key tells apart.
Alike(s, t, S, key) ==
  /\ s \in Seq(S) /\ t \in Seq(S)
  /\ Distinct(s, key) /\ Distinct(t, key) /\ SameElements(s, t)

StartOf == [e \in EventPool |-> e.start]
TimeOf  == [d \in DeductionPool |-> d.at]

LEMMA ByStartAlike ==
  ASSUME EventPool \subseteq Event, NEW s, NEW t, Alike(s, t, EventPool, StartOf)
  PROVE  ByStart(s) = ByStart(t)
<1>1. StartOf \in [EventPool -> Int]
  BY DEF StartOf, Event
<1>2. SortedAs(s, StartOf) = SortedAs(t, StartOf)
  BY <1>1, SortedAlike DEF Alike
<1>3. ASSUME NEW u \in Seq(EventPool)
      PROVE  ByStart(u) = List(SortedAs(u, StartOf))
  <2>1. DOMAIN u = 1 .. Len(u) /\ \A i \in 1 .. Len(u) : u[i] \in EventPool
    BY LenProperties
  <2>2. KeysOf(u, StartOf) = [i \in DOMAIN u |-> u[i].start]
    BY <2>1 DEF KeysOf, StartOf
  <2>3. QED
    BY <2>1, <2>2 DEF ByStart, SortedBy, SortedAs
<1>4. QED
  BY <1>2, <1>3 DEF Alike

LEMMA ByTimeAlike ==
  ASSUME DeductionPool \subseteq Deduction, NEW s, NEW t, Alike(s, t, DeductionPool, TimeOf)
  PROVE  ByTime(s) = ByTime(t)
<1>1. TimeOf \in [DeductionPool -> Int]
  BY DEF TimeOf, Deduction
<1>2. SortedAs(s, TimeOf) = SortedAs(t, TimeOf)
  BY <1>1, SortedAlike DEF Alike
<1>3. ASSUME NEW u \in Seq(DeductionPool)
      PROVE  ByTime(u) = List(SortedAs(u, TimeOf))
  <2>1. DOMAIN u = 1 .. Len(u) /\ \A i \in 1 .. Len(u) : u[i] \in DeductionPool
    BY LenProperties
  <2>2. KeysOf(u, TimeOf) = [i \in DOMAIN u |-> u[i].at]
    BY <2>1 DEF KeysOf, TimeOf
  <2>3. QED
    BY <2>1, <2>2 DEF ByTime, SortedBy, SortedAs
<1>4. QED
  BY <1>2, <1>3 DEF Alike

\* calculate(), of the same events and deductions in another order.
LEMMA CalculateAlike ==
  ASSUME EventPool \subseteq Event, DeductionPool \subseteq Deduction, NEW r, NEW ev,
         NEW s, NEW t, Alike(s, t, EventPool, StartOf),
         NEW d, NEW e, Alike(d, e, DeductionPool, TimeOf)
  PROVE  Calculate(r, s, d, ev) = Calculate(r, t, e, ev)
<1>1. TechnicalPoints(r, s) = TechnicalPoints(r, t)
  <2>1. LineItems(r, s) = LineItems(r, t)
    BY ByStartAlike DEF LineItems
  <2>2. QED
    BY <2>1 DEF TechnicalPoints, SumOver
<1>2. DeductionPoints(r, d) = DeductionPoints(r, e)
  <2>1. Penalties(r, d) = Penalties(r, e)
    BY ByTimeAlike DEF Penalties
  <2>2. QED
    BY <2>1 DEF DeductionPoints, SumOver
<1>3. Cardinality({i \in DOMAIN s : s[i].low}) = Cardinality({i \in DOMAIN t : t[i].low})
  <2> DEFINE L == {x \in EventPool : x.low}
             A == {i \in DOMAIN s : s[i].low}
             B == {i \in DOMAIN t : t[i].low}
  <2>1. ASSUME NEW u \in Seq(EventPool)
        PROVE  {i \in DOMAIN u : u[i].low} = Having(u, L)
    BY LenProperties DEF Having
  <2>2. s \in Seq(EventPool) /\ t \in Seq(EventPool)
    BY DEF Alike
  <2>3. A = Having(s, L) /\ B = Having(t, L)
    BY <2>1, <2>2
  <2> HIDE DEF L, A, B
  <2>4. Distinct(s, StartOf) /\ Distinct(t, StartOf) /\ SameElements(s, t)
    BY DEF Alike
  <2>5. Cardinality(Having(s, L)) = Cardinality(Having(t, L))
    BY ONLY <2>2, <2>4, CountAlike
  <2>6. Cardinality(A) = Cardinality(B)
    BY ONLY <2>3, <2>5
  <2>7. QED
    BY <2>6 DEF A, B
<1>4. Cardinality({i \in DOMAIN d : d[i].low}) = Cardinality({i \in DOMAIN e : e[i].low})
  <2> DEFINE L == {x \in DeductionPool : x.low}
             A == {i \in DOMAIN d : d[i].low}
             B == {i \in DOMAIN e : e[i].low}
  <2>1. ASSUME NEW u \in Seq(DeductionPool)
        PROVE  {i \in DOMAIN u : u[i].low} = Having(u, L)
    BY LenProperties DEF Having
  <2>2. d \in Seq(DeductionPool) /\ e \in Seq(DeductionPool)
    BY DEF Alike
  <2>3. A = Having(d, L) /\ B = Having(e, L)
    BY <2>1, <2>2
  <2> HIDE DEF L, A, B
  <2>4. Distinct(d, TimeOf) /\ Distinct(e, TimeOf) /\ SameElements(d, e)
    BY DEF Alike
  <2>5. Cardinality(Having(d, L)) = Cardinality(Having(e, L))
    BY ONLY <2>2, <2>4, CountAlike
  <2>6. Cardinality(A) = Cardinality(B)
    BY ONLY <2>3, <2>5
  <2>7. QED
    BY <2>6 DEF A, B
<1>5. QED
  BY <1>1, <1>2, <1>3, <1>4 DEF Calculate

\* What is cut from two such lists by what holds of an element.
LEMMA CutAlike ==
  ASSUME NEW S, NEW key, NEW s, NEW t, Alike(s, t, S, key), NEW L
  PROVE  Alike(ElementsAt(s, Having(s, L)), ElementsAt(t, Having(t, L)), S, key)
<1> DEFINE A == {i \in 1 .. Len(s) : s[i] \in L}
           B == {i \in 1 .. Len(t) : t[i] \in L}
<1>1. /\ s \in Seq(S) /\ t \in Seq(S)
      /\ Distinct(s, key) /\ Distinct(t, key) /\ SameElements(s, t)
  BY DEF Alike
<1>2. A \in SUBSET (1 .. Len(s)) /\ B \in SUBSET (1 .. Len(t))
  OBVIOUS
<1>3. \A i \in A : \E j \in B : s[i] = t[j]
  BY <1>1 DEF SameElements
<1>4. \A j \in B : \E i \in A : s[i] = t[j]
  BY <1>1 DEF SameElements
<1> HIDE DEF A, B
<1>5. SameElements(ElementsAt(s, A), ElementsAt(t, B))
  BY ONLY <1>1, <1>2, <1>3, <1>4, SameKept
<1>6. Distinct(ElementsAt(s, A), key) /\ Distinct(ElementsAt(t, B), key)
  BY ONLY <1>1, <1>2, DistinctKept
<1>7. ElementsAt(s, A) \in Seq(S) /\ ElementsAt(t, B) \in Seq(S)
  BY ONLY <1>1, <1>2, KeptInOrder
<1>8. QED
  BY <1>5, <1>6, <1>7 DEF Alike, A, B, Having

\* What is kept of a table and of the table read backwards.
LEMMA ReversedAlike ==
  ASSUME NEW pool, NEW table \in Seq(Reviewed(pool)), NEW key, Distinct(Rows(table), key),
         NEW A \in SUBSET (1 .. Len(table)), NEW B \in SUBSET (1 .. Len(table)),
         \A i \in 1 .. Len(table) : i \in A <=> Len(table) - i + 1 \in B
  PROVE  Alike(ElementsAt(Rows(table), A), ElementsAt(Rows(Reverse(table)), B), pool, key)
<1> DEFINE n == Len(table)
           back == Reverse(table)
           s == Rows(table)
           t == Rows(back)
<1>1. n \in Nat /\ DOMAIN table = 1 .. n /\ \A i \in 1 .. n : table[i] \in Reviewed(pool)
  BY LenProperties
<1>2. \A i \in 1 .. n : n - i + 1 \in 1 .. n /\ n - (n - i + 1) + 1 = i
  BY <1>1
<1>3. back = [i \in 1 .. n |-> table[n - i + 1]]
  BY <1>1 DEF Reverse
<1>4. back \in Seq(Reviewed(pool)) /\ Len(back) = n
  <2> HIDE DEF back
  <2>1. back \in [1 .. n -> Reviewed(pool)]
    BY <1>1, <1>2, <1>3
  <2>2. QED
    BY <1>1, <2>1
<1>5. s \in Seq(pool) /\ Len(s) = n /\ t \in Seq(pool) /\ Len(t) = n
  <2>1. {} \in SUBSET (DOMAIN table) /\ {} \in SUBSET (DOMAIN back)
    OBVIOUS
  <2> HIDE DEF back
  <2>2. QED
    BY <1>4, <2>1, ScoredAreRows
<1>6. \A i \in 1 .. n : s[i] = table[i].row
  BY <1>1 DEF Rows
<1>7. \A i \in 1 .. n : t[i] = s[n - i + 1]
  <2> HIDE DEF back
  <2>1. DOMAIN back = 1 .. n
    BY <1>3
  <2>2. \A i \in 1 .. n : t[i] = back[i].row
    BY <2>1 DEF Rows
  <2>3. \A i \in 1 .. n : back[i] = table[n - i + 1]
    BY <1>3
  <2> HIDE DEF s, t
  <2>4. QED
    BY <1>2, <1>6, <2>2, <2>3
<1> HIDE DEF n, s, t, back
<1>8. Distinct(s, key)
  BY DEF s
<1>9. Distinct(t, key)
  <2>1. SUFFICES ASSUME NEW i \in 1 .. n, NEW j \in 1 .. n, key[t[i]] = key[t[j]]
                 PROVE  i = j
    BY <1>5 DEF Distinct
  <2>2. PICK a \in 1 .. n, b \in 1 .. n : a = n - i + 1 /\ b = n - j + 1
    BY <1>2
  <2>3. key[s[a]] = key[s[b]]
    BY <1>7, <2>1, <2>2
  <2>4. a = b
    BY <1>5, <1>8, <2>3 DEF Distinct
  <2>5. QED
    BY <1>1, <2>2, <2>4
<1>10. A \in SUBSET (1 .. Len(s)) /\ B \in SUBSET (1 .. Len(t))
  BY <1>5 DEF n
<1>11. ASSUME NEW i \in A
       PROVE  \E j \in B : s[i] = t[j]
  <2>1. i \in 1 .. n
    BY <1>5, <1>10
  <2>2. PICK j \in 1 .. n : j = n - i + 1
    BY <1>2, <2>1
  <2>3. j \in B
    BY <2>1, <2>2 DEF n
  <2>4. n - j + 1 = i
    BY <1>2, <2>1, <2>2
  <2>5. t[j] = s[i]
    BY <1>7, <2>4
  <2>6. QED
    BY <2>3, <2>5
<1>12. ASSUME NEW j \in B
       PROVE  \E i \in A : s[i] = t[j]
  <2>1. j \in 1 .. n
    BY <1>5, <1>10
  <2>2. PICK i \in 1 .. n : i = n - j + 1
    BY <1>2, <2>1
  <2>3. n - i + 1 = j
    BY <1>2, <2>1, <2>2
  <2>4. i \in A
    BY <2>3 DEF n
  <2>5. t[j] = s[i]
    BY <1>7, <2>1, <2>2
  <2>6. QED
    BY <2>4, <2>5
<1>13. SameElements(ElementsAt(s, A), ElementsAt(t, B))
  <2>1. (\A i \in A : \E j \in B : s[i] = t[j]) /\ \A j \in B : \E i \in A : s[i] = t[j]
    BY <1>11, <1>12
  <2>2. QED
    BY ONLY <1>5, <1>10, <2>1, SameKept
<1>14. Distinct(ElementsAt(s, A), key) /\ Distinct(ElementsAt(t, B), key)
  BY ONLY <1>5, <1>8, <1>9, <1>10, DistinctKept
<1>15. ElementsAt(s, A) \in Seq(pool) /\ ElementsAt(t, B) \in Seq(pool)
  BY ONLY <1>5, <1>10, KeptInOrder
<1>16. QED
  BY <1>13, <1>14, <1>15 DEF Alike, s, t, back

\* As many keys as rows: the keys tell the rows apart.
LEMMA TellApart ==
  ASSUME NEW pool, NEW table \in Seq(Reviewed(pool)), NEW key,
         Cardinality({key[table[i].row] : i \in DOMAIN table}) = Len(table)
  PROVE  Distinct(Rows(table), key)
<1> DEFINE n == Len(table)
           T == {key[table[i].row] : i \in DOMAIN table}
           f == [i \in 1 .. n |-> key[table[i].row]]
<1>1. n \in Nat /\ DOMAIN table = 1 .. n
  BY LenProperties
<1>2. f \in [1 .. n -> T] /\ \A x \in T : \E i \in 1 .. n : f[i] = x
  BY <1>1
<1>3. IsFiniteSet(1 .. n) /\ Cardinality(1 .. n) = n
  BY <1>1, SizeUpto
<1>4. \A i \in 1 .. n : f[i] = key[table[i].row]
  OBVIOUS
<1>5. Cardinality(T) = n
  OBVIOUS
<1> HIDE DEF f, T
<1>6. f \in Surjection(1 .. n, T)
  BY <1>2, Fun_IsSurj
<1>7. f \in Injection(1 .. n, T)
  <2>1. Cardinality(T) = Cardinality(1 .. n)
    BY <1>3, <1>5
  <2>2. QED
    BY ONLY <1>3, <1>6, <2>1, FS_Surjection
<1>8. \A i, j \in 1 .. n : f[i] = f[j] => i = j
  BY ONLY <1>7 DEF Injection, IsInjective
<1>9. Len(Rows(table)) = n
  <2>1. {} \in SUBSET (DOMAIN table)
    OBVIOUS
  <2>2. QED
    BY <2>1, ScoredAreRows
<1>10. \A i \in 1 .. n : Rows(table)[i] = table[i].row
  BY <1>1 DEF Rows
<1>11. ASSUME NEW i \in 1 .. n, NEW j \in 1 .. n, key[Rows(table)[i]] = key[Rows(table)[j]]
       PROVE  i = j
  BY <1>4, <1>8, <1>10, <1>11
<1>12. QED
  BY <1>9, <1>11 DEF Distinct

\* Reading a table backwards.
LEMMA Backwards ==
  ASSUME NEW S, NEW table \in Seq(S)
  PROVE  /\ Reverse(table) \in Seq(S) /\ Len(table) \in Nat
         /\ DOMAIN table = 1 .. Len(table) /\ DOMAIN Reverse(table) = 1 .. Len(table)
         /\ \A i \in 1 .. Len(table) : /\ Len(table) - i + 1 \in 1 .. Len(table)
                                       /\ Reverse(table)[Len(table) - i + 1] = table[i]
<1> DEFINE n == Len(table)
           back == Reverse(table)
<1>1. n \in Nat /\ DOMAIN table = 1 .. n /\ \A i \in 1 .. n : table[i] \in S
  BY LenProperties
<1>2. \A i \in 1 .. n : n - i + 1 \in 1 .. n /\ n - (n - i + 1) + 1 = i
  BY <1>1
<1>3. back = [i \in 1 .. n |-> table[n - i + 1]]
  BY <1>1 DEF Reverse
<1> HIDE DEF back, n
<1>4. back \in [1 .. n -> S] /\ DOMAIN back = 1 .. n
  BY <1>1, <1>2, <1>3
<1>5. ASSUME NEW i \in 1 .. n
      PROVE  back[n - i + 1] = table[i]
  <2>1. PICK j \in 1 .. n : j = n - i + 1
    BY <1>2
  <2>2. back[j] = table[n - j + 1]
    BY <1>3
  <2>3. QED
    BY <1>2, <2>1, <2>2
<1>6. back \in Seq(S)
  BY <1>1, <1>4
<1>7. QED
  BY <1>1, <1>2, <1>4, <1>5, <1>6 DEF back, n

LEMMA EventsAlike ==
  ASSUME NEW table \in Seq(Reviewed(EventPool)), Distinct(Rows(table), StartOf)
  PROVE  Alike(ScoredEvents(table), ScoredEvents(Reverse(table)), EventPool, StartOf)
<1> DEFINE Counts(x) == /\ x.status # "rejected"
                        /\ x.row.start >= Routine[1]
                        /\ x.row.end <= Routine[2]
           back == Reverse(table)
           A == {i \in DOMAIN table : Counts(table[i])}
           B == {i \in DOMAIN back : Counts(back[i])}
<1>1. /\ back \in Seq(Reviewed(EventPool)) /\ Len(table) \in Nat
      /\ DOMAIN table = 1 .. Len(table) /\ DOMAIN back = 1 .. Len(table)
      /\ \A i \in 1 .. Len(table) : /\ Len(table) - i + 1 \in 1 .. Len(table)
                                    /\ back[Len(table) - i + 1] = table[i]
  BY Backwards
<1>2. /\ ScoredEvents(table) = List(ElementsAt(Rows(table), A))
      /\ ScoredEvents(back) = List(ElementsAt(Rows(back), B))
  BY DEF ScoredEvents
<1>3. A \in SUBSET (DOMAIN table) /\ B \in SUBSET (DOMAIN back)
  OBVIOUS
<1> HIDE DEF back, Counts
<1>4. \A i \in 1 .. Len(table) : i \in A <=> Len(table) - i + 1 \in B
  BY <1>1
<1> HIDE DEF A, B
<1>5. List(ElementsAt(Rows(table), A)) = ElementsAt(Rows(table), A)
  BY ONLY <1>3, table \in Seq(Reviewed(EventPool)), ScoredAreRows
<1>6. List(ElementsAt(Rows(back), B)) = ElementsAt(Rows(back), B)
  BY ONLY <1>1, <1>3, ScoredAreRows
<1>7. A \in SUBSET (1 .. Len(table)) /\ B \in SUBSET (1 .. Len(table))
  BY <1>1, <1>3
<1>8. Alike(ElementsAt(Rows(table), A), ElementsAt(Rows(back), B), EventPool, StartOf)
  BY <1>4, <1>7, ReversedAlike DEF back
<1>9. QED
  BY <1>2, <1>5, <1>6, <1>8 DEF back

LEMMA DeductionsAlike ==
  ASSUME NEW table \in Seq(Reviewed(DeductionPool)), Distinct(Rows(table), TimeOf)
  PROVE  Alike(ScoredDeductions(table), ScoredDeductions(Reverse(table)), DeductionPool, TimeOf)
<1> DEFINE Counts(x) == Scorable(ruleset, x) /\ x.row.at \in Routine[1] .. Routine[2]
           back == Reverse(table)
           A == {i \in DOMAIN table : Counts(table[i])}
           B == {i \in DOMAIN back : Counts(back[i])}
<1>1. /\ back \in Seq(Reviewed(DeductionPool)) /\ Len(table) \in Nat
      /\ DOMAIN table = 1 .. Len(table) /\ DOMAIN back = 1 .. Len(table)
      /\ \A i \in 1 .. Len(table) : /\ Len(table) - i + 1 \in 1 .. Len(table)
                                    /\ back[Len(table) - i + 1] = table[i]
  BY Backwards
<1>2. /\ ScoredDeductions(table) = List(ElementsAt(Rows(table), A))
      /\ ScoredDeductions(back) = List(ElementsAt(Rows(back), B))
  BY DEF ScoredDeductions
<1>3. A \in SUBSET (DOMAIN table) /\ B \in SUBSET (DOMAIN back)
  OBVIOUS
<1> HIDE DEF back, Counts
<1>4. \A i \in 1 .. Len(table) : i \in A <=> Len(table) - i + 1 \in B
  BY <1>1
<1> HIDE DEF A, B
<1>5. List(ElementsAt(Rows(table), A)) = ElementsAt(Rows(table), A)
  BY ONLY <1>3, table \in Seq(Reviewed(DeductionPool)), ScoredAreRows
<1>6. List(ElementsAt(Rows(back), B)) = ElementsAt(Rows(back), B)
  BY ONLY <1>1, <1>3, ScoredAreRows
<1>7. A \in SUBSET (1 .. Len(table)) /\ B \in SUBSET (1 .. Len(table))
  BY <1>1, <1>3
<1>8. Alike(ElementsAt(Rows(table), A), ElementsAt(Rows(back), B), DeductionPool, TimeOf)
  BY <1>4, <1>7, ReversedAlike DEF back
<1>9. QED
  BY <1>2, <1>5, <1>6, <1>8 DEF back

\* All that is scored is completed by the end of the routine.
LEMMA AllCompleted ==
  /\ \A table \in Seq(Reviewed(EventPool)) :
       \A i \in 1 .. Len(ScoredEvents(table)) : ScoredEvents(table)[i].end <= Routine[2]
  /\ \A table \in Seq(Reviewed(DeductionPool)) :
       \A i \in 1 .. Len(ScoredDeductions(table)) : ScoredDeductions(table)[i].at <= Routine[2]
<1>1. ASSUME NEW table \in Seq(Reviewed(EventPool)), NEW i \in 1 .. Len(ScoredEvents(table))
      PROVE  ScoredEvents(table)[i].end <= Routine[2]
  <2> DEFINE A == {k \in DOMAIN table : /\ table[k].status # "rejected"
                                        /\ table[k].row.start >= Routine[1]
                                        /\ table[k].row.end <= Routine[2]}
             s == Rows(table)
  <2>1. A \in SUBSET (DOMAIN table) /\ \A k \in A : table[k].row.end <= Routine[2]
    OBVIOUS
  <2>2. ScoredEvents(table) = List(ElementsAt(s, A))
    BY DEF ScoredEvents
  <2> HIDE DEF A
  <2>3. s \in Seq(EventPool) /\ Len(s) = Len(table) /\ List(ElementsAt(s, A)) = ElementsAt(s, A)
    BY <2>1, ScoredAreRows
  <2>4. \A k \in A : s[k] = table[k].row
    BY <2>1 DEF Rows
  <2>5. A \in SUBSET (1 .. Len(s))
    BY <2>1, <2>3, LenProperties
  <2> HIDE DEF s
  <2>6. \A k \in 1 .. Len(ElementsAt(s, A)) : \E j \in A : ElementsAt(s, A)[k] = s[j]
    BY ONLY <2>3, <2>5, KeptInOrder
  <2>7. PICK j \in A : ElementsAt(s, A)[i] = s[j]
    BY <2>2, <2>3, <2>6
  <2>8. QED
    BY <2>1, <2>2, <2>3, <2>4, <2>7
<1>2. ASSUME NEW table \in Seq(Reviewed(DeductionPool)), NEW i \in 1 .. Len(ScoredDeductions(table))
      PROVE  ScoredDeductions(table)[i].at <= Routine[2]
  <2> DEFINE A == {k \in DOMAIN table : /\ Scorable(ruleset, table[k])
                                        /\ table[k].row.at \in Routine[1] .. Routine[2]}
             s == Rows(table)
  <2>1. A \in SUBSET (DOMAIN table) /\ \A k \in A : table[k].row.at \in Routine[1] .. Routine[2]
    OBVIOUS
  <2>2. ScoredDeductions(table) = List(ElementsAt(s, A))
    BY DEF ScoredDeductions
  <2> HIDE DEF A
  <2>3. s \in Seq(DeductionPool) /\ Len(s) = Len(table) /\ List(ElementsAt(s, A)) = ElementsAt(s, A)
    BY <2>1, ScoredAreRows
  <2>4. \A k \in A : s[k] = table[k].row
    BY <2>1 DEF Rows
  <2>5. A \in SUBSET (1 .. Len(s))
    BY <2>1, <2>3, LenProperties
  <2> HIDE DEF s
  <2>6. \A k \in 1 .. Len(ElementsAt(s, A)) : \E j \in A : ElementsAt(s, A)[k] = s[j]
    BY ONLY <2>3, <2>5, KeptInOrder
  <2>7. PICK j \in A : ElementsAt(s, A)[i] = s[j]
    BY <2>2, <2>3, <2>6
  <2>8. QED
    BY <2>1, <2>2, <2>3, <2>4, <2>7
<1>3. QED
  BY <1>1, <1>2

\* When no two events start together and no two deductions are at one time,
\* neither the score nor a preview depends on the order the rows are read in,
\* and at the end of the routine the preview is the score (recompute_score,
\* score_preview_at_ms), for any number of rows.
THEOREM OrderDoesNotMatter ==
  ASSUME EventPool \subseteq Event, DeductionPool \subseteq Deduction
  PROVE  Spec => []OrderIsNoMatter
<1>1. ASSUME ScoringInv, NoTies
      PROVE  /\ Score(events, deductions) = Score(Reverse(events), Reverse(deductions))
             /\ \A t \in 0 .. Duration :
                  Preview(t, events, deductions) = Preview(t, Reverse(events), Reverse(deductions))
             /\ Preview(Routine[2], events, deductions) = Score(events, deductions)
  <2> DEFINE es == ScoredEvents(events)
             es2 == ScoredEvents(Reverse(events))
             ds == ScoredDeductions(deductions)
             ds2 == ScoredDeductions(Reverse(deductions))
  <2>1. events \in Seq(Reviewed(EventPool)) /\ deductions \in Seq(Reviewed(DeductionPool))
    BY <1>1 DEF ScoringInv
  <2>2. Alike(es, es2, EventPool, StartOf)
    <3>1. \A i \in DOMAIN events : events[i].row \in EventPool
      BY <2>1, LenProperties DEF Reviewed
    <3>2. {StartOf[events[i].row] : i \in DOMAIN events} = {events[i].row.start : i \in DOMAIN events}
      BY <3>1 DEF StartOf
    <3>3. Cardinality({StartOf[events[i].row] : i \in DOMAIN events}) = Len(events)
      BY <1>1, <3>2 DEF NoTies
    <3>4. Distinct(Rows(events), StartOf)
      BY <2>1, <3>3, TellApart
    <3>5. QED
      BY <2>1, <3>4, EventsAlike
  <2>3. Alike(ds, ds2, DeductionPool, TimeOf)
    <3>1. \A i \in DOMAIN deductions : deductions[i].row \in DeductionPool
      BY <2>1, LenProperties DEF Reviewed
    <3>2. {TimeOf[deductions[i].row] : i \in DOMAIN deductions}
            = {deductions[i].row.at : i \in DOMAIN deductions}
      BY <3>1 DEF TimeOf
    <3>3. Cardinality({TimeOf[deductions[i].row] : i \in DOMAIN deductions}) = Len(deductions)
      BY <1>1, <3>2 DEF NoTies
    <3>4. Distinct(Rows(deductions), TimeOf)
      BY <2>1, <3>3, TellApart
    <3>5. QED
      BY <2>1, <3>4, DeductionsAlike
  <2>4. /\ \A i \in 1 .. Len(es) : es[i].end <= Routine[2]
        /\ \A i \in 1 .. Len(ds) : ds[i].at <= Routine[2]
    BY <2>1, AllCompleted
  <2>5. /\ Score(events, deductions) = Calculate(ruleset, es, ds, evaluation)
        /\ Score(Reverse(events), Reverse(deductions)) = Calculate(ruleset, es2, ds2, evaluation)
    BY DEF Score
  <2> HIDE DEF es, es2, ds, ds2
  <2>7. /\ es \in Seq(EventPool) /\ es2 \in Seq(EventPool)
        /\ ds \in Seq(DeductionPool) /\ ds2 \in Seq(DeductionPool)
    BY <2>2, <2>3 DEF Alike
  <2>8. Score(events, deductions) = Score(Reverse(events), Reverse(deductions))
    BY <2>2, <2>3, <2>5, CalculateAlike
  <2>9. ASSUME NEW t \in 0 .. Duration
        PROVE  Preview(t, events, deductions) = Preview(t, Reverse(events), Reverse(deductions))
    <3> DEFINE L == {x \in EventPool : x.end <= t}
               M == {x \in DeductionPool : x.at <= t}
    <3>1. /\ {i \in DOMAIN es : es[i].end <= t} = Having(es, L)
          /\ {i \in DOMAIN es2 : es2[i].end <= t} = Having(es2, L)
      BY <2>7, LenProperties DEF Having
    <3>2. /\ {i \in DOMAIN ds : ds[i].at <= t} = Having(ds, M)
          /\ {i \in DOMAIN ds2 : ds2[i].at <= t} = Having(ds2, M)
      BY <2>7, LenProperties DEF Having
    <3> HIDE DEF L, M
    <3>3. Alike(ElementsAt(es, Having(es, L)),
                ElementsAt(es2, Having(es2, L)), EventPool, StartOf)
      BY <2>2, CutAlike
    <3>4. Alike(ElementsAt(ds, Having(ds, M)),
                ElementsAt(ds2, Having(ds2, M)), DeductionPool, TimeOf)
      BY <2>3, CutAlike
    <3>5. Preview(t, events, deductions)
            = Calculate(ruleset, ElementsAt(es, Having(es, L)), ElementsAt(ds, Having(ds, M)), evaluation)
      BY <3>1, <3>2 DEF Preview, es, ds
    <3>6. Preview(t, Reverse(events), Reverse(deductions))
            = Calculate(ruleset, ElementsAt(es2, Having(es2, L)), ElementsAt(ds2, Having(ds2, M)), evaluation)
      BY <3>1, <3>2 DEF Preview, es2, ds2
    <3>7. QED
      BY <3>3, <3>4, <3>5, <3>6, CalculateAlike
  <2>10. Preview(Routine[2], events, deductions) = Score(events, deductions)
    <3> DEFINE t == Routine[2]
    <3>1. DOMAIN es = 1 .. Len(es) /\ DOMAIN ds = 1 .. Len(ds)
      BY <2>7, LenProperties
    <3>2. /\ {i \in DOMAIN es : es[i].end <= t} = 1 .. Len(es)
          /\ {i \in DOMAIN ds : ds[i].at <= t} = 1 .. Len(ds)
      BY <2>4, <3>1
    <3>3. ElementsAt(es, 1 .. Len(es)) = es /\ ElementsAt(ds, 1 .. Len(ds)) = ds
      BY <2>7, AllKept
    <3> HIDE DEF t
    <3>4. Preview(t, events, deductions) = Calculate(ruleset, es, ds, evaluation)
      BY <3>2, <3>3 DEF Preview, es, ds
    <3>5. QED
      BY <2>5, <3>4 DEF t
  <2>11. QED
    BY <2>8, <2>9, <2>10
<1>2. ScoringInv => OrderIsNoMatter
  BY <1>1 DEF OrderIsNoMatter
<1>3. QED
  BY <1>2, ScoringInvariant, PTL

-----------------------------------------------------------------------------
(* Keeping some of what was kept.                                          *)

\* The k-th place has k places up to it, and is the only one that has.
LEMMA NthCounts ==
  ASSUME NEW n \in Nat, NEW places \in SUBSET (1 .. n)
  PROVE  \A k \in 1 .. Cardinality(places) :
           /\ Nth(places, k) \in places
           /\ Cardinality({j \in places : j <= Nth(places, k)}) = k
<1> DEFINE Below(i) == {j \in places : j <= i}
           c == Cardinality(places)
<1>1. IsFiniteSet(places) /\ c \in Nat
  BY PlacesInOrder
<1>2. \A k, l \in 1 .. c : k < l => Nth(places, k) < Nth(places, l)
  BY PlacesInOrder
<1>3. /\ \A k \in 1 .. c : Nth(places, k) \in places
      /\ \A i \in places : \E k \in 1 .. c : Nth(places, k) = i
  BY PlacesInOrder
<1> HIDE DEF c
<1>4. ASSUME NEW k \in 1 .. c
      PROVE  Cardinality(Below(Nth(places, k))) = k
  <2> DEFINE f == [l \in 1 .. k |-> Nth(places, l)]
             B == Below(Nth(places, k))
  <2>1. k \in Nat /\ 1 .. k \subseteq 1 .. c
    BY <1>1
  <2>2. ASSUME NEW l \in 1 .. k
        PROVE  f[l] \in B
    <3>1. l \in 1 .. c /\ (l < k \/ l = k)
      BY <2>1
    <3>2. PICK a \in places, b \in places : a = Nth(places, l) /\ b = Nth(places, k)
      BY <1>3, <3>1
    <3>3. a <= b
      BY <1>2, <3>1, <3>2
    <3>4. QED
      BY <3>2, <3>3
  <2>3. ASSUME NEW i \in B
        PROVE  \E l \in 1 .. k : f[l] = i
    <3>1. PICK l \in 1 .. c : Nth(places, l) = i
      BY <1>3
    <3>2. PICK b \in places : b = Nth(places, k)
      BY <1>3
    <3>3. i \in Int /\ b \in Int /\ i <= b
      BY <3>2
    <3>4. ~ (k < l)
      BY <1>2, <3>1, <3>2, <3>3
    <3>5. l \in 1 .. k
      BY <1>1, <3>4
    <3>6. QED
      BY <3>1, <3>5
  <2>4. \A l \in 1 .. k : f[l] = Nth(places, l)
    OBVIOUS
  <2>5. f \in [1 .. k -> B]
    BY <2>2
  <2> HIDE DEF f, B
  <2>6. ASSUME NEW a \in 1 .. k, NEW b \in 1 .. k, f[a] = f[b]
        PROVE  a = b
    <3>1. a \in 1 .. c /\ b \in 1 .. c
      BY <2>1
    <3>2. PICK x \in places, y \in places : x = Nth(places, a) /\ y = Nth(places, b)
      BY <1>3, <3>1
    <3>3. x = y /\ x \in Int
      BY <2>4, <2>6, <3>2
    <3>4. (a < b => x < y) /\ (b < a => y < x)
      BY <1>2, <3>1, <3>2
    <3>5. QED
      BY <3>3, <3>4
  <2>7. (\A a, b \in 1 .. k : f[a] = f[b] => a = b) /\ \A i \in B : \E l \in 1 .. k : f[l] = i
    BY <2>3, <2>6
  <2>8. IsFiniteSet(1 .. k) /\ Cardinality(1 .. k) = k
    BY <2>1, FS_Interval
  <2>9. Cardinality(B) = Cardinality(1 .. k)
    BY ONLY <2>5, <2>7, <2>8, SameSize
  <2>10. QED
    BY <2>8, <2>9 DEF B
<1>5. QED
  BY <1>3, <1>4 DEF c

LEMMA NthIsThat ==
  ASSUME NEW n \in Nat, NEW places \in SUBSET (1 .. n), NEW i \in places, NEW k,
         Cardinality({j \in places : j <= i}) = k
  PROVE  Nth(places, k) = i
<1>1. PICK l \in 1 .. Cardinality(places) : Nth(places, l) = i
  BY PlacesInOrder
<1>2. Cardinality({j \in places : j <= Nth(places, l)}) = l
  BY NthCounts
<1>3. l = k
  BY <1>1, <1>2
<1>4. QED
  BY <1>1, <1>3

\* What is kept of what was kept is what meets both conditions.
LEMMA KeptOfKept ==
  ASSUME NEW S, NEW s \in Seq(S), NEW P \in SUBSET (1 .. Len(s)), NEW Q \in SUBSET P,
         NEW R \in SUBSET (1 .. Cardinality(P)),
         \A k \in 1 .. Cardinality(P) : k \in R <=> Nth(P, k) \in Q
  PROVE  ElementsAt(ElementsAt(s, P), R) = ElementsAt(s, Q)
<1> DEFINE p == Cardinality(P)
<1>1. Len(s) \in Nat
  OBVIOUS
<1>2. /\ p \in Nat /\ IsFiniteSet(P) /\ \A k \in 1 .. p : Nth(P, k) \in P
      /\ \A k, l \in 1 .. p : k < l => Nth(P, k) < Nth(P, l)
      /\ \A i \in P : \E k \in 1 .. p : Nth(P, k) = i
  BY <1>1, PlacesInOrder
<1>3. P \in SUBSET Int /\ Q \in SUBSET Int /\ Q \in SUBSET (1 .. Len(s))
  OBVIOUS
<1> HIDE DEF p
<1>4. \A k \in 1 .. p : Nth(P, k) \in Int
  BY <1>2, <1>3
<1>5. \A k, l \in 1 .. p : Nth(P, k) <= Nth(P, l) <=> k <= l
  <2>1. SUFFICES ASSUME NEW k \in 1 .. p, NEW l \in 1 .. p
                 PROVE  Nth(P, k) <= Nth(P, l) <=> k <= l
    OBVIOUS
  <2>2. PICK a \in Int, b \in Int : a = Nth(P, k) /\ b = Nth(P, l)
    BY <1>4
  <2>3. (k < l => a < b) /\ (l < k => b < a) /\ (k = l => a = b)
    BY <1>2, <2>2
  <2>4. a <= b <=> k <= l
    BY <1>2, <2>3
  <2>5. QED
    BY <2>2, <2>4
\* The places of R and those of Q correspond, and are counted alike.
<1>6. ASSUME NEW k \in 1 .. p
      PROVE  Cardinality({l \in R : l <= k}) = Cardinality({i \in Q : i <= Nth(P, k)})
  <2> DEFINE A == {l \in R : l <= k}
             B == {i \in Q : i <= Nth(P, k)}
             f == [l \in A |-> Nth(P, l)]
  <2>1. A \in SUBSET (1 .. p) /\ \A l \in A : l \in R /\ l <= k
    BY DEF p
  <2>2. IsFiniteSet(A)
    <3> HIDE DEF A
    <3>1. IsFiniteSet(1 .. p)
      BY <1>2, FS_Interval
    <3>2. QED
      BY <2>1, <3>1, FS_Subset
  <2>3. ASSUME NEW l \in A
        PROVE  f[l] \in B
    <3>1. l \in 1 .. p /\ l \in R /\ l <= k
      BY <2>1
    <3>2. Nth(P, l) \in Q /\ Nth(P, l) <= Nth(P, k)
      BY <1>5, <3>1 DEF p
    <3>3. QED
      BY <3>2
  <2>4. ASSUME NEW i \in B
        PROVE  \E l \in A : f[l] = i
    <3>1. PICK l \in 1 .. p : Nth(P, l) = i
      BY <1>2
    <3>2. l \in R /\ l <= k
      BY <1>5, <3>1 DEF p
    <3>3. QED
      BY <3>1, <3>2
  <2>5. \A l \in A : f[l] = Nth(P, l)
    OBVIOUS
  <2>6. f \in [A -> B]
    BY <2>3
  <2> HIDE DEF A, B, f
  <2>7. ASSUME NEW a \in A, NEW b \in A, f[a] = f[b]
        PROVE  a = b
    <3>1. a \in 1 .. p /\ b \in 1 .. p
      BY <2>1
    <3>2. Nth(P, a) = Nth(P, b) /\ Nth(P, a) \in Int
      BY <1>4, <2>5, <2>7, <3>1
    <3>3. Nth(P, a) <= Nth(P, b) /\ Nth(P, b) <= Nth(P, a)
      BY <3>2
    <3>4. a <= b /\ b <= a
      BY <1>5, <3>1, <3>3
    <3>5. QED
      BY <1>2, <3>1, <3>4
  <2>8. (\A a, b \in A : f[a] = f[b] => a = b) /\ \A i \in B : \E l \in A : f[l] = i
    BY <2>4, <2>7
  <2>9. Cardinality(B) = Cardinality(A)
    BY ONLY <2>2, <2>6, <2>8, SameSize
  <2>10. QED
    BY <2>9 DEF A, B
<1>7. Cardinality(R) = Cardinality(Q)
  <2>1. CASE p = 0
    <3>1. P = {}
      BY <1>2, <2>1, FS_EmptySet DEF p
    <3>2. Q = {} /\ R = {}
      BY <2>1, <3>1 DEF p
    <3>3. QED
      BY <3>2
  <2>2. CASE p # 0
    <3>1. p \in 1 .. p
      BY <1>2, <2>2
    <3>2. {l \in R : l <= p} = R
      <4>1. R \in SUBSET (1 .. p)
        BY DEF p
      <4>2. \A l \in R : l <= p
        BY <1>2, <4>1
      <4>3. QED
        BY <4>2
    <3>3. {i \in Q : i <= Nth(P, p)} = Q
      <4>1. ASSUME NEW i \in Q
            PROVE  i <= Nth(P, p)
        <5>1. PICK l \in 1 .. p : Nth(P, l) = i
          BY <1>2
        <5>2. l <= p
          BY <1>2
        <5>3. QED
          BY <1>5, <3>1, <5>1, <5>2
      <4>2. QED
        BY <4>1
    <3>4. QED
      BY <1>6, <3>1, <3>2, <3>3
  <2>3. QED
    BY <2>1, <2>2
<1> DEFINE c == Cardinality(Q)
<1>8. /\ c \in Nat /\ \A j \in 1 .. c : Nth(Q, j) \in Q
      /\ \A j, l \in 1 .. c : j < l => Nth(Q, j) < Nth(Q, l)
      /\ \A i \in Q : \E j \in 1 .. c : Nth(Q, j) = i
  BY <1>1, <1>3, PlacesInOrder
<1>9. /\ \A j \in 1 .. Cardinality(R) : Nth(R, j) \in R
      /\ \A j \in 1 .. Cardinality(R) : Cardinality({l \in R : l <= Nth(R, j)}) = j
  BY <1>2, NthCounts DEF p
<1> HIDE DEF c
<1>10. ASSUME NEW j \in 1 .. c
       PROVE  Nth(Q, j) = Nth(P, Nth(R, j))
  <2>1. PICK k \in R : k = Nth(R, j) /\ Cardinality({l \in R : l <= k}) = j
    BY <1>7, <1>9 DEF c
  <2>2. k \in 1 .. p
    BY DEF p
  <2>3. Nth(P, k) \in Q
    BY <2>2 DEF p
  <2>4. Cardinality({i \in Q : i <= Nth(P, k)}) = j
    BY <1>6, <2>1, <2>2
  <2>5. Nth(P, k) = Nth(Q, j)
    BY <1>1, <1>3, <2>3, <2>4, NthIsThat
  <2>6. QED
    BY <2>1, <2>5
<1> DEFINE e == ElementsAt(s, P)
<1>11. \A k \in 1 .. p : e[k] = s[Nth(P, k)]
  BY DEF ElementsAt, p
<1> HIDE DEF e
<1>12. ASSUME NEW j \in 1 .. c
       PROVE  e[Nth(R, j)] = s[Nth(Q, j)]
  <2>1. Nth(R, j) \in 1 .. p
    BY <1>7, <1>9 DEF c, p
  <2>2. QED
    BY <1>10, <1>11, <2>1
<1>13. ElementsAt(e, R) = [j \in 1 .. c |-> e[Nth(R, j)]]
  BY <1>7 DEF ElementsAt, c
<1>14. ElementsAt(s, Q) = [j \in 1 .. c |-> s[Nth(Q, j)]]
  BY DEF ElementsAt, c
<1>15. QED
  BY <1>12, <1>13, <1>14 DEF e

-----------------------------------------------------------------------------
(* The panel.                                                              *)

\* The lists of PanelResults are these.
LEMMA SameLists ==
  /\ \A s : Panel!Total(s) = Total(s)
  /\ \A s, places : Panel!ElementsAt(s, places) = ElementsAt(s, places)
  /\ \A s : Panel!List(s) = List(s)
  /\ \A keys : Panel!Sorting(keys) = Sorting(keys)
<1>1. \A s : Panel!Total(s) = Total(s)
  BY DEF Panel!Total, Total
<1>2. \A T : Panel!Cardinality(T) = Cardinality(T)
  BY DEF Panel!Cardinality, Cardinality
<1>3. ASSUME NEW places, NEW k
      PROVE  Panel!Nth(places, k) = Nth(places, k)
  BY <1>2 DEF Panel!Nth, Nth
<1>4. ASSUME NEW s, NEW places
      PROVE  Panel!ElementsAt(s, places) = ElementsAt(s, places)
  BY <1>3, <1>2 DEF Panel!ElementsAt, ElementsAt
<1>5. \A s : Panel!List(s) = List(s)
  BY DEF Panel!List, List
<1>6. ASSUME NEW keys, NEW i
      PROVE  Panel!Place(keys, i) = Place(keys, i)
  <2>1. {j \in DOMAIN keys : Panel!Sooner(keys, j, i)} = {j \in DOMAIN keys : Sooner(keys, j, i)}
    BY DEF Panel!Sooner, Sooner
  <2>2. QED
    BY <1>2, <2>1 DEF Panel!Place, Place
<1>7. ASSUME NEW keys
      PROVE  Panel!Sorting(keys) = Sorting(keys)
  BY <1>6 DEF Panel!Sorting, Sorting
<1>8. QED
  BY <1>1, <1>4, <1>5, <1>7

\* The judges, the analysis and the profiles that there may be.
PanelOK ==
  /\ \A k \in DOMAIN Assignments : Assignments[k] \in Panel!Assignment
  /\ Forms \subseteq Panel!FreestyleScore
  /\ Profiles \subseteq {"compare_only", "gap_fill", "virtual_judge"}
  /\ None \notin Int /\ None \notin Panel!FreestyleScore

\* Every variable of PanelResults keeps its type.
THEOREM PanelIsTyped ==
  ASSUME PanelOK
  PROVE  Panel!Spec => []Panel!TypeOK
<1>1. Panel!Init => Panel!TypeOK
  BY DEF Panel!Init, Panel!TypeOK
<1>2. ASSUME Panel!TypeOK, [Panel!Next]_(Panel!vars)
      PROVE  Panel!TypeOK'
  <2>1. ASSUME NEW k \in DOMAIN Assignments, Panel!Join(k)
        PROVE  Panel!TypeOK'
    <3>1. judges' \in Seq(DOMAIN Assignments)
      BY <1>2, <2>1 DEF Panel!TypeOK, Panel!Join
    <3>2. \A i \in DOMAIN judges' : judges'[i] \in DOMAIN Assignments
      BY <3>1
    <3>3. QED
      BY <1>2, <2>1, <3>1, <3>2 DEF Panel!TypeOK, Panel!Join, PanelOK
  <2>2. ASSUME NEW fe \in Forms, Panel!Analyse(fe)
        PROVE  Panel!TypeOK'
    BY <1>2, <2>2 DEF Panel!TypeOK, Panel!Analyse
  <2>3. CASE UNCHANGED Panel!vars
    BY <1>2, <2>3 DEF Panel!TypeOK, Panel!vars
  <2>4. QED
    BY <1>2, <2>1, <2>2, <2>3 DEF Panel!Next
<1>3. QED
  BY <1>1, <1>2, PTL DEF Panel!Spec

\* The pool of the judges who count.
Pool(as) == List(ElementsAt(as, {i \in DOMAIN as : Panel!Included(as[i])}))

LEMMA PoolIs ==
  ASSUME NEW S, NEW as \in Seq(S)
  PROVE  /\ Pool(as) = ElementsAt(as, {i \in DOMAIN as : Panel!Included(as[i])})
         /\ Pool(as) \in Seq(S)
         /\ \A k \in 1 .. Len(Pool(as)) : Panel!Included(Pool(as)[k])
<1> DEFINE A == {i \in DOMAIN as : Panel!Included(as[i])}
<1>1. A \in SUBSET (1 .. Len(as)) /\ \A i \in A : Panel!Included(as[i])
  BY LenProperties
<1>2. Pool(as) = List(ElementsAt(as, A))
  BY DEF Pool
<1> HIDE DEF A
<1>3. /\ ElementsAt(as, A) \in Seq(S)
      /\ \A k \in 1 .. Len(ElementsAt(as, A)) : \E i \in A : ElementsAt(as, A)[k] = as[i]
  BY <1>1, KeptInOrder
<1>4. Pool(as) = ElementsAt(as, A)
  BY <1>2, <1>3, ListIs
<1>5. QED
  BY <1>1, <1>3, <1>4 DEF A

\* What is aggregated from a pool: the panel, the human part, the net score.
OfPool(pool, fe, m, p) ==
  LET scores == [i \in DOMAIN pool |-> pool[i].score]
      nets   == [i \in DOMAIN pool |-> pool[i].positive - pool[i].negative]
      human  == Panel!AggregateJudgeScores(scores, m)
  IN  [human |-> human,
       panel |-> CASE p = "compare_only" -> human
                   [] p = "gap_fill" -> Panel!ApplyProfileB(human, fe)
                   [] p = "virtual_judge" -> Panel!ApplyProfileC(scores, fe, m),
       net   |-> IF nets = <<>> THEN None ELSE Panel!Mean(nets),
       range |-> IF nets = <<>> THEN None
                 ELSE Panel!Max(Panel!Range(nets)) - Panel!Min(Panel!Range(nets))]

LEMMA ResultsAreOfPool ==
  ASSUME NEW as, NEW fe, NEW m, NEW p \in {"compare_only", "gap_fill", "virtual_judge"}
  PROVE  /\ Panel!VideoResults(as, fe, m, p).panel = OfPool(Pool(as), fe, m, p).panel
         /\ Panel!VideoResults(as, fe, m, p).human = OfPool(Pool(as), fe, m, p).human
         /\ Panel!VideoResults(as, fe, m, p).net = OfPool(Pool(as), fe, m, p).net
         /\ Panel!VideoResults(as, fe, m, p).range = OfPool(Pool(as), fe, m, p).range
<1>1. Panel!List(Panel!ElementsAt(as, {i \in DOMAIN as : Panel!Included(as[i])})) = Pool(as)
  BY SameLists DEF Pool
<1> DEFINE v == Panel!VideoResults(as, fe, m, p)
           o == OfPool(Pool(as), fe, m, p)
<1>2. v.human = o.human
  BY <1>1 DEF Panel!VideoResults, OfPool
<1>3. v.panel = o.panel
  BY <1>1 DEF Panel!VideoResults, OfPool
<1>4. v.net = o.net
  BY <1>1 DEF Panel!VideoResults, OfPool
<1>5. v.range = o.range
  BY <1>1 DEF Panel!VideoResults, OfPool
<1>6. QED
  BY <1>2, <1>3, <1>4, <1>5

\* A shadow judge, an excluded one and a draft leave no trace in what is
\* aggregated, and under compare_only neither does the analysis
\* (compute_entry_results), for any judges, forms and modes.
THEOREM OnlyIncludedJudgesCount ==
  ASSUME PanelOK
  PROVE  Panel!Spec => []Panel!OnlyIncludedCount
<1>1. ASSUME Panel!TypeOK
      PROVE  Panel!OnlyIncludedCount
  <2> DEFINE as == Panel!Rows
             real == {i \in DOMAIN as : as[i].submitted /\ as[i].include /\ ~as[i].shadow}
             Q == {i \in DOMAIN as : Panel!Included(as[i])}
             S == {Assignments[k] : k \in DOMAIN Assignments}
             counted == Panel!List(Panel!ElementsAt(as, real))
             e == ElementsAt(as, real)
             R == {k \in DOMAIN e : Panel!Included(e[k])}
  <2>1. as \in Seq(S)
    <3>1. judges \in Seq(DOMAIN Assignments)
      BY <1>1 DEF Panel!TypeOK
    <3>2. DOMAIN judges = 1 .. Len(judges) /\ Len(judges) \in Nat
          /\ \A i \in 1 .. Len(judges) : judges[i] \in DOMAIN Assignments
      BY <3>1, LenProperties
    <3>3. as = [i \in 1 .. Len(judges) |-> Assignments[judges[i]]]
      BY <3>2 DEF Panel!Rows
    <3>4. \A i \in 1 .. Len(judges) : Assignments[judges[i]] \in S
      BY <3>2
    <3> HIDE DEF as, S
    <3>5. QED
      BY <3>2, <3>3, <3>4
  <2>2. counted = List(e)
    BY SameLists
  <2>3. Panel!Results = Panel!VideoResults(as, ai, mode, profile)
    BY DEF Panel!Results
  <2> HIDE DEF as, S
  <2>4. real \in SUBSET (1 .. Len(as)) /\ DOMAIN as = 1 .. Len(as) /\ Len(as) \in Nat
    BY <2>1, LenProperties
  <2>5. Q \in SUBSET real
    BY DEF Panel!Included
  <2> DEFINE p == Cardinality(real)
  <2>6. p \in Nat /\ (\A k \in 1 .. p : Nth(real, k) \in real)
    <3> HIDE DEF real
    <3>1. QED
      BY <2>4, PlacesInOrder
  <2>7. e = [k \in 1 .. p |-> as[Nth(real, k)]]
    BY DEF ElementsAt
  <2>8. \A i \in real : i \in Q <=> Panel!Included(as[i])
    OBVIOUS
  <2> HIDE DEF real, p
  <2>9. e \in Seq(S)
    BY <2>1, <2>4, KeptInOrder
  <2>10. List(e) = e
    BY <2>9, ListIs
  <2> HIDE DEF e, Q
  <2>11. DOMAIN e = 1 .. p /\ \A k \in 1 .. p : e[k] = as[Nth(real, k)]
    BY <2>7
  <2>12. \A k \in 1 .. p : k \in R <=> Nth(real, k) \in Q
    BY <2>6, <2>8, <2>11
  <2>13. R \in SUBSET (1 .. p)
    BY <2>11
  <2>14. Pool(e) = ElementsAt(e, R)
    BY <2>9, PoolIs
  <2>15. Pool(as) = ElementsAt(as, Q)
    BY <2>1, PoolIs DEF Q
  <2> HIDE DEF R
  <2>16. ElementsAt(ElementsAt(as, real), R) = ElementsAt(as, Q)
    BY <2>1, <2>4, <2>5, <2>12, <2>13, KeptOfKept DEF p
  <2>17. Pool(counted) = Pool(as)
    BY <2>2, <2>10, <2>14, <2>15, <2>16 DEF e
  <2> DEFINE alone == Panel!VideoResults(counted, ai, mode, profile)
  <2>18. /\ Panel!Results.panel = alone.panel /\ Panel!Results.human = alone.human
         /\ Panel!Results.net = alone.net /\ Panel!Results.range = alone.range
    <3> HIDE DEF counted, alone
    <3>1. profile \in {"compare_only", "gap_fill", "virtual_judge"}
      BY <1>1 DEF PanelOK, Panel!TypeOK
    <3>2. Pool(as) = Pool(counted)
      BY <2>17
    <3> DEFINE v == Panel!VideoResults(as, ai, mode, profile)
               o == OfPool(Pool(as), ai, mode, profile)
    <3>3. v.panel = o.panel /\ v.human = o.human /\ v.net = o.net /\ v.range = o.range
      BY ONLY <3>1, ResultsAreOfPool
    <3> DEFINE q == OfPool(Pool(counted), ai, mode, profile)
    <3>4. alone.panel = q.panel /\ alone.human = q.human /\ alone.net = q.net /\ alone.range = q.range
      BY ONLY <3>1, ResultsAreOfPool DEF alone
    <3>5. o = q
      BY <3>2
    <3>6. v = Panel!Results
      BY <2>3
    <3> HIDE DEF v, o, q
    <3>7. QED
      BY <3>3, <3>4, <3>5, <3>6
  <2>19. Panel!Results.human = Panel!VideoResults(as, None, mode, "compare_only").panel
    BY <2>3 DEF Panel!VideoResults
  <2>20. QED
    BY <2>18, <2>19 DEF Panel!OnlyIncludedCount, as, real
<1>2. QED
  BY <1>1, PanelIsTyped, PTL

-----------------------------------------------------------------------------
(* Trimming.                                                               *)

LEMMA DivWithin ==
  ASSUME NEW x \in Int, NEW m \in Nat, m > 0, NEW a \in Int, NEW b \in Int,
         m * a <= x, x <= m * b
  PROVE  x \div m \in a .. b
<1> DEFINE q == x \div m
           r == x % m
<1>1. q \in Int /\ r \in Int /\ 0 <= r /\ r < m /\ x = m * q + r
  OBVIOUS
<1> HIDE DEF q, r
<1>2. a <= q
  <2>1. SUFFICES ASSUME q <= a - 1
                 PROVE  FALSE
    BY <1>1
  <2>2. m * q <= m * (a - 1)
    BY <1>1, <2>1
  <2>3. m * (a - 1) = m * a - m
    OBVIOUS
  <2>4. QED
    BY <1>1, <2>2, <2>3
<1>3. q <= b
  <2>1. SUFFICES ASSUME b + 1 <= q
                 PROVE  FALSE
    BY <1>1
  <2>2. m * (b + 1) <= m * q
    BY <1>1, <2>1
  <2>3. m * (b + 1) = m * b + m
    OBVIOUS
  <2>4. QED
    BY <1>1, <2>2, <2>3
<1>4. QED
  BY <1>1, <1>2, <1>3 DEF q

\* A mean, in its unit, lies between two numbers.
MeanBetween(v, a, b) == Panel!Mean(v) \in (420 * a) .. (420 * b)

\* A mean lies among what it is the mean of.
LEMMA MeanWithin ==
  ASSUME NEW v \in Seq(Int), Len(v) > 0, NEW a \in Int, NEW b \in Int,
         \A i \in 1 .. Len(v) : a <= v[i] /\ v[i] <= b
  PROVE  MeanBetween(v, a, b)
<1> DEFINE m == Len(v)
           s == Total(v)
<1>1. m \in Nat /\ m > 0 /\ v \in [1 .. m -> Int]
  BY LenProperties
<1>2. s \in Int /\ m * a <= s /\ s <= m * b
  BY <1>1, TotalWithin
<1> HIDE DEF s, m
<1>3. m * (420 * a) <= 420 * s /\ 420 * s <= m * (420 * b)
  <2>1. m * (420 * a) = 420 * (m * a) /\ m * (420 * b) = 420 * (m * b)
        /\ m * a \in Int /\ m * b \in Int
    BY <1>1
  <2>2. QED
    BY <1>2, <2>1
<1>4. PICK x \in Int, y \in Int, z \in Int : x = 420 * s /\ y = 420 * a /\ z = 420 * b
  BY <1>2
<1>5. x \div m \in y .. z
  <2>1. m * y <= x /\ x <= m * z
    BY <1>3, <1>4
  <2>2. QED
    BY <1>1, <2>1, DivWithin
<1>6. Panel!Mean(v) = (420 * s) \div m
  BY SameLists DEF Panel!Mean, Panel!Unit, s, m
<1>7. QED
  BY <1>4, <1>5, <1>6 DEF MeanBetween

LEMMA Extremes ==
  ASSUME NEW T \in SUBSET (0 .. 10), T # {}
  PROVE  /\ Panel!Min(T) \in T /\ Panel!Max(T) \in T
         /\ \A x \in T : Panel!Min(T) <= x /\ x <= Panel!Max(T)
<1>1. \E m \in T : \A x \in T : m <= x
  <2>1. T \in SUBSET Nat
    OBVIOUS
  <2>2. QED
    BY <2>1, Least
<1>2. \E m \in T : \A x \in T : m >= x
  <2> DEFINE D == {10 - x : x \in T}
  <2>1. D \in SUBSET Nat /\ D # {}
    <3>1. \A x \in T : x \in 0 .. 10
      OBVIOUS
    <3>2. \A x \in T : 10 - x \in Nat
      BY <3>1
    <3>3. QED
      BY <3>2
  <2>2. \A x \in T : 10 - x \in D
    OBVIOUS
  <2>3. \A d \in D : 10 - d \in T
    OBVIOUS
  <2> HIDE DEF D
  <2>4. PICK d \in D : \A e \in D : d <= e
    BY <2>1, Least
  <2>5. ASSUME NEW x \in T
        PROVE  10 - d >= x
    BY <2>1, <2>2, <2>4
  <2>6. QED
    BY <2>3, <2>5
<1>3. Panel!Min(T) \in T /\ \A x \in T : Panel!Min(T) <= x
  BY <1>1 DEF Panel!Min
<1>4. Panel!Max(T) \in T /\ \A x \in T : Panel!Max(T) >= x
  BY <1>2 DEF Panel!Max
<1>5. T \subseteq Int
  OBVIOUS
<1>6. QED
  BY <1>3, <1>4, <1>5

\* More places than may be left out: one is not left out.
LEMMA OneIsLeft ==
  ASSUME NEW A, IsFiniteSet(A), NEW out, IsFiniteSet(out), Cardinality(A) > Cardinality(out),
         NEW f, \A a, b \in A : f[a] = f[b] => a = b
  PROVE  \E a \in A : f[a] \notin out
<1>1. SUFFICES ASSUME \A a \in A : f[a] \in out
               PROVE  FALSE
  OBVIOUS
<1> DEFINE g == [a \in A |-> f[a]]
<1>2. g \in [A -> out] /\ \A a, b \in A : g[a] = g[b] => a = b
  BY <1>1
<1> HIDE DEF g
<1>3. g \in Injection(A, out)
  BY <1>2, Fun_IsInj
<1>4. Cardinality(A) <= Cardinality(out)
  BY <1>3, FS_Injection
<1>5. Cardinality(A) \in Nat /\ Cardinality(out) \in Nat
  BY FS_CardinalityType
<1>6. QED
  BY <1>4, <1>5

\* A number is between two that are not left out.
BetweenLeft(keys, n, out, x) ==
  /\ \E i \in (1 .. n) \ out : keys[i] <= x
  /\ \E i \in (1 .. n) \ out : x <= keys[i]

\* Of d elements left out and d trimmed at each end, what is not trimmed lies
\* between elements that are not left out.
LEMMA Untrimmed ==
  ASSUME NEW n \in Nat, NEW keys \in [1 .. n -> Int], NEW d \in Nat,
         NEW out \in SUBSET (1 .. n), Cardinality(out) = d,
         NEW k \in 1 .. n, d < k, k + d <= n
  PROVE  /\ Sorting(keys)[k] \in 1 .. n
         /\ BetweenLeft(keys, n, out, keys[Sorting(keys)[k]])
<1> DEFINE f == Sorting(keys)
<1>1. /\ f \in [1 .. n -> 1 .. n]
      /\ \A a, b \in 1 .. n : a < b => f[a] # f[b] /\ keys[f[a]] <= keys[f[b]]
  BY SortingSorts
<1> HIDE DEF f
<1>2. IsFiniteSet(out)
  <2>1. IsFiniteSet(1 .. n)
    BY SizeUpto
  <2>2. QED
    BY <2>1, FS_Subset
<1>3. k \in 1 .. n /\ f[k] \in 1 .. n /\ keys[f[k]] \in Int
  BY <1>1
<1>4. \A a, b \in 1 .. n : f[a] = f[b] => a = b
  <2>1. SUFFICES ASSUME NEW a \in 1 .. n, NEW b \in 1 .. n, f[a] = f[b]
                 PROVE  a = b
    OBVIOUS
  <2>2. ~ (a < b) /\ ~ (b < a)
    BY <1>1, <2>1
  <2>3. QED
    BY <2>2
<1>5. \E i \in (1 .. n) \ out : keys[i] <= keys[f[k]]
  <2>1. d + 1 \in Nat /\ 1 .. d + 1 \subseteq 1 .. n /\ d + 1 > d
    OBVIOUS
  <2>2. IsFiniteSet(1 .. d + 1) /\ Cardinality(1 .. d + 1) = d + 1
    BY <2>1, SizeUpto
  <2>3. \A a, b \in 1 .. d + 1 : f[a] = f[b] => a = b
    BY <1>4, <2>1
  <2>4. Cardinality(1 .. d + 1) > Cardinality(out)
    BY <2>1, <2>2
  <2>5. PICK a \in 1 .. d + 1 : f[a] \notin out
    BY ONLY <1>2, <2>2, <2>3, <2>4, OneIsLeft
  <2>6. a \in 1 .. n /\ (a < k \/ a = k)
    BY <2>1
  <2>7. f[a] \in (1 .. n) \ out
    BY <1>1, <2>5, <2>6
  <2>8. keys[f[a]] <= keys[f[k]]
    <3>1. CASE a < k
      BY ONLY <1>1, <1>3, <2>6, <3>1
    <3>2. CASE a = k
      BY ONLY <1>3, <3>2
    <3>3. QED
      BY ONLY <2>6, <3>1, <3>2
  <2>9. QED
    BY <2>7, <2>8
<1>6. \E i \in (1 .. n) \ out : keys[f[k]] <= keys[i]
  <2> DEFINE A == n - d .. n
  <2>1. A \subseteq 1 .. n /\ n - d \in Int /\ n - (n - d) + 1 = d + 1 /\ n - d <= n
    OBVIOUS
  <2>2. IsFiniteSet(A) /\ Cardinality(A) = d + 1
    <3>1. PICK l \in Int : l = n - d
      BY <2>1
    <3>2. IsFiniteSet(l .. n) /\ Cardinality(l .. n) = n - l + 1
      BY <2>1, <3>1, SizeBetween
    <3>3. QED
      BY <2>1, <3>1, <3>2
  <2>3. \A a, b \in A : f[a] = f[b] => a = b
    BY <1>4, <2>1
  <2>4. Cardinality(A) > Cardinality(out)
    BY <2>2
  <2>5. \A a \in A : k < a \/ a = k
    OBVIOUS
  <2> HIDE DEF A
  <2>6. PICK a \in A : f[a] \notin out
    BY ONLY <1>2, <2>2, <2>3, <2>4, OneIsLeft
  <2>7. a \in 1 .. n /\ (k < a \/ a = k)
    BY <2>1, <2>5
  <2>8. f[a] \in (1 .. n) \ out
    BY <1>1, <2>6, <2>7
  <2>9. keys[f[k]] <= keys[f[a]]
    <3>1. CASE k < a
      BY ONLY <1>1, <1>3, <2>7, <3>1
    <3>2. CASE a = k
      BY ONLY <1>3, <3>2
    <3>3. QED
      BY ONLY <2>7, <3>1, <3>2
  <2>10. QED
    BY <2>8, <2>9
<1>7. QED
  BY <1>3, <1>5, <1>6 DEF f, BetweenLeft

LEMMA AscendingIs ==
  ASSUME NEW v \in Seq(0 .. 10)
  PROVE  /\ v \in [1 .. Len(v) -> Int] /\ Panel!Ascending(v) \in Seq(0 .. 10)
         /\ Len(Panel!Ascending(v)) = Len(v)
         /\ \A k \in 1 .. Len(v) : Panel!Ascending(v)[k] = v[Sorting(v)[k]]
<1> DEFINE n == Len(v)
           t == [k \in 1 .. n |-> v[Sorting(v)[k]]]
<1>1. n \in Nat /\ DOMAIN v = 1 .. n /\ v \in [1 .. n -> 0 .. 10] /\ v = [k \in 1 .. n |-> v[k]]
  BY LenProperties
<1>2. v \in [1 .. n -> Int]
  BY <1>1
<1>3. Sorting(v) \in [1 .. n -> 1 .. n]
  BY <1>1, <1>2, SortingSorts
<1>4. Panel!Ascending(v) = List(t)
  <2>1. [i \in DOMAIN v |-> v[i]] = v
    BY <1>1
  <2>2. Panel!Ascending(v) = Panel!List([k \in DOMAIN v |-> v[Panel!Sorting([i \in DOMAIN v |-> v[i]])[k]]])
    BY DEF Panel!Ascending, Panel!SortedBy
  <2>3. Panel!Ascending(v) = Panel!List([k \in 1 .. n |-> v[Sorting(v)[k]]])
    BY <1>1, <2>1, <2>2, SameLists
  <2>4. QED
    BY <2>3, SameLists
<1>5. t \in [1 .. n -> 0 .. 10] /\ \A k \in 1 .. n : t[k] = v[Sorting(v)[k]]
  BY <1>1, <1>3
<1> HIDE DEF t, n
<1>6. t \in Seq(0 .. 10) /\ Len(t) = n
  BY <1>1, <1>5
<1>7. List(t) = t
  BY <1>6, ListIs
<1>8. QED
  BY <1>2, <1>4, <1>5, <1>6, <1>7 DEF n

\* What is left of a list without some places.
RestOf(v, out) == {v[i] : i \in (1 .. Len(v)) \ out}

\* The mean of what is not trimmed lies in the range of what is left.
LEMMA TrimmedWithin ==
  ASSUME NEW v \in Seq(0 .. 10), NEW d \in Nat, Len(v) >= 2 * d + 1,
         NEW out \in SUBSET (1 .. Len(v)), Cardinality(out) = d
  PROVE  /\ RestOf(v, out) \in SUBSET (0 .. 10) /\ RestOf(v, out) # {}
         /\ Panel!TrimmedMean(v, d)
              \in (420 * Panel!Min(RestOf(v, out))) .. (420 * Panel!Max(RestOf(v, out)))
<1> DEFINE n == Len(v)
           s == Panel!Ascending(v)
           T == RestOf(v, out)
           w == SubSeq(s, d + 1, n - d)
<1>1. /\ v \in [1 .. n -> Int] /\ s \in Seq(0 .. 10) /\ Len(s) = n
      /\ \A k \in 1 .. n : s[k] = v[Sorting(v)[k]]
  BY AscendingIs
<1>2. n \in Nat /\ n >= 2 * d + 1 /\ \A i \in 1 .. n : v[i] \in 0 .. 10
  BY LenProperties
<1>3. T \in SUBSET (0 .. 10) /\ \A i \in (1 .. n) \ out : v[i] \in T
  BY <1>2 DEF RestOf
<1> HIDE DEF n, s, T
<1>4. ASSUME NEW k \in 1 .. n, d < k, k + d <= n
      PROVE  s[k] \in Int /\ (\E x \in T : x <= s[k]) /\ (\E x \in T : s[k] <= x)
  <2>1. out \in SUBSET (1 .. n) /\ v \in [1 .. n -> Int] /\ n \in Nat
    BY <1>1, <1>2 DEF n
  <2>2. Sorting(v)[k] \in 1 .. n /\ BetweenLeft(v, n, out, v[Sorting(v)[k]])
    BY ONLY <1>4, <2>1, k \in 1 .. n, d \in Nat, Cardinality(out) = d, Untrimmed
  <2>3. s[k] = v[Sorting(v)[k]]
    BY <1>1
  <2>4. s[k] \in Int
    BY <2>1, <2>2, <2>3
  <2>5. QED
    BY <1>3, <2>2, <2>3, <2>4 DEF BetweenLeft
<1>5. d + 1 \in 1 .. n /\ d < d + 1 /\ d + 1 + d <= n
  BY <1>2
<1>6. T # {}
  BY <1>4, <1>5
<1>7. PICK a \in 0 .. 10, b \in 0 .. 10 :
         /\ a = Panel!Min(T) /\ b = Panel!Max(T)
         /\ \A x \in T : a <= x /\ x <= b
  BY <1>3, <1>6, Extremes
<1>8. ASSUME NEW k \in 1 .. n, d < k, k + d <= n
      PROVE  s[k] \in Int /\ a <= s[k] /\ s[k] <= b
  <2>1. PICK x \in T : x <= s[k]
    BY <1>4, <1>8
  <2>2. PICK y \in T : s[k] <= y
    BY <1>4, <1>8
  <2>3. x \in Int /\ y \in Int /\ s[k] \in Int
    <3>1. x \in 0 .. 10 /\ y \in 0 .. 10
      BY <1>3
    <3>2. s[k] \in Int
      BY <1>4, <1>8
    <3>3. QED
      BY <3>1, <3>2
  <2>4. a <= x /\ y <= b
    BY <1>7
  <2>5. QED
    BY <2>1, <2>2, <2>3, <2>4
<1>9. /\ w \in Seq(Int) /\ Len(w) > 0
      /\ \A i \in 1 .. Len(w) : a <= w[i] /\ w[i] <= b
  <2>1. d + 1 \in Int /\ n - d \in Int /\ d + 1 <= n - d
    BY <1>2
  <2>2. \A i \in d + 1 .. n - d : s[i] \in Int
    <3>1. SUFFICES ASSUME NEW i \in d + 1 .. n - d
                   PROVE  s[i] \in Int
      OBVIOUS
    <3>2. i \in 1 .. n /\ d < i /\ i + d <= n
      BY <1>2
    <3>3. QED
      BY <1>8, <3>2
  <2>3. /\ w \in Seq(Int) /\ Len(w) = (n - d) - (d + 1) + 1
        /\ \A i \in 1 .. (n - d) - (d + 1) + 1 : w[i] = s[d + 1 + i - 1]
    BY <2>1, <2>2, SubSeqProperties
  <2> HIDE DEF w
  <2>4. Len(w) \in Nat /\ Len(w) > 0
    BY <2>1, <2>3
  <2>5. ASSUME NEW i \in 1 .. Len(w)
        PROVE  a <= w[i] /\ w[i] <= b
    <3>1. PICK k \in 1 .. n : k = d + 1 + i - 1 /\ d < k /\ k + d <= n
      BY <1>2, <2>3
    <3>2. w[i] = s[d + 1 + i - 1]
      BY <2>3
    <3>3. w[i] = s[k]
      BY <3>1, <3>2
    <3>4. QED
      BY <1>8, <3>1, <3>3
  <2>6. QED
    BY <2>3, <2>4, <2>5
<1>10. Panel!TrimmedMean(v, d) = Panel!Mean(w)
  BY DEF Panel!TrimmedMean, w, s, n
<1> HIDE DEF w
<1>11. MeanBetween(w, a, b)
  <2>1. a \in Int /\ b \in Int
    OBVIOUS
  <2>2. QED
    BY ONLY <1>9, <2>1, MeanWithin
<1>12. QED
  BY <1>3, <1>6, <1>7, <1>10, <1>11 DEF T, MeanBetween

LEMMA AllWithin ==
  ASSUME NEW v \in Seq(0 .. 10), Len(v) > 0
  PROVE  /\ RestOf(v, {}) \in SUBSET (0 .. 10) /\ RestOf(v, {}) # {}
         /\ Panel!Mean(v) \in (420 * Panel!Min(RestOf(v, {}))) .. (420 * Panel!Max(RestOf(v, {})))
<1> DEFINE n == Len(v)
           T == RestOf(v, {})
<1>1. n \in Nat /\ n > 0 /\ \A i \in 1 .. n : v[i] \in 0 .. 10
  BY LenProperties
<1>2. T \in SUBSET (0 .. 10) /\ \A i \in 1 .. n : v[i] \in T
  BY <1>1 DEF RestOf
<1> HIDE DEF T
<1>3. T # {}
  BY <1>1, <1>2
<1>4. PICK a \in 0 .. 10, b \in 0 .. 10 :
         /\ a = Panel!Min(T) /\ b = Panel!Max(T)
         /\ \A x \in T : a <= x /\ x <= b
  BY <1>2, <1>3, Extremes
<1>5. v \in Seq(Int) /\ Len(v) > 0 /\ \A i \in 1 .. Len(v) : a <= v[i] /\ v[i] <= b
  <2>1. \A i \in 1 .. n : a <= v[i] /\ v[i] <= b
    BY <1>2, <1>4
  <2>2. v \in Seq(Int)
    OBVIOUS
  <2>3. QED
    BY <1>1, <2>1, <2>2
<1>6. MeanBetween(v, a, b)
  <2>1. a \in Int /\ b \in Int
    OBVIOUS
  <2>2. QED
    BY ONLY <1>5, <2>1, MeanWithin
<1>7. QED
  BY <1>2, <1>3, <1>4, <1>6 DEF T, MeanBetween

\* What a mode tolerates is what it trims.
LEMMA ModeTolerates ==
  ASSUME NEW n \in Nat, NEW m
  PROVE  LET e == IF m = "auto" THEN Panel!ResolveAuto(n) ELSE m
         IN  \/ e = "trim_1" /\ n >= 3 /\ Panel!Tolerated(m, n) = 1
             \/ e = "trim_2" /\ n >= 5 /\ Panel!Tolerated(m, n) = 2
             \/ /\ ~ (e = "trim_1" /\ n >= 3) /\ ~ (e = "trim_2" /\ n >= 5)
                /\ Panel!Tolerated(m, n) = 0
<1>1. CASE m # "auto"
  BY <1>1 DEF Panel!Tolerated
<1>2. CASE m = "auto" /\ n < 5
  BY <1>2 DEF Panel!Tolerated, Panel!ResolveAuto
<1>3. CASE m = "auto" /\ n \in 5 .. 6
  BY <1>3 DEF Panel!Tolerated, Panel!ResolveAuto
<1>4. CASE m = "auto" /\ n > 6
  BY <1>4 DEF Panel!Tolerated, Panel!ResolveAuto
<1>5. QED
  BY <1>1, <1>2, <1>3, <1>4

\* The value of a category, for every mode.
LEMMA ValueWithin ==
  ASSUME NEW v \in Seq(0 .. 10), Len(v) > 0, NEW m,
         NEW out \in SUBSET (1 .. Len(v)), Cardinality(out) = Panel!Tolerated(m, Len(v))
  PROVE  Panel!CategoryValue(v, m)
           \in (420 * Panel!Min(RestOf(v, out))) .. (420 * Panel!Max(RestOf(v, out)))
<1> DEFINE n == Len(v)
           Within(x) == x \in (420 * Panel!Min(RestOf(v, out))) .. (420 * Panel!Max(RestOf(v, out)))
<1>1. n \in Nat /\ n > 0
  OBVIOUS
<1>2. IsFiniteSet(out)
  <2>1. IsFiniteSet(1 .. n)
    BY <1>1, SizeUpto
  <2>2. QED
    BY <2>1, FS_Subset
<1>3. n >= 3 /\ Cardinality(out) = 1 => Within(Panel!TrimmedMean(v, 1))
  BY <1>1, TrimmedWithin
<1>4. n >= 5 /\ Cardinality(out) = 2 => Within(Panel!TrimmedMean(v, 2))
  BY <1>1, TrimmedWithin
<1>5. Cardinality(out) = 0 => Within(Panel!Mean(v))
  <2>1. SUFFICES ASSUME Cardinality(out) = 0
                 PROVE  Within(Panel!Mean(v))
    OBVIOUS
  <2>2. out = {}
    BY <1>2, <2>1, FS_EmptySet
  <2>3. QED
    BY <2>2, AllWithin
<1> HIDE DEF Within
<1> DEFINE e == IF m = "auto" THEN Panel!ResolveAuto(n) ELSE m
<1>6. \/ e = "trim_1" /\ n >= 3 /\ Panel!Tolerated(m, n) = 1
      \/ e = "trim_2" /\ n >= 5 /\ Panel!Tolerated(m, n) = 2
      \/ /\ ~ (e = "trim_1" /\ n >= 3) /\ ~ (e = "trim_2" /\ n >= 5)
         /\ Panel!Tolerated(m, n) = 0
  BY ONLY <1>1, ModeTolerates
<1>7. Panel!CategoryValue(v, m)
        = CASE e = "trim_1" /\ n >= 3 -> Panel!TrimmedMean(v, 1)
            [] e = "trim_2" /\ n >= 5 -> Panel!TrimmedMean(v, 2)
            [] OTHER -> Panel!Mean(v)
  BY DEF Panel!CategoryValue
<1>8. Cardinality(out) = Panel!Tolerated(m, n)
  OBVIOUS
<1> HIDE DEF e, n
<1>9. Within(Panel!CategoryValue(v, m))
  <2>1. CASE e = "trim_1" /\ n >= 3 /\ Panel!Tolerated(m, n) = 1
    <3>1. Panel!CategoryValue(v, m) = Panel!TrimmedMean(v, 1)
      BY <1>7, <2>1
    <3>2. QED
      BY <1>3, <1>8, <2>1, <3>1
  <2>2. CASE e = "trim_2" /\ n >= 5 /\ Panel!Tolerated(m, n) = 2
    <3>1. Panel!CategoryValue(v, m) = Panel!TrimmedMean(v, 2)
      BY <1>7, <2>2
    <3>2. QED
      BY <1>4, <1>8, <2>2, <3>1
  <2>3. CASE /\ ~ (e = "trim_1" /\ n >= 3) /\ ~ (e = "trim_2" /\ n >= 5)
             /\ Panel!Tolerated(m, n) = 0
    <3>1. Panel!CategoryValue(v, m) = Panel!Mean(v)
      BY <1>7, <2>3
    <3>2. QED
      BY <1>5, <1>8, <2>3, <3>1
  <2>4. QED
    BY <1>6, <2>1, <2>2, <2>3
<1>10. QED
  BY <1>9 DEF Within

\* What was entered for a category are marks.
LEMMA EnteredIs ==
  ASSUME NEW scores \in Seq(Panel!FreestyleScore), NEW c \in FormCategories
  PROVE  Panel!Entered(scores, c) \in Seq(0 .. 10)
<1> DEFINE n == Len(scores)
           f == [i \in DOMAIN scores |-> scores[i][c]]
           A == {i \in DOMAIN scores : scores[i][c] # None}
           S == (0 .. 10) \cup {None}
           e == ElementsAt(f, A)
<1>1. n \in Nat /\ DOMAIN scores = 1 .. n /\ \A i \in 1 .. n : scores[i] \in Panel!FreestyleScore
  BY LenProperties
<1>2. \A i \in 1 .. n : scores[i][c] \in S
  BY <1>1 DEF Panel!FreestyleScore
<1>3. A \in SUBSET (1 .. n) /\ \A i \in A : scores[i][c] \in 0 .. 10
  BY <1>1, <1>2
<1>4. f = [i \in 1 .. n |-> scores[i][c]]
  BY <1>1
<1>5. Panel!Entered(scores, c) = List(e)
  BY SameLists DEF Panel!Entered
<1> HIDE DEF A, f, n, S
<1>6. f \in [1 .. n -> S]
  BY <1>2, <1>4
<1>7. f \in Seq(S) /\ Len(f) = n
  BY <1>1, <1>6
<1>8. A \in SUBSET (1 .. Len(f))
  BY <1>3, <1>7
<1>9. /\ e \in Seq(S)
      /\ \A k \in 1 .. Len(e) : \E i \in A : e[k] = f[i]
  BY ONLY <1>7, <1>8, KeptInOrder
<1> HIDE DEF e
<1>10. \A i \in A : f[i] \in 0 .. 10
  BY <1>3, <1>4
<1>11. \A k \in 1 .. Len(e) : e[k] \in 0 .. 10
  BY <1>9, <1>10
<1>12. e \in Seq(0 .. 10)
  <2>1. Len(e) \in Nat /\ e \in [1 .. Len(e) -> S]
    BY <1>9, LenProperties
  <2>2. e \in [1 .. Len(e) -> 0 .. 10]
    BY <1>11, <2>1
  <2>3. QED
    BY ONLY <2>1, <2>2, SeqDef
<1>13. QED
  BY <1>5, <1>12, ListIs

\* The scores that are aggregated, the virtual judge's among them.
ScoresOf(as) == [i \in DOMAIN Pool(as) |-> Pool(as)[i].score]
Counted(as, fe, m, p) ==
  IF Panel!VideoResults(as, fe, m, p).virtual THEN Append(ScoresOf(as), fe) ELSE ScoresOf(as)

LEMMA CountedAre ==
  ASSUME NEW as \in Seq(Panel!Assignment), NEW fe \in Panel!FreestyleScore \cup {None},
         NEW m, NEW p, None \notin Panel!FreestyleScore
  PROVE  Counted(as, fe, m, p) \in Seq(Panel!FreestyleScore)
<1> DEFINE pool == Pool(as)
           n == Len(pool)
           s == ScoresOf(as)
<1>1. pool \in Seq(Panel!Assignment) /\ \A k \in 1 .. n : Panel!Included(pool[k])
  BY PoolIs
<1>2. n \in Nat /\ DOMAIN pool = 1 .. n /\ \A k \in 1 .. n : pool[k] \in Panel!Assignment
  BY <1>1, LenProperties
<1>3. \A k \in 1 .. n : pool[k].score \in Panel!FreestyleScore
  BY <1>1, <1>2 DEF Panel!Included, Panel!Assignment
<1>4. s = [k \in 1 .. n |-> pool[k].score]
  BY <1>2 DEF ScoresOf
<1> HIDE DEF n, pool, s
<1>5. s \in Seq(Panel!FreestyleScore)
  BY <1>2, <1>3, <1>4
<1>6. Panel!VideoResults(as, fe, m, p).virtual => fe # None
  BY DEF Panel!VideoResults, Panel!Virtual
<1>7. fe # None => Append(s, fe) \in Seq(Panel!FreestyleScore)
  BY <1>5
<1>8. QED
  BY <1>5, <1>6, <1>7 DEF Counted, s

\* The panel's value of a category is that of what the counted entered.
LEMMA PanelValue ==
  ASSUME NEW as, NEW fe, NEW m, NEW p \in {"compare_only", "gap_fill", "virtual_judge"},
         NEW c \in FormCategories,
         Panel!Entered(Counted(as, fe, m, p), c) # <<>>,
         Panel!CategoryValue(Panel!Entered(Counted(as, fe, m, p), c), m) # None
  PROVE  Panel!VideoResults(as, fe, m, p).panel[c]
           = Panel!CategoryValue(Panel!Entered(Counted(as, fe, m, p), c), m)
<1> DEFINE s == ScoresOf(as)
           v == Panel!VideoResults(as, fe, m, p)
           human == Panel!AggregateJudgeScores(s, m)
<1>1. Panel!List(Panel!ElementsAt(as, {i \in DOMAIN as : Panel!Included(as[i])})) = Pool(as)
  BY SameLists DEF Pool
<1>2. p = "compare_only" => v.panel = human
  BY <1>1 DEF Panel!VideoResults, ScoresOf
<1>3. p = "gap_fill" => v.panel = Panel!ApplyProfileB(human, fe)
  BY <1>1 DEF Panel!VideoResults, ScoresOf
<1>4. p = "virtual_judge" => v.panel = Panel!ApplyProfileC(s, fe, m)
  BY <1>1 DEF Panel!VideoResults, ScoresOf
<1>5. v.virtual <=> p = "virtual_judge" /\ Panel!Virtual(fe)
  BY DEF Panel!VideoResults
<1>6. ASSUME NEW x, Panel!Entered(x, c) # <<>>
      PROVE  Panel!AggregateJudgeScores(x, m)[c] = Panel!CategoryValue(Panel!Entered(x, c), m)
  BY <1>6 DEF Panel!AggregateJudgeScores
<1> HIDE DEF s, v
<1>7. Counted(as, fe, m, p) = IF v.virtual THEN Append(s, fe) ELSE s
  BY DEF Counted, s, v
<1>8. CASE p = "compare_only"
  <2>1. Counted(as, fe, m, p) = s
    BY <1>5, <1>7, <1>8
  <2>2. QED
    BY <1>2, <1>6, <1>8, <2>1 DEF v
<1>9. CASE p = "gap_fill"
  <2>1. Counted(as, fe, m, p) = s
    BY <1>5, <1>7, <1>9
  <2>2. human[c] = Panel!CategoryValue(Panel!Entered(s, c), m) /\ human[c] # None
    BY <1>6, <2>1
  <2> HIDE DEF human
  <2>3. Panel!ApplyProfileB(human, fe)[c] = human[c]
    BY <2>2 DEF Panel!ApplyProfileB
  <2>4. QED
    BY <1>3, <1>9, <2>1, <2>2, <2>3 DEF v
<1>10. CASE p = "virtual_judge"
  <2>1. Panel!ApplyProfileC(s, fe, m) = Panel!AggregateJudgeScores(Counted(as, fe, m, p), m)
    BY <1>5, <1>7, <1>10 DEF Panel!ApplyProfileC
  <2>2. QED
    BY <1>4, <1>6, <1>10, <2>1 DEF v
<1>11. QED
  BY <1>8, <1>9, <1>10

\* As many judges as the mode trims, together, cannot take a category out of
\* the range of what the others entered, whatever they enter (aggregate_values
\* and resolve_auto_mode), for any number of judges and every mode and profile.
THEOREM TrimmedJudgesCannotTip ==
  ASSUME PanelOK
  PROVE  Panel!Spec => []Panel!TrimResists
<1>1. ASSUME Panel!TypeOK, NEW c \in FormCategories,
             NEW w, w = Panel!Entered(Counted(Panel!Rows, ai, mode, profile), c), Len(w) > 0,
             NEW out \in Panel!kSubset(Panel!Tolerated(mode, Len(w)), 1 .. Len(w))
      PROVE  Panel!Results.panel[c]
               \in (420 * Panel!Min(RestOf(w, out))) .. (420 * Panel!Max(RestOf(w, out)))
  <2> DEFINE as == Panel!Rows
  <2>1. as \in Seq(Panel!Assignment)
    <3>1. judges \in Seq(DOMAIN Assignments)
      BY <1>1 DEF Panel!TypeOK
    <3>2. DOMAIN judges = 1 .. Len(judges) /\ Len(judges) \in Nat
          /\ \A i \in 1 .. Len(judges) : Assignments[judges[i]] \in Panel!Assignment
      BY <1>1, <3>1, LenProperties DEF Panel!TypeOK
    <3>3. as = [i \in 1 .. Len(judges) |-> Assignments[judges[i]]]
      BY <3>2 DEF Panel!Rows
    <3> HIDE DEF as
    <3>4. QED
      BY <3>2, <3>3
  <2>2. ai \in Panel!FreestyleScore \cup {None} /\ profile \in {"compare_only", "gap_fill", "virtual_judge"}
    BY <1>1 DEF Panel!TypeOK, PanelOK
  <2> HIDE DEF as
  <2>3. Counted(as, ai, mode, profile) \in Seq(Panel!FreestyleScore)
    BY <2>1, <2>2, CountedAre DEF PanelOK
  <2>4. w \in Seq(0 .. 10)
    BY <1>1, <2>3, EnteredIs DEF as
  <2>5. out \in SUBSET (1 .. Len(w)) /\ Cardinality(out) = Panel!Tolerated(mode, Len(w))
    <3>1. Panel!Cardinality(out) = Cardinality(out)
      BY DEF Panel!Cardinality, Cardinality
    <3>2. QED
      BY <1>1, <3>1 DEF Panel!kSubset
  <2> DEFINE value == Panel!CategoryValue(w, mode)
  <2>6. value \in (420 * Panel!Min(RestOf(w, out))) .. (420 * Panel!Max(RestOf(w, out)))
    BY <1>1, <2>4, <2>5, ValueWithin
  <2>7. value # None
    BY <2>6 DEF PanelOK
  <2> HIDE DEF value
  <2>8. w # <<>>
    BY <1>1
  <2>9. Panel!VideoResults(as, ai, mode, profile).panel[c] = value
    BY <1>1, <2>2, <2>7, <2>8, PanelValue DEF value, as
  <2>10. Panel!Results.panel[c] = value
    BY <2>9 DEF Panel!Results, as
  <2>11. QED
    BY <2>6, <2>10
<1>2. ASSUME Panel!TypeOK
      PROVE  Panel!TrimResists
  <2> DEFINE pool   == Panel!List(Panel!ElementsAt(Panel!Rows,
                         {i \in DOMAIN Panel!Rows : Panel!Included(Panel!Rows[i])}))
             scores == [i \in DOMAIN pool |-> pool[i].score]
             Values(c) == Panel!Entered(IF Panel!Results.virtual THEN Append(scores, ai) ELSE scores, c)
  <2>1. scores = ScoresOf(Panel!Rows)
    BY SameLists DEF ScoresOf, Pool
  <2>2. ASSUME NEW c \in FormCategories, Len(Values(c)) > 0,
               NEW out \in Panel!kSubset(Panel!Tolerated(mode, Len(Values(c))), 1 .. Len(Values(c)))
        PROVE  Panel!Results.panel[c]
                 \in Panel!Unit * Panel!Min({Values(c)[i] : i \in (1 .. Len(Values(c))) \ out})
                     .. Panel!Unit * Panel!Max({Values(c)[i] : i \in (1 .. Len(Values(c))) \ out})
    <3> DEFINE w == Values(c)
    <3>1. w = Panel!Entered(Counted(Panel!Rows, ai, mode, profile), c)
      BY <2>1 DEF Counted, Panel!Results
    <3>2. Len(w) > 0 /\ out \in Panel!kSubset(Panel!Tolerated(mode, Len(w)), 1 .. Len(w))
      BY <2>2
    <3> HIDE DEF w
    <3>3. Panel!Results.panel[c]
            \in (420 * Panel!Min(RestOf(w, out))) .. (420 * Panel!Max(RestOf(w, out)))
      BY <1>1, <1>2, <3>1, <3>2
    <3>4. QED
      BY <3>3 DEF RestOf, Panel!Unit, w
  <2>3. QED
    BY ONLY <2>2 DEF Panel!TrimResists
<1>3. QED
  BY <1>2, PanelIsTyped, PTL

-----------------------------------------------------------------------------
(* The offline pipeline.                                                   *)

\* The rows, overrides and forms that may be given have the shape of theirs.
FusionOK ==
  /\ DraftPool \subseteq Fusion!AnalysisEvent /\ FlawPool \subseteq Fusion!MajorDeduction
  /\ OverridePool \subseteq Fusion!EventOverride
  /\ Scores \subseteq [Fusion!Categories -> 0 .. 10 \cup {None}]

\* An event is given once.
FusionInv ==
  /\ Fusion!TypeOK
  /\ \A i, j \in DOMAIN drafts : drafts[i].id = drafts[j].id => i = j

\* An override that can be parsed changes one field.
LEMMA CorrectedIs ==
  ASSUME NEW e \in Fusion!AnalysisEvent, NEW o \in Fusion!EventOverride, Fusion!Parses(o)
  PROVE  /\ Fusion!Corrected(e, o) \in Fusion!AnalysisEvent
         /\ Fusion!Corrected(e, o).id = e.id
         /\ Fusion!Corrected(e, o).status
              = IF e.status = "rejected" THEN "rejected" ELSE "edited"
         /\ Fusion!Corrected(e, o).outcome = IF o.field = "outcome" THEN o.value ELSE e.outcome
         /\ o.field = "outcome" => o.value \in Fusion!Outcomes
<1> DEFINE f == CASE o.field = "outcome" -> [e EXCEPT !.outcome = o.value]
                  [] o.field = "family"  -> [e EXCEPT !.family = o.value]
                  [] OTHER -> e
<1>1. Fusion!Corrected(e, o) = IF e.status = "rejected" THEN f ELSE [f EXCEPT !.status = "edited"]
  BY DEF Fusion!Corrected
<1>2. o.field = "outcome" => o.value \in Fusion!Outcomes
  BY DEF Fusion!Parses
<1>3. o.field = "family" => o.value \in Fusion!Positive \cup {"control_miss"}
  BY DEF Fusion!Parses
<1>4. /\ f \in Fusion!AnalysisEvent /\ f.id = e.id /\ f.status = e.status
      /\ f.outcome = IF o.field = "outcome" THEN o.value ELSE e.outcome
  <2>1. CASE o.field = "outcome"
    <3>1. f = [e EXCEPT !.outcome = o.value]
      BY <2>1
    <3>2. QED
      BY <1>2, <2>1, <3>1 DEF Fusion!AnalysisEvent
  <2>2. CASE o.field = "family"
    <3>1. f = [e EXCEPT !.family = o.value]
      BY <2>2
    <3>2. QED
      BY <1>3, <2>2, <3>1 DEF Fusion!AnalysisEvent
  <2>3. CASE o.field # "outcome" /\ o.field # "family"
    <3>1. f = e
      BY <2>3
    <3>2. QED
      BY <2>3, <3>1
  <2>4. QED
    BY <2>1, <2>2, <2>3
<1> HIDE DEF f
<1>5. [f EXCEPT !.status = "edited"] \in Fusion!AnalysisEvent
  BY <1>4 DEF Fusion!AnalysisEvent, Fusion!ReviewStatuses
<1>6. /\ [f EXCEPT !.status = "edited"].id = f.id
      /\ [f EXCEPT !.status = "edited"].status = "edited"
      /\ [f EXCEPT !.status = "edited"].outcome = f.outcome
  BY <1>4 DEF Fusion!AnalysisEvent
<1>7. QED
  BY <1>1, <1>2, <1>4, <1>5, <1>6

\* Whether an override sets the outcome of an event.
Sets(o, e) == o.event = e.id /\ o.field = "outcome" /\ o.value \in Fusion!Outcomes

\* Whether an override is of an event, and can be applied.
Touches(o, e) ==
  o.event = e.id /\ o.field \in Fusion!OverridableEventFields /\ Fusion!Parses(o)

\* The status of an event once it was touched, or not.
Left(e, touched) == IF touched /\ e.status # "rejected" THEN "edited" ELSE e.status

LEMMA TouchedIs ==
  ASSUME NEW n \in Nat, NEW es, DOMAIN es = 1 .. n, NEW o, NEW i \in 1 .. n
  PROVE  Touches(o, es[i]) <=> o.event = es[i].id /\ Fusion!Applies(es, o)
BY DEF Touches, Fusion!Applies, Fusion!Known

LEMMA OverriddenIs ==
  ASSUME NEW n \in Nat, NEW es \in [1 .. n -> Fusion!AnalysisEvent],
         NEW o \in Fusion!EventOverride
  PROVE  /\ Fusion!Overridden(es, o) \in [1 .. n -> Fusion!AnalysisEvent]
         /\ \A i \in 1 .. n :
              /\ Fusion!Overridden(es, o)[i].id = es[i].id
              /\ Fusion!Overridden(es, o)[i].status = Left(es[i], Touches(o, es[i]))
              /\ Fusion!Overridden(es, o)[i].outcome
                   = IF Sets(o, es[i]) THEN o.value ELSE es[i].outcome
<1>1. CASE ~ Fusion!Applies(es, o)
  <2>1. Fusion!Overridden(es, o) = es
    BY <1>1 DEF Fusion!Overridden
  <2>2. ASSUME NEW i \in 1 .. n, Sets(o, es[i])
        PROVE  FALSE
    <3>1. Fusion!Known(es, o.event)
      BY <2>2 DEF Sets, Fusion!Known
    <3>2. o.field \in Fusion!OverridableEventFields
      BY <2>2 DEF Sets, Fusion!OverridableEventFields
    <3>3. Fusion!Parses(o)
      BY <2>2 DEF Sets, Fusion!Parses
    <3>4. QED
      BY <1>1, <3>1, <3>2, <3>3 DEF Fusion!Applies
  <2>3. ASSUME NEW i \in 1 .. n
        PROVE  ~ Touches(o, es[i])
    BY <1>1, TouchedIs
  <2>4. QED
    BY <2>1, <2>2, <2>3 DEF Left
<1>2. CASE Fusion!Applies(es, o)
  <2> DEFINE r == Fusion!Overridden(es, o)
  <2>1. r = [i \in 1 .. n |-> IF es[i].id = o.event THEN Fusion!Corrected(es[i], o) ELSE es[i]]
    BY <1>2 DEF Fusion!Overridden
  <2>2. Fusion!Parses(o)
    BY <1>2 DEF Fusion!Applies
  <2> HIDE DEF r
  <2>3. ASSUME NEW i \in 1 .. n
        PROVE  /\ r[i] \in Fusion!AnalysisEvent
               /\ r[i].id = es[i].id
               /\ r[i].status = Left(es[i], Touches(o, es[i]))
               /\ r[i].outcome = IF Sets(o, es[i]) THEN o.value ELSE es[i].outcome
    <3>1. es[i] \in Fusion!AnalysisEvent
      OBVIOUS
    <3>2. CASE es[i].id = o.event
      <4>1. r[i] = Fusion!Corrected(es[i], o)
        BY <2>1, <3>2
      <4>2. Touches(o, es[i])
        BY <1>2, <3>2, TouchedIs
      <4>3. QED
        BY <2>2, <3>1, <3>2, <4>1, <4>2, CorrectedIs DEF Sets, Left
    <3>3. CASE es[i].id # o.event
      <4>1. r[i] = es[i] /\ ~ Touches(o, es[i])
        BY <2>1, <3>3 DEF Touches
      <4>2. QED
        BY <3>1, <3>3, <4>1 DEF Sets, Left
    <3>4. QED
      BY <3>2, <3>3
  <2>4. r \in [1 .. n -> Fusion!AnalysisEvent]
    BY <2>1, <2>3
  <2>5. QED
    BY <2>3, <2>4 DEF r
<1>3. QED
  BY <1>1, <1>2

\* The loop of apply_overrides: some function goes through the list.
GoesThrough(f, es, os, m) ==
  f = [n \in 0 .. m |-> IF n = 0 THEN es ELSE Fusion!Overridden(f[n - 1], os[n])]

LEMMA LoopExists ==
  ASSUME NEW es, NEW os \in Seq(Fusion!EventOverride)
  PROVE  \E f : GoesThrough(f, es, os, Len(os))
<1> DEFINE N == Len(os)
           S == {m \in 0 .. N : \E f : GoesThrough(f, es, os, m)}
<1>1. N \in Nat
  OBVIOUS
<1>2. 0 \in S
  <2>1. 0 .. 0 = {0}
    OBVIOUS
  <2>2. GoesThrough([n \in 0 .. 0 |-> es], es, os, 0)
    BY <2>1 DEF GoesThrough
  <2>3. QED
    BY <1>1, <2>2
<1>3. ASSUME NEW k \in 0 .. N - 1, k \in S
      PROVE  k + 1 \in S
  <2>1. PICK f : GoesThrough(f, es, os, k)
    BY <1>3
  <2> DEFINE g == [n \in 0 .. k + 1 |-> IF n = k + 1 THEN Fusion!Overridden(f[k], os[k + 1])
                                        ELSE f[n]]
  <2>2. ASSUME NEW n \in 0 .. k + 1
        PROVE  g[n] = IF n = 0 THEN es ELSE Fusion!Overridden(g[n - 1], os[n])
    <3>1. CASE n = k + 1
      <4>1. n # 0 /\ n - 1 = k /\ k # k + 1 /\ k \in 0 .. k + 1
        BY <1>1, <3>1
      <4>2. g[n] = Fusion!Overridden(f[k], os[k + 1]) /\ g[k] = f[k]
        BY <3>1, <4>1
      <4>3. QED
        BY <3>1, <4>1, <4>2
    <3>2. CASE n # k + 1
      <4>1. n \in 0 .. k /\ g[n] = f[n]
        BY <1>1, <3>2
      <4>2. f[n] = IF n = 0 THEN es ELSE Fusion!Overridden(f[n - 1], os[n])
        BY <2>1, <4>1 DEF GoesThrough
      <4>3. n # 0 => g[n - 1] = f[n - 1]
        BY <1>1, <4>1
      <4>4. QED
        BY <4>1, <4>2, <4>3
    <3>3. QED
      BY <3>1, <3>2
  <2>3. DOMAIN g = 0 .. k + 1 /\ g = [n \in 0 .. k + 1 |-> g[n]]
    OBVIOUS
  <2> HIDE DEF g
  <2>4. GoesThrough(g, es, os, k + 1)
    BY <2>2, <2>3 DEF GoesThrough
  <2>5. QED
    BY <1>1, <2>4
<1> HIDE DEF S, N
<1>4. \A k \in 0 .. N : k \in S
  BY <1>1, <1>2, <1>3, Induction
<1>5. N \in S
  BY <1>1, <1>4
<1>6. QED
  BY <1>5 DEF S, N

\* What the first m overrides make of the outcome of an event: the last one
\* that sets it decides.
LastSays(os, e, m, outcome) ==
  \/ (\A k \in 1 .. m : ~ Sets(os[k], e)) /\ outcome = e.outcome
  \/ \E k \in 1 .. m : /\ Sets(os[k], e) /\ outcome = os[k].value
                       /\ \A l \in 1 .. m : Sets(os[l], e) => l <= k

\* The events r after m overrides.
After(es, n, os, m, r) ==
  /\ r \in [1 .. n -> Fusion!AnalysisEvent]
  /\ \A i \in 1 .. n :
       /\ r[i].id = es[i].id
       /\ r[i].status = Left(es[i], \E k \in 1 .. m : Touches(os[k], es[i]))
       /\ LastSays(os, es[i], m, r[i].outcome)

LEMMA NextOverride ==
  ASSUME NEW n \in Nat, NEW es \in [1 .. n -> Fusion!AnalysisEvent],
         NEW os \in Seq(Fusion!EventOverride), NEW m \in Nat, m + 1 \in 1 .. Len(os),
         NEW r, After(es, n, os, m, r)
  PROVE  After(es, n, os, m + 1, Fusion!Overridden(r, os[m + 1]))
<1> DEFINE o == os[m + 1]
           q == Fusion!Overridden(r, o)
<1>1. o \in Fusion!EventOverride
  BY ElementOfSeq
<1>2. r \in [1 .. n -> Fusion!AnalysisEvent]
  BY DEF After
<1> HIDE DEF o
<1>3. /\ q \in [1 .. n -> Fusion!AnalysisEvent]
      /\ \A i \in 1 .. n :
           /\ q[i].id = r[i].id
           /\ q[i].status = Left(r[i], Touches(o, r[i]))
           /\ q[i].outcome = IF Sets(o, r[i]) THEN o.value ELSE r[i].outcome
  BY <1>1, <1>2, OverriddenIs
<1> HIDE DEF q
<1>4. ASSUME NEW i \in 1 .. n
      PROVE  /\ q[i].id = es[i].id
             /\ q[i].status = Left(es[i], \E k \in 1 .. m + 1 : Touches(os[k], es[i]))
             /\ LastSays(os, es[i], m + 1, q[i].outcome)
  <2>1. /\ r[i].id = es[i].id
        /\ r[i].status = Left(es[i], \E k \in 1 .. m : Touches(os[k], es[i]))
        /\ LastSays(os, es[i], m, r[i].outcome)
    BY DEF After
  <2>2. Sets(o, r[i]) <=> Sets(o, es[i])
    BY <2>1 DEF Sets
  <2>3. \A k \in 1 .. m + 1 : k \in 1 .. m \/ k = m + 1
    OBVIOUS
  <2>4. LastSays(os, es[i], m + 1, q[i].outcome)
    <3>1. CASE Sets(o, es[i])
      <4>1. q[i].outcome = o.value
        BY <1>3, <2>2, <3>1
      <4>2. m + 1 \in 1 .. m + 1 /\ \A l \in 1 .. m + 1 : l <= m + 1
        OBVIOUS
      <4>3. QED
        BY <3>1, <4>1, <4>2 DEF LastSays, o
    <3>2. CASE ~ Sets(o, es[i])
      <4>1. q[i].outcome = r[i].outcome
        BY <1>3, <2>2, <3>2
      <4>2. ~ Sets(os[m + 1], es[i])
        BY <3>2 DEF o
      <4>3. \A k \in 1 .. m : k \in 1 .. m + 1
        OBVIOUS
      <4>4. CASE (\A k \in 1 .. m : ~ Sets(os[k], es[i])) /\ r[i].outcome = es[i].outcome
        <5>1. \A k \in 1 .. m + 1 : ~ Sets(os[k], es[i])
          BY <2>3, <4>2, <4>4
        <5>2. QED
          BY <4>1, <4>4, <5>1 DEF LastSays
      <4>5. CASE \E k \in 1 .. m : /\ Sets(os[k], es[i]) /\ r[i].outcome = os[k].value
                                   /\ \A l \in 1 .. m : Sets(os[l], es[i]) => l <= k
        <5>1. PICK k \in 1 .. m : /\ Sets(os[k], es[i]) /\ r[i].outcome = os[k].value
                                  /\ \A l \in 1 .. m : Sets(os[l], es[i]) => l <= k
          BY <4>5
        <5>2. \A l \in 1 .. m + 1 : Sets(os[l], es[i]) => l <= k
          BY <2>3, <4>2, <5>1
        <5>3. k \in 1 .. m + 1
          BY <4>3
        <5>4. QED
          BY <4>1, <5>1, <5>2, <5>3 DEF LastSays
      <4>6. QED
        BY <2>1, <4>4, <4>5 DEF LastSays
    <3>3. QED
      BY <3>1, <3>2
  <2>5. q[i].status = Left(es[i], \E k \in 1 .. m + 1 : Touches(os[k], es[i]))
    <3>1. Touches(o, r[i]) <=> Touches(os[m + 1], es[i])
      BY <2>1 DEF Touches, o
    <3>2. (\E k \in 1 .. m + 1 : Touches(os[k], es[i]))
            <=> Touches(os[m + 1], es[i]) \/ \E k \in 1 .. m : Touches(os[k], es[i])
      <4>1. \A k \in 1 .. m : k \in 1 .. m + 1
        OBVIOUS
      <4>2. m + 1 \in 1 .. m + 1
        OBVIOUS
      <4>3. QED
        BY <2>3, <4>1, <4>2
    <3>3. q[i].status = Left(r[i], Touches(o, r[i]))
      BY <1>3
    <3> DEFINE before == \E k \in 1 .. m : Touches(os[k], es[i])
               now    == \E k \in 1 .. m + 1 : Touches(os[k], es[i])
               last   == Touches(os[m + 1], es[i])
    <3>4. r[i].status = Left(es[i], before) /\ (now <=> last \/ before)
      BY <2>1, <3>2
    <3>5. q[i].status = IF last /\ r[i].status # "rejected" THEN "edited" ELSE r[i].status
      BY <3>1, <3>3 DEF Left
    <3> HIDE DEF before, now, last
    <3>6. q[i].status = Left(es[i], now)
      BY <3>4, <3>5 DEF Left
    <3>7. QED
      BY <3>6 DEF now
  <2>6. QED
    BY <1>3, <2>1, <2>4, <2>5
<1>5. QED
  BY <1>3, <1>4 DEF After, q, o

\* What apply_overrides returns.
LEMMA ApplyIs ==
  ASSUME NEW n \in Nat, NEW es \in [1 .. n -> Fusion!AnalysisEvent],
         NEW os \in Seq(Fusion!EventOverride)
  PROVE  \E r : /\ Fusion!ApplyOverrides(es, os).events = Fusion!List(r)
                /\ After(es, n, os, Len(os), r)
<1> DEFINE f == CHOOSE g : GoesThrough(g, es, os, Len(os))
           S == {m \in 0 .. Len(os) : After(es, n, os, m, f[m])}
<1>1. Fusion!ApplyOverrides(es, os).events = Fusion!List(f[Len(os)])
  BY DEF Fusion!ApplyOverrides, GoesThrough
<1>2. GoesThrough(f, es, os, Len(os))
  BY LoopExists
<1>3. Len(os) \in Nat
  OBVIOUS
<1> HIDE DEF f
<1>4. f = [m \in 0 .. Len(os) |-> IF m = 0 THEN es ELSE Fusion!Overridden(f[m - 1], os[m])]
  BY <1>2 DEF GoesThrough
<1>5. ASSUME NEW m \in 0 .. Len(os)
      PROVE  f[m] = IF m = 0 THEN es ELSE Fusion!Overridden(f[m - 1], os[m])
  BY <1>4
<1>6. 0 \in S
  <2>1. f[0] = es
    BY <1>3, <1>5
  <2>2. After(es, n, os, 0, es)
    <3>1. \A k \in 1 .. 0 : FALSE
      OBVIOUS
    <3>2. QED
      BY <3>1 DEF After, LastSays, Left
  <2>3. QED
    BY <1>3, <2>1, <2>2
<1>7. ASSUME NEW k \in 0 .. Len(os) - 1, k \in S
      PROVE  k + 1 \in S
  <2>1. k + 1 \in 1 .. Len(os) /\ k + 1 \in 0 .. Len(os) /\ k + 1 # 0 /\ k + 1 - 1 = k /\ k \in Nat
    BY <1>3
  <2>2. f[k + 1] = Fusion!Overridden(f[k], os[k + 1])
    BY <1>5, <2>1
  <2>3. After(es, n, os, k + 1, f[k + 1])
    BY <1>7, <2>1, <2>2, NextOverride
  <2>4. QED
    BY <2>1, <2>3
<1> HIDE DEF S
<1>8. \A k \in 0 .. Len(os) : k \in S
  BY <1>3, <1>6, <1>7, Induction
<1>9. After(es, n, os, Len(os), f[Len(os)])
  BY <1>3, <1>8 DEF S
<1>10. QED
  BY <1>1, <1>9

LEMMA FusionInvariant ==
  ASSUME FusionOK
  PROVE  Fusion!Spec => []FusionInv
<1>1. Fusion!Init => FusionInv
  BY DEF Fusion!Init, FusionInv, Fusion!TypeOK
<1>2. ASSUME FusionInv, [Fusion!Next]_(Fusion!vars)
      PROVE  FusionInv'
  <2>0. /\ fusion \in DOMAIN Fusion!PROFILE_CONFIGS
        /\ drafts \in Seq(Fusion!AnalysisEvent) /\ faults \in Seq(Fusion!MajorDeduction)
        /\ overrides \in Seq(Fusion!EventOverride)
        /\ forms \in Seq([Fusion!Categories -> 0 .. 10 \cup {None}])
        /\ \A i, j \in DOMAIN drafts : drafts[i].id = drafts[j].id => i = j
    BY <1>2 DEF FusionInv, Fusion!TypeOK
  <2>1. ASSUME NEW e \in DraftPool, Fusion!AddEvent(e)
        PROVE  FusionInv'
    <3>1. /\ drafts' = Append(drafts, e) /\ ~ Fusion!Known(drafts, e.id)
          /\ fusion' = fusion /\ faults' = faults /\ overrides' = overrides /\ forms' = forms
      BY <2>1 DEF Fusion!AddEvent
    <3>2. drafts' \in Seq(Fusion!AnalysisEvent)
      BY <2>0, <3>1 DEF FusionOK
    <3>3. /\ Len(drafts) \in Nat /\ DOMAIN drafts = 1 .. Len(drafts)
          /\ DOMAIN drafts' = 1 .. Len(drafts) + 1 /\ drafts'[Len(drafts) + 1] = e
          /\ \A i \in 1 .. Len(drafts) : drafts'[i] = drafts[i]
      BY <2>0, <3>1
    <3>4. \A i \in 1 .. Len(drafts) : drafts[i].id # e.id
      BY <3>1, <3>3 DEF Fusion!Known
    <3>5. \A i \in DOMAIN drafts' : i \in 1 .. Len(drafts) \/ i = Len(drafts) + 1
      BY <3>3
    <3>6. ASSUME NEW i \in DOMAIN drafts', NEW j \in DOMAIN drafts', drafts'[i].id = drafts'[j].id
          PROVE  i = j
      BY <2>0, <3>3, <3>4, <3>5, <3>6
    <3>7. QED
      BY <2>0, <3>1, <3>2, <3>6 DEF FusionInv, Fusion!TypeOK
  <2>2. ASSUME NEW d \in FlawPool, Fusion!AddDeduction(d)
        PROVE  FusionInv'
    BY <2>0, <2>2 DEF Fusion!AddDeduction, FusionInv, Fusion!TypeOK, FusionOK
  <2>3. ASSUME NEW o \in OverridePool, Fusion!Override(o)
        PROVE  FusionInv'
    BY <2>0, <2>3 DEF Fusion!Override, FusionInv, Fusion!TypeOK, FusionOK
  <2>4. ASSUME NEW g \in Scores, Fusion!HandIn(g)
        PROVE  FusionInv'
    BY <2>0, <2>4 DEF Fusion!HandIn, FusionInv, Fusion!TypeOK, FusionOK
  <2>5. ASSUME NEW i \in DOMAIN faults, NEW t \in {"confirmed", "rejected", "edited"},
               Fusion!Decide(i, t)
        PROVE  FusionInv'
    <3>1. faults' = [faults EXCEPT ![i].status = t]
      BY <2>5 DEF Fusion!Decide
    <3>2. i \in 1 .. Len(faults) /\ faults[i] \in Fusion!MajorDeduction
      BY <2>0, ElementOfSeq
    <3>3. [faults[i] EXCEPT !.status = t] \in Fusion!MajorDeduction
      BY <3>2 DEF Fusion!MajorDeduction, Fusion!ReviewStatuses
    <3>4. faults' = [faults EXCEPT ![i] = [faults[i] EXCEPT !.status = t]]
      BY <3>1
    <3>5. faults' \in Seq(Fusion!MajorDeduction)
      BY <2>0, <3>2, <3>3, <3>4, ExceptSeq
    <3>6. QED
      BY <2>0, <2>5, <3>5 DEF Fusion!Decide, FusionInv, Fusion!TypeOK
  <2>6. CASE UNCHANGED Fusion!vars
    BY <2>0, <2>6 DEF Fusion!vars, FusionInv, Fusion!TypeOK
  <2>7. QED
    BY <1>2, <2>1, <2>2, <2>3, <2>4, <2>5, <2>6 DEF Fusion!Next
<1>3. QED
  BY <1>1, <1>2, PTL DEF Fusion!Spec

\* The lists of ScoringPipeline are these.
LEMMA SameListsHere ==
  /\ \A s : Fusion!Total(s) = Total(s)
  /\ \A s, places : Fusion!ElementsAt(s, places) = ElementsAt(s, places)
  /\ \A s : Fusion!List(s) = List(s)
  /\ \A T : Fusion!Max(T) = Max(T)
<1>1. \A s : Fusion!Total(s) = Total(s)
  BY DEF Fusion!Total, Total
<1>2. \A T : Fusion!Cardinality(T) = Cardinality(T)
  BY DEF Fusion!Cardinality, Cardinality
<1>3. ASSUME NEW places, NEW k
      PROVE  Fusion!Nth(places, k) = Nth(places, k)
  BY <1>2 DEF Fusion!Nth, Nth
<1>4. ASSUME NEW s, NEW places
      PROVE  Fusion!ElementsAt(s, places) = ElementsAt(s, places)
  BY <1>3, <1>2 DEF Fusion!ElementsAt, ElementsAt
<1>5. \A s : Fusion!List(s) = List(s)
  BY DEF Fusion!List, List
<1>6. \A T : Fusion!Max(T) = Max(T)
  BY DEF Fusion!Max, Max
<1>7. QED
  BY <1>1, <1>4, <1>5, <1>6

\* A sum of less is less.
LEMMA TotalBelow ==
  ASSUME NEW n \in Nat, NEW s \in [1 .. n -> Int], NEW t \in [1 .. n -> Int],
         \A i \in 1 .. n : s[i] <= t[i]
  PROVE  Total(s) <= Total(t)
<1>s. /\ Upto(s, 0) = 0 /\ Total(s) = Upto(s, n)
      /\ \A k \in 0 .. n : Upto(s, k) \in Int
      /\ \A k \in 0 .. n - 1 : Upto(s, k + 1) = Upto(s, k) + s[k + 1]
  BY UptoAdds, ZenonT(30)
<1>t. /\ Upto(t, 0) = 0 /\ Total(t) = Upto(t, n)
      /\ \A k \in 0 .. n : Upto(t, k) \in Int
      /\ \A k \in 0 .. n - 1 : Upto(t, k + 1) = Upto(t, k) + t[k + 1]
  BY UptoAdds, ZenonT(30)
<1> DEFINE S == {k \in 0 .. n : Upto(s, k) <= Upto(t, k)}
<1>1. 0 \in S
  BY <1>s, <1>t
<1>2. ASSUME NEW k \in 0 .. n - 1, k \in S
      PROVE  k + 1 \in S
  <2>0. k \in 0 .. n
    OBVIOUS
  <2>1. /\ Upto(s, k + 1) = Upto(s, k) + s[k + 1] /\ Upto(s, k) \in Int
        /\ Upto(t, k + 1) = Upto(t, k) + t[k + 1] /\ Upto(t, k) \in Int
    BY <1>s, <1>t, <2>0, ZenonT(30)
  <2>2. k + 1 \in 1 .. n /\ k + 1 \in 0 .. n /\ s[k + 1] \in Int /\ t[k + 1] \in Int
        /\ s[k + 1] <= t[k + 1]
    OBVIOUS
  <2>3. Upto(s, k) <= Upto(t, k)
    BY <1>2
  <2>4. PICK u \in Int, v \in Int, x \in Int, y \in Int :
          u = Upto(s, k) /\ v = Upto(t, k) /\ x = s[k + 1] /\ y = t[k + 1]
    BY <2>1, <2>2
  <2>5. u <= v /\ x <= y
    BY <2>2, <2>3, <2>4, ZenonT(30)
  <2>6. u + x <= v + y
    BY ONLY <2>5, u \in Int, v \in Int, x \in Int, y \in Int
  <2>7. Upto(s, k + 1) <= Upto(t, k + 1)
    BY <2>1, <2>4, <2>6
  <2>8. QED
    BY <2>2, <2>7
<1> HIDE DEF S
<1>3. \A k \in 0 .. n : k \in S
  BY <1>1, <1>2, Induction
<1>4. Upto(s, n) <= Upto(t, n)
  BY <1>3 DEF S
<1>5. QED
  BY <1>4, <1>s, <1>t

LEMMA FlagsDoWait ==
  ASSUME FusionInv
  PROVE  Fusion!FlagsWait
<1> DEFINE n == Len(faults)
           Cost(d) == IF Fusion!Counts(d) THEN d.quantity ELSE 0
           Due(d)  == IF Fusion!Stands(d) THEN d.quantity ELSE 0
           Sure(d) == IF d.status = "confirmed" THEN d.quantity ELSE 0
           s == [i \in DOMAIN faults |-> Cost(faults[i])]
           t == [i \in DOMAIN faults |-> Due(faults[i])]
           u == [i \in DOMAIN faults |-> Sure(faults[i])]
<1>1. n \in Nat /\ DOMAIN faults = 1 .. n /\ \A i \in 1 .. n : faults[i] \in Fusion!MajorDeduction
  BY ElementOfSeq DEF FusionInv, Fusion!TypeOK
<1>2. Fusion!Result.penalty = Fusion!Total(s)
  BY DEF Fusion!Result, Fusion!SumOver
<1>3. Fusion!FlagsWait <=> /\ Fusion!Result.penalty <= Fusion!Total(t)
                           /\ Fusion!Result.penalty >= Fusion!Total(u)
  BY DEF Fusion!FlagsWait, Fusion!SumOver
<1>4. \A i \in 1 .. n : faults[i].quantity \in Nat
  BY <1>1 DEF Fusion!MajorDeduction
<1>5. ASSUME NEW i \in 1 .. n
      PROVE  /\ Cost(faults[i]) \in Int /\ Due(faults[i]) \in Int /\ Sure(faults[i]) \in Int
             /\ Cost(faults[i]) <= Due(faults[i]) /\ Sure(faults[i]) <= Cost(faults[i])
  <2>1. Fusion!Counts(faults[i]) => Fusion!Stands(faults[i])
    BY DEF Fusion!Counts, Fusion!MinimumReviewStatusOK, Fusion!Stands
  <2>2. faults[i].status = "confirmed" => Fusion!Counts(faults[i])
    BY DEF Fusion!Counts, Fusion!MinimumReviewStatusOK
  <2>3. QED
    BY <1>4, <2>1, <2>2
<1> HIDE DEF Cost, Due, Sure
<1>6. /\ s \in [1 .. n -> Int] /\ t \in [1 .. n -> Int] /\ u \in [1 .. n -> Int]
      /\ \A i \in 1 .. n : s[i] <= t[i] /\ u[i] <= s[i]
  BY <1>1, <1>5
<1> HIDE DEF s, t, u, n
<1>7. Total(s) <= Total(t) /\ Total(u) <= Total(s)
  BY <1>1, <1>6, TotalBelow
<1>8. Total(s) \in Int /\ Total(u) \in Int
  BY <1>1, <1>6, UptoAdds
<1>9. Total(s) >= Total(u)
  <2>1. PICK x \in Int, y \in Int : x = Total(s) /\ y = Total(u)
    BY <1>8
  <2>2. QED
    BY <1>7, <2>1
<1>10. QED
  BY <1>2, <1>3, <1>7, <1>9, SameListsHere

LEMMA JudgesDoStay == Fusion!JudgesStay
<1>1. \/ Fusion!Result.evaluation = Fusion!Base
      \/ \E estimates : Fusion!Result.evaluation = Fusion!FillGaps(Fusion!Base, estimates)
  BY DEF Fusion!Result
<1>2. "showmanship" \in Fusion!Categories /\ "showmanship" \notin Fusion!Estimatable
  BY DEF Fusion!Categories, Fusion!Estimatable
<1>3. ASSUME NEW estimates, NEW c \in Fusion!Categories,
             Fusion!Base[c] # None \/ c \notin Fusion!Estimatable
      PROVE  Fusion!FillGaps(Fusion!Base, estimates)[c] = Fusion!Base[c]
  BY <1>3 DEF Fusion!FillGaps
<1>4. QED
  BY <1>1, <1>2, <1>3 DEF Fusion!JudgesStay

LEMMA OverridesDoStand ==
  ASSUME FusionInv
  PROVE  Fusion!OverridesStand
<1> DEFINE n == Len(drafts)
<1>1. /\ n \in Nat /\ drafts \in [1 .. n -> Fusion!AnalysisEvent] /\ DOMAIN drafts = 1 .. n
      /\ overrides \in Seq(Fusion!EventOverride)
      /\ \A i, j \in 1 .. n : drafts[i].id = drafts[j].id => i = j
  BY DEF FusionInv, Fusion!TypeOK
<1>2. Len(overrides) \in Nat /\ DOMAIN overrides = 1 .. Len(overrides)
  BY <1>1
<1> HIDE DEF n
<1>3. PICK r : /\ Fusion!ApplyOverrides(drafts, overrides).events = Fusion!List(r)
               /\ After(drafts, n, overrides, Len(overrides), r)
  BY <1>1, ApplyIs
<1>4. /\ r \in [1 .. n -> Fusion!AnalysisEvent] /\ r \in Seq(Fusion!AnalysisEvent)
      /\ Len(r) = n
  BY <1>1, <1>3 DEF After
<1>5. Fusion!Result.corrected = r
  <2>1. Fusion!List(r) = r
    BY <1>4, ListIs, SameListsHere
  <2>2. QED
    BY <1>3, <2>1 DEF Fusion!Result
<1>6. Len(Fusion!Result.log) = Len(overrides)
  <2> DEFINE after == CHOOSE g : GoesThrough(g, drafts, overrides, Len(overrides))
             log == [k \in DOMAIN overrides |-> Fusion!Applies(after[k - 1], overrides[k])]
  <2>1. Fusion!Result.log = log
    BY DEF Fusion!Result, Fusion!ApplyOverrides, GoesThrough
  <2> HIDE DEF after
  <2>2. Len(log) = Len(overrides)
    BY <1>2
  <2>3. QED
    BY <2>1, <2>2
<1> DEFINE scored == {i \in DOMAIN r : Fusion!MinimumReviewStatusOK(r[i].status)}
<1>7. Fusion!Result.events = ElementsAt(r, scored)
  <2>1. Fusion!Result.events = Fusion!List(Fusion!ElementsAt(r, scored))
    BY <1>5 DEF Fusion!Result
  <2>2. scored \in SUBSET (1 .. Len(r))
    BY <1>4
  <2> HIDE DEF scored
  <2>3. ElementsAt(r, scored) \in Seq(Fusion!AnalysisEvent)
    BY <1>4, <2>2, KeptInOrder
  <2>4. QED
    BY <2>1, <2>3, ListIs, SameListsHere
<1>8. ASSUME NEW i \in 1 .. n
      PROVE  LET e == drafts[i]
                 applied == {k \in DOMAIN overrides : /\ overrides[k].event = e.id
                                                      /\ overrides[k].field = "outcome"
                                                      /\ overrides[k].value \in Fusion!Outcomes}
                 expected == IF applied = {} THEN e.outcome ELSE overrides[Fusion!Max(applied)].value
             IN  r[i].outcome = expected
  <2> DEFINE e == drafts[i]
             applied == {k \in DOMAIN overrides : /\ overrides[k].event = e.id
                                                  /\ overrides[k].field = "outcome"
                                                  /\ overrides[k].value \in Fusion!Outcomes}
  <2>1. \A k : k \in applied <=> k \in 1 .. Len(overrides) /\ Sets(overrides[k], e)
    BY <1>2 DEF Sets
  <2>2. LastSays(overrides, e, Len(overrides), r[i].outcome)
    BY <1>3 DEF After
  <2>3. r[i].outcome = IF applied = {} THEN e.outcome ELSE overrides[Fusion!Max(applied)].value
    <3> HIDE DEF applied, e
    <3>1. CASE (\A k \in 1 .. Len(overrides) : ~ Sets(overrides[k], e)) /\ r[i].outcome = e.outcome
      BY <2>1, <3>1
    <3>2. CASE \E k \in 1 .. Len(overrides) :
                 /\ Sets(overrides[k], e) /\ r[i].outcome = overrides[k].value
                 /\ \A l \in 1 .. Len(overrides) : Sets(overrides[l], e) => l <= k
      <4>1. PICK k \in 1 .. Len(overrides) :
              /\ Sets(overrides[k], e) /\ r[i].outcome = overrides[k].value
              /\ \A l \in 1 .. Len(overrides) : Sets(overrides[l], e) => l <= k
        BY <3>2
      <4>2. k \in applied /\ k \in Int /\ \A l \in applied : l \in Int /\ l <= k
        BY <1>2, <2>1, <4>1
      <4>3. Max(applied) = k
        <5>1. \A l \in applied : k >= l
          BY <4>2
        <5>2. \E x \in applied : \A l \in applied : x >= l
          BY <4>2, <5>1
        <5>3. Max(applied) \in applied /\ \A l \in applied : Max(applied) >= l
          BY ONLY <5>2 DEF Max
        <5>4. Max(applied) \in Int /\ Max(applied) <= k /\ Max(applied) >= k
          BY ONLY <4>2, <5>3
        <5>5. PICK m \in Int : m = Max(applied)
          BY <5>4
        <5>6. QED
          BY ONLY <4>2, <5>4, <5>5
      <4>4. QED
        BY <4>1, <4>2, <4>3, SameListsHere
    <3>3. QED
      BY <2>2, <3>1, <3>2 DEF LastSays
  <2>4. QED
    BY <2>3
<1> DEFINE kept == ElementsAt(r, scored)
<1>9. /\ \A k \in DOMAIN kept : \E j \in scored : kept[k] = r[j]
      /\ \A j \in scored : \E k \in DOMAIN kept : kept[k] = r[j]
  <2>1. scored \in SUBSET (1 .. Len(r))
    BY <1>4
  <2> HIDE DEF scored
  <2>2. /\ kept \in Seq(Fusion!AnalysisEvent)
        /\ \A k \in 1 .. Len(kept) : \E j \in scored : kept[k] = r[j]
        /\ \A j \in scored : \E k \in 1 .. Len(kept) : kept[k] = r[j]
    BY ONLY <1>4, <2>1, KeptInOrder
  <2> HIDE DEF kept
  <2>3. DOMAIN kept = 1 .. Len(kept)
    BY <2>2
  <2>4. QED
    BY <2>2, <2>3
<1>10. /\ \A i \in 1 .. n : r[i].id = drafts[i].id
       /\ \A i, j \in 1 .. n : r[i].id = r[j].id => i = j
  BY <1>1, <1>3 DEF After
<1>11. scored \in SUBSET (1 .. n)
  BY <1>4
<1>12. ASSUME NEW i \in 1 .. n
       PROVE  i \in scored <=>
                IF Fusion!PROFILE_CONFIGS[fusion].confirmed
                THEN /\ drafts[i].status = "confirmed"
                     /\ ~ \E k \in DOMAIN overrides : /\ overrides[k].event = drafts[i].id
                                                      /\ Fusion!Applies(drafts, overrides[k])
                ELSE drafts[i].status # "rejected"
  <2> DEFINE touched == \E k \in DOMAIN overrides : /\ overrides[k].event = drafts[i].id
                                                    /\ Fusion!Applies(drafts, overrides[k])
  <2>1. touched <=> \E k \in 1 .. Len(overrides) : Touches(overrides[k], drafts[i])
    BY <1>1, <1>2, TouchedIs
  <2>2. r[i].status = Left(drafts[i], touched)
    BY <1>3, <2>1 DEF After
  <2>3. i \in scored <=> /\ r[i].status # "rejected"
                         /\ Fusion!PROFILE_CONFIGS[fusion].confirmed => r[i].status = "confirmed"
    BY <1>4 DEF Fusion!MinimumReviewStatusOK
  <2> HIDE DEF touched, scored
  <2>4. QED
    BY <2>2, <2>3 DEF Left, touched
<1> HIDE DEF scored
<1>13. Fusion!Result.events = kept
  BY <1>7
<1> HIDE DEF kept
<1>14. ASSUME NEW k \in DOMAIN kept
       PROVE  \E j \in scored : kept[k] = r[j] /\ kept[k].id = drafts[j].id /\ j \in 1 .. n
  BY <1>9, <1>10, <1>11
<1>15. \A k \in DOMAIN kept : Fusion!Known(drafts, kept[k].id)
  BY <1>1, <1>14 DEF Fusion!Known
<1>16. ASSUME NEW i \in 1 .. n, NEW k \in DOMAIN kept, kept[k].id = drafts[i].id
       PROVE  kept[k] = r[i] /\ i \in scored
  BY <1>1, <1>14, <1>16
<1>17. ASSUME NEW i \in 1 .. n
       PROVE  Fusion!Known(kept, drafts[i].id) <=> i \in scored
  BY <1>9, <1>10, <1>16 DEF Fusion!Known
<1>18. QED
  <2> SUFFICES ASSUME NEW i \in 1 .. n
               PROVE  LET e == drafts[i]
                          applied == {k \in DOMAIN overrides :
                                        /\ overrides[k].event = e.id
                                        /\ overrides[k].field = "outcome"
                                        /\ overrides[k].value \in Fusion!Outcomes}
                          expected == IF applied = {} THEN e.outcome
                                      ELSE overrides[Fusion!Max(applied)].value
                          touched == \E k \in DOMAIN overrides :
                                       /\ overrides[k].event = e.id
                                       /\ Fusion!Applies(drafts, overrides[k])
                      IN  /\ \A k \in DOMAIN kept : kept[k].id = e.id => kept[k].outcome = expected
                          /\ Fusion!Known(kept, e.id) <=>
                               IF Fusion!PROFILE_CONFIGS[fusion].confirmed
                               THEN e.status = "confirmed" /\ ~ touched
                               ELSE e.status # "rejected"
    BY <1>1, <1>6, <1>13, <1>15 DEF Fusion!OverridesStand
  <2>1. QED
    BY <1>8, <1>12, <1>16, <1>17

\* A deduction that was rejected costs nothing, nor does a dangerous-play flag
\* until a person confirms it, and a confirmed one costs its quantity under every
\* profile; what a judge entered is never replaced by an estimate; an event is
\* scored as the last override of its outcome left it, and whether it is scored
\* follows from what people said of it and the profile (run_scoring_pipeline), for
\* any rows, overrides, forms and profiles.
THEOREM PeopleDecide ==
  ASSUME FusionOK
  PROVE  Fusion!Spec => []Fusion!HumanDecides
<1>1. FusionInv => Fusion!HumanDecides
  BY FlagsDoWait, JudgesDoStay, OverridesDoStand DEF Fusion!HumanDecides
<1>2. QED
  BY <1>1, FusionInvariant, PTL

=============================================================================
