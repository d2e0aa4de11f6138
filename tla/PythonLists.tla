---------------------------- MODULE PythonLists -----------------------------
(***************************************************************************)
(* What the components share of Python's lists and numbers: sorting is     *)
(* stable.  Sorting, selecting and summing are defined by places and by a  *)
(* recursive function, so that they can be reasoned about (ScoringProofs). *)
(***************************************************************************)
EXTENDS Integers, FiniteSets, SequencesExt

\* Where an element comes by its key: equal keys keep their order.
Sooner(keys, i, j) == keys[i] < keys[j] \/ (keys[i] = keys[j] /\ i < j)

Place(keys, i) == Cardinality({j \in DOMAIN keys : Sooner(keys, j, i)}) + 1

Sorting(keys) == [k \in DOMAIN keys |-> CHOOSE i \in DOMAIN keys : Place(keys, i) = k]

\* sorted(s, key=Key)
SortedBy(s, Key(_)) ==
  LET order == Sorting([i \in DOMAIN s |-> Key(s[i])])
  IN  [k \in DOMAIN s |-> s[order[k]]]

\* The k-th of a set of places.
Nth(places, k) == CHOOSE i \in places : Cardinality({j \in places : j <= i}) = k

\* A list comprehension with a condition: the elements at the places that meet it.
ElementsAt(s, places) == [k \in 1 .. Cardinality(places) |-> s[Nth(places, k)]]

\* A function on 1 .. n as a list.  TLC computes a concatenation once, and a
\* function wherever it is applied.
List(f) == f \o <<>>

Abs(x) == IF x < 0 THEN -x ELSE x

\* sum(s)
Total(s) ==
  LET sum[n \in 0 .. Len(s)] == IF n = 0 THEN 0 ELSE sum[n - 1] + s[n]
  IN  sum[Len(s)]

\* sum(F(x) for x in s)
SumOver(F(_), s) == Total([i \in DOMAIN s |-> F(s[i])])
=============================================================================
