---------------------------- MODULE PlayerSplits ----------------------------
(***************************************************************************)
(* The splitting of clips into train, validation and test by player, so    *)
(* that no player is in two of them (dataset/splits.py and events/train.py *)
(* have one copy each).                                                    *)
(*                                                                         *)
(* clips gives the number of clips of each player, ratios are percentages. *)
(* The seeded shuffle is any order of the players.                         *)
(***************************************************************************)
EXTENDS Integers, FiniteSets, SequencesExt

Splits == {"train", "val", "test"}

\* split_order: by ratio, the largest first.  The three equal-looking ratios of
\* the two callers do not sort alike: 1.0 - 0.7 - 0.15 is above 0.15.
CorpusOrder   == <<"train", "val", "test">>
TrainingOrder == <<"train", "test", "val">>

\* round(): a half goes to the even one.
RoundHalfEven(n, d) ==
  LET q == n \div d  r == n % d
  IN  IF 2 * r < d \/ (2 * r = d /\ q % 2 = 0) THEN q ELSE q + 1

TargetCounts(ratios, total) == [s \in Splits |-> RoundHalfEven(ratios[s] * total, 100)]

\* running / target of a is below that of b; a target of 0 makes it infinite.
Below(a, b, running, targets) ==
  targets[a] > 0 /\ (targets[b] = 0 \/ running[a] * targets[b] < running[b] * targets[a])

\* min over split_order: the first of the smallest.
BestSplit(order, running, targets) ==
  LET Least(i) == \A j \in DOMAIN order : ~Below(order[j], order[i], running, targets)
  IN  order[Min({i \in DOMAIN order : Least(i)})]

\* Each player in turn goes to the split that is furthest below its target.
Assignment(clips, players, order, ratios) ==
  LET targets == TargetCounts(ratios, MapThenSumSet(LAMBDA p : clips[p], DOMAIN clips))
      Assign(acc, p) ==
        LET s == BestSplit(order, acc.running, targets)
        IN  [of |-> (p :> s) @@ acc.of, running |-> [acc.running EXCEPT ![s] = @ + clips[p]]]
  IN  FoldLeft(Assign, [of |-> <<>>, running |-> [s \in Splits |-> 0]], players).of

Orders(S) == {s \in [1 .. Cardinality(S) -> S] : IsInjective(s)}
=============================================================================
