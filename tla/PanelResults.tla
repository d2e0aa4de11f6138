---------------------------- MODULE PanelResults ----------------------------
(***************************************************************************)
(* The result of one video of a judging entry: the judges' freestyle       *)
(* scores and clicks, aggregated and mixed with the evaluation of the      *)
(* analysis (services/judging_results_service.py over                      *)
(* ml/scoring/judges.py).                                                  *)
(*                                                                         *)
(* A mean is an integer in 1/Unit of a point.  Nothing depends on the      *)
(* order of the assignments, so they join in one order only.               *)
(***************************************************************************)
EXTENDS PythonLists

CONSTANTS
  Assignments,  (* A sequence of the judges that may join.                  *)
  MaxJudges,    (* Bound: the judges of the entry.                          *)
  Once,         (* Bound: the assignments that join once at most.           *)
  Evaluations,  (* The freestyle evaluations of the official analysis.      *)
  Categories,   (* FE_CATEGORIES.                                           *)
  Modes,        (* The aggregation modes to consider.                       *)
  Profiles,     (* The mix profiles to consider.                            *)
  None

Unit == 420      \* Divided by every number of judges up to seven.
Disagreement == 3

VARIABLES
  mode,         (* aggregation_mode of the entry.                           *)
  profile,      (* ai_mix_profile of the entry.                             *)
  judges,       (* The assignments, as indices of Assignments.              *)
  ai            (* The evaluation of the official analysis, or None.        *)

vars == <<mode, profile, judges, ai>>

-----------------------------------------------------------------------------
\* JudgeFreestyleScore: a category may be left empty.
FreestyleScore == [Categories -> 0 .. 10 \cup {None}]
NoScore == [c \in Categories |-> None]

Assignment ==
  [score : FreestyleScore \cup {None}, submitted : BOOLEAN,
   include : BOOLEAN, shadow : BOOLEAN, positive : Nat, negative : Nat]

TypeOK ==
  /\ mode \in Modes /\ profile \in Profiles
  /\ judges \in Seq(DOMAIN Assignments)
  /\ \A i \in DOMAIN judges : Assignments[judges[i]] \in Assignment
  /\ ai \in Evaluations \cup {None}

-----------------------------------------------------------------------------
(* scoring/judges.py.                                                      *)

Mean(values) == (Unit * Total(values)) \div Len(values)

Ascending(values) == List(SortedBy(values, LAMBDA v : v))

ResolveAuto(count) ==
  CASE count < 5 -> "simple_mean" [] count \in 5 .. 6 -> "trim_1" [] count > 6 -> "trim_2"

\* Mutant: the lowest values are kept.
TrimmedTop(values, drop) ==
  Mean(SubSeq(Ascending(values), 1, Len(values) - drop))

TrimmedMean(values, drop) ==
  Mean(SubSeq(Ascending(values), drop + 1, Len(values) - drop))

\* With too few values for the trim the code warns and takes the mean.
CategoryValue(values, m) ==
  LET effective == IF m = "auto" THEN ResolveAuto(Len(values)) ELSE m
  IN  CASE effective = "trim_1" /\ Len(values) >= 3 -> TrimmedMean(values, 1)
        [] effective = "trim_2" /\ Len(values) >= 5 -> TrimmedMean(values, 2)
        [] OTHER -> Mean(values)

\* What the judges that filled in a category entered.
Entered(scores, c) ==
  List(ElementsAt([i \in DOMAIN scores |-> scores[i][c]],
                  {i \in DOMAIN scores : scores[i][c] # None}))

AggregateJudgeScores(scores, m) ==
  [c \in Categories |->
     IF Entered(scores, c) = <<>> THEN None ELSE CategoryValue(Entered(scores, c), m)]

\* The categories the judges disagree on.
Disputed(scores) ==
  {c \in Categories : LET v == Entered(scores, c)
                      IN  Len(v) > 1 /\ Max(Range(v)) - Min(Range(v)) >= Disagreement}

-----------------------------------------------------------------------------
(* judging_results_service.py.                                             *)

\* A judge without a form and without clicks is not listed at all.
Listed(a) == a.score # None \/ a.positive + a.negative > 0

\* Mutant: a draft counts.
IncludedDraft(a) == a.score # None /\ a.include /\ ~a.shadow

Included(a) == a.score # None /\ a.submitted /\ a.include /\ ~a.shadow

\* The values of an evaluation in the unit of a mean.
Scaled(fe) == [c \in Categories |-> IF fe[c] = None THEN None ELSE Unit * fe[c]]

\* _apply_profile_b: the evaluation fills the gaps.
ApplyProfileB(human, fe) ==
  IF fe = None THEN human
  ELSE [c \in Categories |-> IF human[c] = None THEN Scaled(fe)[c] ELSE human[c]]

\* _apply_profile_c: the evaluation is one more judge, who may tip the
\* number of values over a threshold of the automatic mode.
Virtual(fe) == fe # None /\ \E c \in Categories : fe[c] # None
ApplyProfileC(scores, fe, m) ==
  AggregateJudgeScores(IF Virtual(fe) THEN Append(scores, fe) ELSE scores, m)

\* compute_entry_results, for one video.
VideoResults(as, fe, m, p) ==
  LET pool   == List(ElementsAt(as, {i \in DOMAIN as : Included(as[i])}))
      scores == [i \in DOMAIN pool |-> pool[i].score]
      nets   == [i \in DOMAIN pool |-> pool[i].positive - pool[i].negative]
      human  == AggregateJudgeScores(scores, m)
  IN  [listed   |-> Cardinality({i \in DOMAIN as : Listed(as[i])}),
       human    |-> human,
       panel    |-> CASE p = "compare_only" -> human
                      [] p = "gap_fill" -> ApplyProfileB(human, fe)
                      [] p = "virtual_judge" -> ApplyProfileC(scores, fe, m),
       virtual  |-> p = "virtual_judge" /\ Virtual(fe),
       disputed |-> Disputed(scores),
       net      |-> IF nets = <<>> THEN None ELSE Mean(nets),
       range    |-> IF nets = <<>> THEN None ELSE Max(Range(nets)) - Min(Range(nets))]

Rows == [i \in DOMAIN judges |-> Assignments[judges[i]]]
Results == VideoResults(Rows, ai, mode, profile)

-----------------------------------------------------------------------------
Init ==
  /\ mode \in Modes /\ profile \in Profiles
  /\ judges = <<>>
  /\ ai = None

\* A judge is assigned and fills in the form.
Join(k) ==
  /\ Len(judges) < MaxJudges
  /\ judges # <<>> => judges[Len(judges)] < k \/ (judges[Len(judges)] = k /\ k \notin Once)
  /\ judges' = Append(judges, k)
  /\ UNCHANGED <<mode, profile, ai>>

\* The analysis of the video gets its evaluation.
Analyse(fe) ==
  /\ ai = None
  /\ ai' = fe
  /\ UNCHANGED <<mode, profile, judges>>

Next ==
  \/ \E k \in DOMAIN Assignments : Join(k)
  \/ \E fe \in Evaluations : Analyse(fe)

Spec == Init /\ [][Next]_vars

-----------------------------------------------------------------------------
\* A shadow judge, an excluded one, a draft and a judge who has only clicked
\* leave no trace in what is aggregated, and under compare_only neither does
\* the analysis.
OnlyIncludedCount ==
  LET results == Results
      real    == {i \in DOMAIN Rows : Rows[i].submitted /\ Rows[i].include /\ ~Rows[i].shadow}
      counted == List(ElementsAt(Rows, real))
      alone   == VideoResults(counted, ai, mode, profile)
  IN  /\ results.panel = alone.panel /\ results.human = alone.human
      /\ results.net = alone.net /\ results.range = alone.range
      /\ results.human = VideoResults(Rows, None, mode, "compare_only").panel

\* How many judges of n a mode protects the panel from.
Tolerated(m, n) ==
  CASE m = "trim_1" /\ n >= 3 -> 1 [] m = "trim_2" /\ n >= 5 -> 2
    [] m = "auto" /\ n \in 5 .. 6 -> 1 [] m = "auto" /\ n >= 7 -> 2 [] OTHER -> 0

\* As many judges as the mode trims, together, cannot take a category out of
\* the range of what the others entered, whatever they enter; with a virtual
\* judge the panel counts the analysis among the judges.
TrimResists ==
  LET results == Results
      pool    == List(ElementsAt(Rows, {i \in DOMAIN Rows : Included(Rows[i])}))
      scores  == [i \in DOMAIN pool |-> pool[i].score]
  IN  \A c \in Categories :
        LET values == Entered(IF results.virtual THEN Append(scores, ai) ELSE scores, c)
            n      == Len(values)
            panel  == results.panel[c]
        IN  n > 0 => \A out \in kSubset(Tolerated(mode, n), 1 .. n) :
                       LET rest == {values[i] : i \in (1 .. n) \ out}
                       IN  panel \in Unit * Min(rest) .. Unit * Max(rest)
=============================================================================
