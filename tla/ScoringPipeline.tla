-------------------------- MODULE ScoringPipeline ---------------------------
(***************************************************************************)
(* The offline scoring of one routine under a profile (ml/scoring:         *)
(* pipeline.py, overrides.py, profiles.py, fe_estimators.py): overrides of *)
(* events, the gates on what counts, the judges' freestyle scores and the  *)
(* estimates that fill their gaps.  The points are ScoringEngine's; here a *)
(* deduction is worth its quantity.                                        *)
(*                                                                         *)
(* An estimate is an integer in 1/Unit of a point.  Confidences, warnings  *)
(* and the resampling of the confidence interval are left out, but for     *)
(* when there is an interval.                                              *)
(***************************************************************************)
EXTENDS PythonLists

CONSTANTS
  EventPool,      (* The rows of events that may be given.                  *)
  DeductionPool,  (* The rows of deductions that may be given.              *)
  OverridePool,   (* The overrides a reviewer may list.                     *)
  Scores,         (* The freestyle forms a judge may hand in.               *)
  FromFeatures,   (* The estimates of space_use_emphasis and body_control.  *)
  MaxRows,        (* Bound: the rows, overrides and forms of a routine.     *)
  None

Unit == 240
Estimatable == {"execution", "control", "trick_diversity", "space_use_emphasis",
                "music_choreography", "music_construction", "body_control"}
Categories  == Estimatable \cup {"showmanship"}

Positive == {"hop", "suicide"}          \* Two of the sixteen families.
NumPositive == 16
Outcomes == {"success", "miss", "uncertain"}

VARIABLES
  profile,     (* The scoring profile.                                      *)
  events,      (* The rows of events ...                                    *)
  deductions,  (* ... and of deductions, with their review status.          *)
  overrides,   (* The overrides, in the order they were entered.            *)
  forms        (* The forms of the judges.                                  *)

vars == <<profile, events, deductions, overrides, forms>>

-----------------------------------------------------------------------------
ReviewStatuses == {"pending", "confirmed", "rejected", "edited"}

AnalysisEvent ==
  [id : Nat, family : Positive \cup {"control_miss"}, outcome : Outcomes,
   status : ReviewStatuses]

MajorDeduction ==
  [id : Nat, type : {"yoyo_stop", "dangerous_play_review"}, quantity : Nat \ {0},
   status : ReviewStatuses]

\* The field may be one that cannot be overridden, the value one that cannot
\* be parsed, and the event unknown.
EventOverride == [event : Nat, field : STRING, value : STRING]

\* ScoringProfileConfig.
PROFILE_CONFIGS ==
  [practice     |-> [confirmed |-> FALSE, estimates |-> TRUE, interval |-> FALSE],
   judge_assist |-> [confirmed |-> FALSE, estimates |-> TRUE, interval |-> TRUE],
   research     |-> [confirmed |-> TRUE,  estimates |-> TRUE, interval |-> TRUE]]

TypeOK ==
  /\ profile \in DOMAIN PROFILE_CONFIGS
  /\ events \in Seq(AnalysisEvent) /\ deductions \in Seq(MajorDeduction)
  /\ overrides \in Seq(EventOverride)
  /\ forms \in Seq([Categories -> 0 .. 10 \cup {None}])

-----------------------------------------------------------------------------
(* overrides.py.                                                           *)

OverridableEventFields ==
  {"label", "family", "start_ms", "end_ms", "outcome", "difficulty_band", "confidence"}

\* _parse_field_value succeeds; of the enumerations only these two are used.
Parses(o) ==
  CASE o.field = "outcome" -> o.value \in Outcomes
    [] o.field = "family"  -> o.value \in Positive \cup {"control_miss"}
    [] OTHER -> TRUE

Known(es, id) == \E i \in DOMAIN es : es[i].id = id

Applies(es, o) == o.field \in OverridableEventFields /\ Known(es, o.event) /\ Parses(o)

Corrected(e, o) ==
  LET f == CASE o.field = "outcome" -> [e EXCEPT !.outcome = o.value]
             [] o.field = "family"  -> [e EXCEPT !.family = o.value]
             [] OTHER -> e
  IN  IF e.status = "rejected" THEN f ELSE [f EXCEPT !.status = "edited"]

Overridden(es, o) ==
  IF ~Applies(es, o) THEN es
  ELSE [i \in DOMAIN es |-> IF es[i].id = o.event THEN Corrected(es[i], o) ELSE es[i]]

\* apply_overrides, in list order; the log says of each whether it applied.
ApplyOverrides(es, os) ==
  LET after[n \in 0 .. Len(os)] == IF n = 0 THEN es ELSE Overridden(after[n - 1], os[n])
  IN  [events |-> List(after[Len(os)]),
       log    |-> [n \in DOMAIN os |-> Applies(after[n - 1], os[n])]]

-----------------------------------------------------------------------------
(* profiles.py and the gates of the pipeline.                              *)

MinimumReviewStatusOK(status) ==
  /\ status # "rejected"
  /\ PROFILE_CONFIGS[profile].confirmed => status = "confirmed"

RequiresConfirmation(d) == d.type = "dangerous_play_review"

\* Mutant: in practice a proposed flag counts like any deduction.
CountsUnlessRejected(d) == MinimumReviewStatusOK(d.status)

\* Both gates: of the profile, and of a rule that asks for a confirmation.
Counts(d) ==
  /\ MinimumReviewStatusOK(d.status)
  /\ RequiresConfirmation(d) => d.status = "confirmed"

Awaiting(ds) ==
  SelectSeq(ds, LAMBDA d : RequiresConfirmation(d) /\ d.status \notin {"rejected", "confirmed"})

-----------------------------------------------------------------------------
(* fe_estimators.py.                                                       *)

Count(es, families) == Len(SelectSeq(es, LAMBDA e : e.family \in families))

\* Share of the attempts that succeeded; None without an attempt.
EstimateExecution(es) ==
  LET attempts == Count(es, Positive)
      landed   == Count(SelectSeq(es, LAMBDA e : e.outcome = "success"), Positive)
  IN  IF attempts = 0 THEN None ELSE (10 * Unit * landed) \div attempts

EstimateControl(es) ==
  LET attempts == Len(es)
      misses   == Count(es, {"control_miss"})
  IN  IF attempts = 0 THEN None ELSE 10 * Unit - (10 * Unit * misses) \div attempts

\* Never None: nothing landed is worth 0.
EstimateDiversity(es) ==
  (10 * Unit * Cardinality({es[i].family : i \in {k \in DOMAIN es :
      es[k].family \in Positive /\ es[k].outcome = "success"}})) \div NumPositive

\* The two categories of the music have no estimate, showmanship no estimator.
EstimateAll(es) ==
  [c \in Estimatable |->
     CASE c = "execution"       -> EstimateExecution(es)
       [] c = "control"         -> EstimateControl(es)
       [] c = "trick_diversity" -> EstimateDiversity(es)
       [] c \in {"space_use_emphasis", "body_control"} -> FromFeatures[c]
       [] OTHER -> None]

-----------------------------------------------------------------------------
(* pipeline.py.                                                            *)

\* aggregate_judge_scores: the mean of what the judges entered.
JudgesValue(c) ==
  LET v == SelectSeq([i \in DOMAIN forms |-> forms[i][c]], LAMBDA x : x # None)
  IN  IF v = <<>> THEN None ELSE (Unit * FoldLeft(+, 0, v)) \div Len(v)

Base == [c \in Categories |-> JudgesValue(c)]

\* _fill_fe_gaps.
FillGaps(ev, estimates) ==
  [c \in Categories |-> IF ev[c] # None \/ c \notin Estimatable THEN ev[c] ELSE estimates[c]]

SourceLabel(human, used) ==
  CASE human /\ used -> "human+estimated" [] human /\ ~used -> "human"
    [] ~human /\ used -> "estimated"      [] ~human /\ ~used -> "none"

\* run_scoring_pipeline.
Result ==
  LET config     == PROFILE_CONFIGS[profile]
      overridden == ApplyOverrides(events, overrides)
      corrected  == overridden.events
      scored     == {i \in DOMAIN corrected : MinimumReviewStatusOK(corrected[i].status)}
      counted    == List(ElementsAt(corrected, scored))
      estimates  == EstimateAll(counted)
      filled     == IF config.estimates THEN FillGaps(Base, estimates) ELSE Base
  IN  [corrected  |-> corrected,
       log        |-> overridden.log,
       events     |-> counted,
       penalty    |-> SumOver(LAMBDA d : IF Counts(d) THEN d.quantity ELSE 0, deductions),
       awaiting   |-> Len(Awaiting(deductions)),
       evaluation |-> filled,
       source     |-> SourceLabel(\E c \in Categories : Base[c] # None, filled # Base),
       interval   |-> /\ config.interval
                      /\ \/ counted # <<>> \/ Len(forms) >= 2
                         \/ \E i \in DOMAIN deductions : Counts(deductions[i])]

-----------------------------------------------------------------------------
Init ==
  /\ profile \in DOMAIN PROFILE_CONFIGS
  /\ events = <<>> /\ deductions = <<>> /\ overrides = <<>> /\ forms = <<>>

Room == Len(events) + Len(deductions) + Len(overrides) + Len(forms) < MaxRows

AddEvent(e) ==
  /\ Room /\ ~Known(events, e.id)
  /\ events' = Append(events, e)
  /\ UNCHANGED <<profile, deductions, overrides, forms>>

AddDeduction(d) ==
  /\ Room /\ ~Known(deductions, d.id)
  /\ deductions' = Append(deductions, d)
  /\ UNCHANGED <<profile, events, overrides, forms>>

Override(o) ==
  /\ Room
  /\ overrides' = Append(overrides, o)
  /\ UNCHANGED <<profile, events, deductions, forms>>

HandIn(f) ==
  /\ Room
  /\ forms' = Append(forms, f)
  /\ UNCHANGED <<profile, events, deductions, overrides>>

\* A reviewer decides on a deduction.
Decide(i, s) ==
  /\ deductions[i].status = "pending"
  /\ deductions' = [deductions EXCEPT ![i].status = s]
  /\ UNCHANGED <<profile, events, overrides, forms>>

Next ==
  \/ \E e \in EventPool : AddEvent(e)
  \/ \E d \in DeductionPool : AddDeduction(d)
  \/ \E o \in OverridePool : Override(o)
  \/ \E f \in Scores : HandIn(f)
  \/ \E i \in DOMAIN deductions, s \in {"confirmed", "rejected", "edited"} : Decide(i, s)

Spec == Init /\ [][Next]_vars

-----------------------------------------------------------------------------
\* What a person may be said to stand behind: a finding nobody rejected, and of
\* a flag for dangerous play one that somebody confirmed.
Stands(d) == d.status # "rejected" /\ (RequiresConfirmation(d) => d.status = "confirmed")

\* A deduction that was rejected costs nothing, nor does a dangerous-play flag
\* until a human has confirmed it; what is confirmed costs its quantity under
\* every profile.
FlagsWait ==
  /\ Result.penalty <= SumOver(LAMBDA d : IF Stands(d) THEN d.quantity ELSE 0, deductions)
  /\ Result.penalty
       >= SumOver(LAMBDA d : IF d.status = "confirmed" THEN d.quantity ELSE 0, deductions)

\* What a judge entered stays, and showmanship is never estimated.
JudgesStay ==
  /\ \A c \in Categories : Base[c] # None => Result.evaluation[c] = Base[c]
  /\ Result.evaluation["showmanship"] = Base["showmanship"]

\* Every override is in the log, and what is scored is what people left: each
\* scored event is a given one with the outcome of the last override that sets
\* it; one that was rejected is never scored, whatever is overridden; every
\* other one is, but in research, where only a confirmed event is and an
\* override takes its confirmation away.
OverridesStand ==
  /\ Len(Result.log) = Len(overrides)
  /\ \A i \in DOMAIN Result.events : Known(events, Result.events[i].id)
  /\ \A i \in DOMAIN events :
       LET e == events[i]
           applied == {k \in DOMAIN overrides : /\ overrides[k].event = e.id
                                                /\ overrides[k].field = "outcome"
                                                /\ overrides[k].value \in Outcomes}
           expected == IF applied = {} THEN e.outcome ELSE overrides[Max(applied)].value
           touched == \E k \in DOMAIN overrides : overrides[k].event = e.id
                                                  /\ Applies(events, overrides[k])
       IN  /\ \A k \in DOMAIN Result.events :
                Result.events[k].id = e.id => Result.events[k].outcome = expected
           /\ Known(Result.events, e.id) <=>
                IF PROFILE_CONFIGS[profile].confirmed THEN e.status = "confirmed" /\ ~touched
                ELSE e.status # "rejected"

\* The decisions of reviewers and judges stand against detection, estimates
\* and profiles.
HumanDecides == FlagsWait /\ JudgesStay /\ OverridesStand
=============================================================================
