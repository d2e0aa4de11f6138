--------------------------- MODULE ScoringEngine ----------------------------
(***************************************************************************)
(* The rules-based score of one analysis: ml/scoring_engine.py over        *)
(* ml/ruleset.py, fed from the rows by services/scoring_service.py.        *)
(*                                                                         *)
(* The rows are read without an ORDER BY, and PostgreSQL may return a row  *)
(* that was updated anywhere: a table is a sequence in the order of the    *)
(* next read.  Points are integers, in the unit Unit-th of a point, where  *)
(* the code has floats; rounding to three digits and the wording of the    *)
(* warnings are left out.                                                  *)
(***************************************************************************)
EXTENDS PythonLists

CONSTANTS
  EventPool,      (* The events that may be found or added.                 *)
  DeductionPool,  (* The deductions that may be found or added.             *)
  Evaluations,    (* The freestyle evaluations a reviewer may enter.        *)
  Rulesets,       (* The packaged rulesets.                                 *)
  Windows,        (* Routine windows <<start, end>>; None for an open end.  *)
  Duration,       (* The length of the video; 0 when it is not known.       *)
  Categories,     (* The categories of the freestyle evaluation.            *)
  MaxRows,        (* Bound: the rows of an analysis.                        *)
  None

Unit == 10        \* Multipliers and weights are tenths.

Positive  == {"mount", "hop", "suicide", "whip_catch", "horizontal", "body_trick"}
Mistake   == {"control_miss", "landing_miss", "catch_miss"}
Equipment == {"yoyo_stop", "yoyo_change", "yoyo_detach"}
Families  == Positive \cup Mistake \cup Equipment \cup {"unknown_technical_element"}
Bands     == {"basic", "intermediate", "advanced", "unknown"}
Policies  == {"decay_high_risk_only", "decay_all_families", "full_credit", "cap_occurrences"}

ReviewStatuses == {"pending", "confirmed", "rejected", "edited"}

VARIABLES
  ruleset,      (* The ruleset bound to the job.                            *)
  window,       (* routine_start_ms and routine_end_ms of the job.          *)
  events,       (* The rows of analysis_events, in the order of the read.   *)
  deductions,   (* The rows of major_deductions, in the order of the read.  *)
  evaluation    (* The row of freestyle_evaluations, or None.               *)

vars == <<ruleset, window, events, deductions, evaluation>>

-----------------------------------------------------------------------------
Event ==
  [label : STRING, family : Families, start : Nat, end : Nat, low : BOOLEAN,
   outcome : {"success", "miss", "uncertain"}, band : Bands]

\* points = None: to be derived from the ruleset.
Deduction ==
  [type : Equipment \cup {"dangerous_play_review", "other"}, at : Nat,
   quantity : Nat \ {0}, points : Nat \cup {None}, low : BOOLEAN]

Reviewed(pool) == {[row |-> r, status |-> s] : r \in pool, s \in ReviewStatuses}

TypeOK ==
  /\ ruleset \in Rulesets
  /\ window \in Windows
  /\ \A i \in DOMAIN events : events[i] \in Reviewed(EventPool)
  /\ \A i \in DOMAIN deductions : deductions[i] \in Reviewed(DeductionPool)
  /\ evaluation \in Evaluations \cup {None}

\* Ruleset._weights_sum_to_one and _official_requires_certification_reference.
Valid(r) ==
  /\ r.technicalWeight + r.freestyleWeight = Unit
  /\ r.official => r.reference # None

-----------------------------------------------------------------------------
(* The rules.                                                              *)

\* Past the end of the curve the last multiplier is used again.
MultiplierForOccurrence(r, n) ==
  r.multipliers[IF n < Len(r.multipliers) THEN n ELSE Len(r.multipliers)]

MultiplierFor(r, family, n) ==
  CASE r.policy = "full_credit" -> Unit
    [] r.policy = "decay_all_families" -> MultiplierForOccurrence(r, n)
    [] r.policy \in {"cap_occurrences", "decay_high_risk_only"} ->
         IF family \notin r.highRisk THEN Unit
         ELSE IF r.policy = "cap_occurrences" /\ n > Len(r.multipliers) THEN 0
         ELSE MultiplierForOccurrence(r, n)

RuleFor(r, type) ==
  IF \E q \in r.rules : q.type = type THEN CHOOSE q \in r.rules : q.type = type ELSE None

\* Why an event earns nothing, or None when it is credited.
Excluded(e) ==
  CASE e.family \in Mistake -> "excluded_mistake"
    [] e.family = "unknown_technical_element" -> "excluded_unknown"
    [] e.family \in Equipment -> "excluded_equipment"
    [] e.family \in Positive /\ e.outcome = "uncertain" -> "excluded_uncertain"
    [] e.family \in Positive /\ e.outcome = "miss" -> "excluded_outcome_miss"
    [] OTHER -> None

\* Mutant: the events are credited in the order they were read.
ByRead(es) == es

ByStart(es) == List(SortedBy(es, LAMBDA e : e.start))

Occurrence(es, i) ==
  Cardinality({j \in 1 .. i : /\ Excluded(es[j]) = None
                              /\ es[j].label = es[i].label
                              /\ es[j].family = es[i].family})

\* _technical_points_with_line_items: one audit row per event.
LineItems(r, read) ==
  LET es == ByStart(read)
      Item(i) ==
        LET n == Occurrence(es, i)
            m == MultiplierFor(r, es[i].family, n)
        IN  IF Excluded(es[i]) # None
            THEN [event |-> es[i], points |-> 0, reason |-> Excluded(es[i])]
            ELSE [event |-> es[i], points |-> r.bandPoints[es[i].band] * m,
                  reason |-> IF m < Unit THEN "repeat_occurrence" ELSE "credited"]
  IN  [i \in DOMAIN es |-> Item(i)]

TechnicalPoints(r, read) ==
  SumOver(LAMBDA item : item.points, LineItems(r, read))

ByTime(ds) == List(SortedBy(ds, LAMBDA d : d.at))

\* Mutant: every row may use the whole cap.
PriorForgotten(ds, i) == 0

\* quantity_used_by_type, before row i.  A quantity counts against the cap of
\* its type also when it was penalised in part or not at all.
Prior(ds, i) ==
  SumOver(LAMBDA d : IF d.type = ds[i].type THEN d.quantity ELSE 0, SubSeq(ds, 1, i - 1))

\* _deduction_points.
Penalties(r, read) ==
  LET ds == ByTime(read)
      Allowed(q, i) == IF q.cap = None THEN ds[i].quantity
                       ELSE Max({0, Min({ds[i].quantity, q.cap - Prior(ds, i)})})
      Row(q, i) == IF ds[i].points # None THEN ds[i].points ELSE q.points * ds[i].quantity
      Penalty(i) ==
        LET q == RuleFor(r, ds[i].type)
        IN  IF q = None THEN [type |-> ds[i].type, allowed |-> 0, points |-> 0]
            ELSE [type |-> ds[i].type, allowed |-> Allowed(q, i),
                  points |-> (Unit * Row(q, i) * Allowed(q, i)) \div ds[i].quantity]
  IN  [i \in DOMAIN ds |-> Penalty(i)]

DeductionPoints(r, read) ==
  SumOver(LAMBDA p : p.points, Penalties(r, read))

\* A missing category is counted as nothing; without an evaluation 0.
FreestylePoints(r, ev) ==
  IF ev = None THEN 0
  ELSE LET given == {c \in Categories : ev[c] # None}
           raw == MapThenSumSet(LAMBDA c : ev[c] * r.weights[c], given)
           most == MapThenSumSet(LAMBDA c : r.weights[c], Categories)
       IN  IF most = 0 THEN 0 ELSE (Unit * raw * r.freestyleMax) \div (most * 10)

\* The final score is never below 0.  In units of Unit * Unit.
Calculate(r, es, ds, ev) ==
  LET technical == TechnicalPoints(r, es)
      scaled == Min({technical, Unit * r.technicalMax})
      penalty == DeductionPoints(r, ds)
  IN  [technical |-> technical, penalty |-> penalty,
       review |-> Cardinality({i \in DOMAIN es : es[i].low})
                  + Cardinality({i \in DOMAIN ds : ds[i].low}),
       final |-> Max({0, r.technicalWeight * scaled + r.freestyleWeight * FreestylePoints(r, ev)
                         - Unit * penalty})]

-----------------------------------------------------------------------------
(* What scoring_service feeds it with.                                     *)

\* resolve_routine_window.
Routine ==
  LET start == IF window[1] = None THEN 0 ELSE window[1]
      end   == IF window[2] = None THEN Duration ELSE window[2]
      last  == IF Duration > 0 THEN Min({end, Duration}) ELSE end
  IN  <<start, IF last <= start THEN Max({start + 1, Duration}) ELSE last>>

\* deduction_is_scorable.
Scorable(r, d) ==
  LET q == RuleFor(r, d.row.type)
  IN  /\ d.status # "rejected"
      /\ q # None /\ q.confirm => d.status = "confirmed"

Rows(table) == [i \in DOMAIN table |-> table[i].row]

ScoredEvents(table) ==
  LET routine == Routine
      counts  == {i \in DOMAIN table : /\ table[i].status # "rejected"
                                      /\ table[i].row.start >= routine[1]
                                      /\ table[i].row.end <= routine[2]}
  IN  List(ElementsAt(Rows(table), counts))

ScoredDeductions(table) ==
  LET routine == Routine
      counts  == {i \in DOMAIN table : /\ Scorable(ruleset, table[i])
                                      /\ table[i].row.at \in routine[1] .. routine[2]}
  IN  List(ElementsAt(Rows(table), counts))

\* recompute_score.
Score(es, ds) == Calculate(ruleset, ScoredEvents(es), ScoredDeductions(ds), evaluation)

\* score_preview_at_ms: what was completed when the playhead is at t.
Preview(t, es, ds) ==
  LET scored == ScoredEvents(es)
      charged == ScoredDeductions(ds)
  IN  Calculate(ruleset,
                ElementsAt(scored, {i \in DOMAIN scored : scored[i].end <= t}),
                ElementsAt(charged, {i \in DOMAIN charged : charged[i].at <= t}),
                evaluation)

-----------------------------------------------------------------------------
Init ==
  /\ ruleset \in {r \in Rulesets : Valid(r)}
  /\ window \in Windows
  /\ events = <<>> /\ deductions = <<>> /\ evaluation = None

Room == Len(events) + Len(deductions) < MaxRows

\* The statuses of a new row: the worker's are pending, a person's confirmed.
NewStatuses == {"pending", "confirmed"}

AddEvent(e, s) ==
  /\ Room
  /\ \A i \in DOMAIN events : events[i].row # e
  /\ events' = Append(events, [row |-> e, status |-> s])
  /\ UNCHANGED <<ruleset, window, deductions, evaluation>>

AddDeduction(d, s) ==
  /\ Room
  /\ \A i \in DOMAIN deductions : deductions[i].row # d
  /\ deductions' = Append(deductions, [row |-> d, status |-> s])
  /\ UNCHANGED <<ruleset, window, events, evaluation>>

\* The updated row version is written at the end of the table.
Updated(table, i, s) == Append(RemoveAt(table, i), [table[i] EXCEPT !.status = s])

\* confirm_event, reject_event.
ReviewEvent(i, s) ==
  /\ events[i].status # s
  /\ events' = Updated(events, i, s)
  /\ UNCHANGED <<ruleset, window, deductions, evaluation>>

DeleteEvent(i) ==
  /\ events' = RemoveAt(events, i)
  /\ UNCHANGED <<ruleset, window, deductions, evaluation>>

\* confirm_deduction, reject_deduction.
ReviewDeduction(i, s) ==
  /\ deductions[i].status # s
  /\ deductions' = Updated(deductions, i, s)
  /\ UNCHANGED <<ruleset, window, events, evaluation>>

DeleteDeduction(i) ==
  /\ deductions' = RemoveAt(deductions, i)
  /\ UNCHANGED <<ruleset, window, events, evaluation>>

Evaluate(ev) ==
  /\ evaluation' = ev
  /\ UNCHANGED <<ruleset, window, events, deductions>>

Next ==
  \/ \E e \in EventPool, s \in NewStatuses : AddEvent(e, s)
  \/ \E d \in DeductionPool, s \in NewStatuses : AddDeduction(d, s)
  \/ \E i \in DOMAIN events : DeleteEvent(i)
  \/ \E i \in DOMAIN deductions : DeleteDeduction(i)
  \/ \E i \in DOMAIN events, s \in {"confirmed", "rejected"} : ReviewEvent(i, s)
  \/ \E i \in DOMAIN deductions, s \in {"confirmed", "rejected"} : ReviewDeduction(i, s)
  \/ \E ev \in Evaluations : Evaluate(ev)

Spec == Init /\ [][Next]_vars

-----------------------------------------------------------------------------
NoTies ==
  /\ Cardinality({events[i].row.start : i \in DOMAIN events}) = Len(events)
  /\ Cardinality({deductions[i].row.at : i \in DOMAIN deductions}) = Len(deductions)

\* When no two events start together and no two deductions are at one time,
\* neither the score nor a preview depends on the order the rows are read in,
\* and at the end of the routine the preview is the score.
OrderIsNoMatter ==
  NoTies =>
    /\ Score(events, deductions) = Score(Reverse(events), Reverse(deductions))
    /\ \A t \in 0 .. Duration :
         Preview(t, events, deductions) = Preview(t, Reverse(events), Reverse(deductions))
    /\ Preview(Routine[2], events, deductions) = Score(events, deductions)

\* However the occurrences of a type are spread over rows, reviewed and cut
\* by the window, no more of them than its cap are penalised.
CapPerType ==
  \A q \in {x \in ruleset.rules : x.cap # None} :
    q.cap >= SumOver(LAMBDA p : IF p.type = q.type THEN p.allowed ELSE 0,
                     Penalties(ruleset, ScoredDeductions(deductions)))
=============================================================================
