---------------------------- MODULE EventMetrics ----------------------------
(***************************************************************************)
(* The evaluation of a detector against annotated clips: events/metrics.py.*)
(* Clips are pooled on one time line, each moved by its own offset, and    *)
(* the pooled predictions are matched with the pooled annotations.         *)
(*                                                                         *)
(* Ratios are kept as pairs of integers; the rounding, and the calibration *)
(* error of the confidences, are left out.                                 *)
(***************************************************************************)
EXTENDS Integers, FiniteSets, SequencesExt, PythonLists

CONSTANTS
  Detections,   (* The predictions a detector may make in a clip.           *)
  Annotations,  (* The events a clip may be annotated with.                 *)
  Threshold,    (* The tIoU a match needs, in percent.                      *)
  Thresholds,   (* The tIoU thresholds of the mAP, in percent.              *)
  ClipOffset,   (* _CLIP_OFFSET_MS.                                         *)
  MaxClips,     (* Bound: the clips of the data set.                        *)
  MaxEvents     (* Bound: predictions and events of all clips.              *)

VARIABLE samples  (* The clips so far: what was predicted and annotated.    *)

Outcomes == {"success", "miss", "uncertain"}
Families == {d.family : d \in Detections} \cup {a.family : a \in Annotations}

\* A ratio is in 1/Unit; Unit is divided by every number up to ten.
Unit == 2520

Prediction == [family : Families, start : Nat, end : Nat, outcome : Outcomes, confidence : 0 .. 100]
GroundTruth == [family : Families, start : Nat, end : Nat, outcome : Outcomes]

TypeOK ==
  /\ Detections \subseteq Prediction /\ Annotations \subseteq GroundTruth
  /\ \A k \in DOMAIN samples : /\ Range(samples[k].predictions) \subseteq Detections
                               /\ Range(samples[k].events) \subseteq Annotations

-----------------------------------------------------------------------------
(* Matching.  Predictions and annotations are named by their index: the    *)
(* validated data set gives every annotation an identifier of its own.     *)

Overlap(a, b) == Max({0, Min({a.end, b.end}) - Max({a.start, b.start})})
Union(a, b)   == (a.end - a.start) + (b.end - b.start) - Overlap(a, b)

\* temporal_iou_ms(p, a) < temporal_iou_ms(p, b).
Closer(p, b, a) == Overlap(p, a) * Union(p, b) < Overlap(p, b) * Union(p, a)

Reaches(p, g, threshold) == 100 * Overlap(p, g) >= threshold * Union(p, g)

\* match_events: the most confident prediction chooses first; it gets the
\* closest annotation of its family that is still free, the first of several.
\* Families do not meet, so they are gone through together.
MatchEvents(ps, gs, threshold) ==
  LET Free(pairs, i) == {j \in DOMAIN gs : /\ gs[j].family = ps[i].family
                                           /\ Overlap(ps[i], gs[j]) > 0
                                           /\ \A q \in pairs : q[2] # j}
      Best(free, i) == {j \in free : \A k \in free : ~Closer(ps[i], gs[k], gs[j])}
      Choose(pairs, i) ==
        LET best == Best(Free(pairs, i), i)
        IN  IF best # {} /\ Reaches(ps[i], gs[Min(best)], threshold)
            THEN pairs \cup {<<i, Min(best)>>} ELSE pairs
      order == SortedBy([i \in DOMAIN ps |-> i], LAMBDA i : -ps[i].confidence)
      pairs == FoldLeft(Choose, {}, order)
  IN  [pairs    |-> pairs,
       spurious |-> DOMAIN ps \ {q[1] : q \in pairs},
       missed   |-> DOMAIN gs \ {q[2] : q \in pairs}]

-----------------------------------------------------------------------------
(* The report.                                                             *)

Counts(tp, fp, fn) == [tp |-> tp, fp |-> fp, fn |-> fn]

\* The F1 of _precision_recall_f1: 2pr / (p + r), or nothing when both are.
F1(c) == IF c.tp = 0 THEN 0 ELSE (2 * Unit * c.tp) \div (2 * c.tp + c.fp + c.fn)

EventPrecisionRecall(m) ==
  Counts(Cardinality(m.pairs), Cardinality(m.spurious), Cardinality(m.missed))

\* Only the classes that were predicted or annotated.
PerClass(ps, gs, m) ==
  LET classes == {ps[i].family : i \in DOMAIN ps} \cup {gs[j].family : j \in DOMAIN gs}
  IN  [f \in classes |-> Counts(Cardinality({q \in m.pairs : ps[q[1]].family = f}),
                                Cardinality({i \in m.spurious : ps[i].family = f}),
                                Cardinality({j \in m.missed : gs[j].family = f}))]

MeanOf(f) == IF DOMAIN f = {} THEN 0 ELSE SumFunction(f) \div Cardinality(DOMAIN f)

MacroF1(perClass) == MeanOf([f \in DOMAIN perClass |-> F1(perClass[f])])

\* _average_precision: the area under the envelope of the curve; the recall
\* moves only where a prediction is right.  hits is in order of confidence.
AveragePrecision(hits, annotated) ==
  LET Precision(k) == (Unit * Cardinality({i \in 1 .. k : hits[i]})) \div k
      Envelope(k)  == Max({Precision(i) : i \in k .. Len(hits)})
  IN  MapThenSumSet(Envelope, {k \in DOMAIN hits : hits[k]}) \div annotated

\* Of equally confident predictions the matched ones come first.
Hits(ps, m) ==
  LET ranked == SortedBy([i \in DOMAIN ps |-> i],
                         LAMBDA i : 2 * (100 - ps[i].confidence) + IF i \in m.spurious THEN 1 ELSE 0)
  IN  [k \in DOMAIN ranked |-> ranked[k] \notin m.spurious]

\* temporal_map: for each threshold the mean over the annotated families.
TemporalMap(ps, gs) ==
  LET Of(s, f) == SelectSeq(s, LAMBDA x : x.family = f)
      AP(f, t) == AveragePrecision(Hits(Of(ps, f), MatchEvents(Of(ps, f), Of(gs, f), t)),
                                   Len(Of(gs, f)))
  IN  [t \in Thresholds |-> MeanOf([f \in {gs[j].family : j \in DOMAIN gs} |-> AP(f, t)])]

\* boundary_error: what the matched starts and ends are off by, before the mean.
BoundaryError(ps, gs, m) ==
  [start |-> MapThenSumSet(LAMBDA q : Abs(ps[q[1]].start - gs[q[2]].start), m.pairs),
   end   |-> MapThenSumSet(LAMBDA q : Abs(ps[q[1]].end - gs[q[2]].end), m.pairs)]

\* outcome_classification_f1, over the matched pairs only.
OutcomeCounts(ps, gs, m) ==
  [o \in Outcomes |->
     LET Both(p, g) == Cardinality({q \in m.pairs : /\ (ps[q[1]].outcome = o) = p
                                                    /\ (gs[q[2]].outcome = o) = g})
     IN  Counts(Both(TRUE, TRUE), Both(TRUE, FALSE), Both(FALSE, TRUE))]

\* confusion_matrix: what was predicted against what was there.
Confusion(ps, gs, m) ==
  [cell \in (Families \cup {"none"}) \X (Families \cup {"none"}) |->
     Cardinality({q \in m.pairs : <<ps[q[1]].family, gs[q[2]].family>> = cell})
     + Cardinality({i \in m.spurious : <<ps[i].family, "none">> = cell})
     + Cardinality({j \in m.missed : <<"none", gs[j].family>> = cell})]

Evaluate(ps, gs) ==
  LET m == MatchEvents(ps, gs, Threshold)
  IN  [events    |-> EventPrecisionRecall(m),
       perClass  |-> PerClass(ps, gs, m),
       macroF1   |-> MacroF1(PerClass(ps, gs, m)),
       map       |-> TemporalMap(ps, gs),
       boundary  |-> BoundaryError(ps, gs, m),
       outcomes  |-> OutcomeCounts(ps, gs, m),
       confusion |-> Confusion(ps, gs, m)]

\* Mutant: the clips are pooled as they are.
MovedNowhere(s, k) == s

\* The clip at index k - 1 of the samples is moved by so many offsets.
Moved(s, k) ==
  [i \in DOMAIN s |-> [s[i] EXCEPT !.start = @ + (k - 1) * ClipOffset,
                                   !.end   = @ + (k - 1) * ClipOffset]]

\* evaluate_detector.
EvaluateDetector(clips) ==
  Evaluate(FlattenSeq([k \in DOMAIN clips |-> Moved(clips[k].predictions, k)]),
           FlattenSeq([k \in DOMAIN clips |-> Moved(clips[k].events, k)]))

-----------------------------------------------------------------------------
Empty == [predictions |-> <<>>, events |-> <<>>]

Init == samples = <<Empty>>

Current == Len(samples)

Room == SumOver(LAMBDA s : Len(s.predictions) + Len(s.events), samples) < MaxEvents

\* The detector finds an event in the last clip.
Predict(d) ==
  /\ Room
  /\ samples' = [samples EXCEPT ![Current].predictions = Append(@, d)]

\* The last clip was annotated with an event.
Annotate(a) ==
  /\ Room
  /\ samples' = [samples EXCEPT ![Current].events = Append(@, a)]

NextClip ==
  /\ Current < MaxClips
  /\ samples' = Append(samples, Empty)

Next ==
  \/ \E d \in Detections : Predict(d)
  \/ \E a \in Annotations : Annotate(a)
  \/ NextClip

Spec == Init /\ [][Next]_samples

-----------------------------------------------------------------------------
\* The report r of the samples against the counts of each clip alone.
AddsUp(r, each, ps, gs) ==
  LET classes == DOMAIN r.perClass
      All(field) == MapThenSumSet(LAMBDA f : r.perClass[f][field], classes)
      InClips(f, field) == SumOver(LAMBDA c : IF f \in DOMAIN c THEN c[f][field] ELSE 0, each)
  IN  /\ \A f \in classes, field \in {"tp", "fp", "fn"} : r.perClass[f][field] = InClips(f, field)
      /\ r.events = Counts(All("tp"), All("fp"), All("fn"))
      /\ r.events.tp + r.events.fp = ps /\ r.events.tp + r.events.fn = gs
      /\ \A f \in classes :
           /\ r.confusion[<<f, f>>] = r.perClass[f].tp
           /\ r.confusion[<<f, "none">>] = r.perClass[f].fp
           /\ r.confusion[<<"none", f>>] = r.perClass[f].fn
      /\ MapThenSumSet(LAMBDA c : r.confusion[c], DOMAIN r.confusion) = ps + gs - r.events.tp
      /\ r.map[Threshold] = Unit => r.events.fn = 0

\* Pooling is additive: the counts of a family over the pooled clips are the
\* sums of what each clip gives on its own, every prediction and every
\* annotation is counted once, the confusion matrix, the classes and the
\* totals agree, and a perfect mAP is given only to a detector that found
\* every annotated event at that threshold.
ReportAddsUp ==
  AddsUp(EvaluateDetector(samples),
         [k \in DOMAIN samples |-> EvaluateDetector(<<samples[k]>>).perClass],
         SumOver(LAMBDA s : Len(s.predictions), samples),
         SumOver(LAMBDA s : Len(s.events), samples))
=============================================================================
