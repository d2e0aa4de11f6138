----------------------------- MODULE EventDecode ----------------------------
(***************************************************************************)
(* From frames to events and back: the targets and windows a clip is       *)
(* trained with (events/windowing.py), and the events decoded from what a  *)
(* model says of its frames (events/decode.py, inference.py, convert.py).  *)
(*                                                                         *)
(* Frames are numbered from 1.  A probability is a percentage, the mean of *)
(* several is in 1/Unit of one.                                            *)
(***************************************************************************)
EXTENDS Integers, FiniteSets, SequencesExt, PythonLists

CONSTANTS
  Classes,      (* EVENT_CLASSES.                                           *)
  Outputs,      (* What a model may say of a frame.                         *)
  Configs,      (* The inference configurations.                            *)
  AnnotationSets, (* The annotations, as sequences, a clip may have.        *)
  Steps,        (* The milliseconds between two frames.                     *)
  Margin,       (* The frames a boundary is looked for around a run.        *)
  Window,       (* window_ms.                                               *)
  Stride,       (* stride_ms.                                               *)
  MaxFrames,    (* Bound: the frames of a clip that is decoded.             *)
  MaxTraining,  (* Bound: the frames of a clip that is trained with.        *)
  None

Outcomes == <<"success", "miss", "uncertain">>
Unknown  == "unknown_technical_element"

\* Divided by every length of a run up to six.
Unit == 60

VARIABLES
  config,       (* The InferenceConfig.                                     *)
  annotated,    (* The events of the clip; None when it is only decoded.    *)
  clip          (* The frames: their time and what the model says of them.  *)

vars == <<config, annotated, clip>>

Config ==
  [activation : 0 .. 100, min : Nat, strategy : {"merge", "suppress"}, gap : Nat, iou : 0 .. 100,
   uncertain : 0 .. 100, action : {"relabel_unknown", "flag_review"}, heads : BOOLEAN]

Probabilities == [Classes -> 0 .. 100]
Output == [class : Probabilities, start : Probabilities, end : Probabilities,
           outcome : [1 .. 3 -> 0 .. 100]]

TypeOK ==
  /\ config \in Configs /\ config \in Config
  /\ annotated \in AnnotationSets \cup {None}
  /\ \A i \in DOMAIN clip : /\ clip[i].ms \in Nat /\ clip[i].out \in Output
                            /\ i > 1 => clip[i - 1].ms < clip[i].ms

-----------------------------------------------------------------------------
(* decode.py.  fs is a sequence of frames, c a class, k a configuration.   *)

\* _find_runs: the first frame of a run and the first one after it.
Runs(fs, c, k) ==
  LET On(i) == i \in DOMAIN fs /\ fs[i].out.class[c] >= k.activation
  IN  {r \in (1 .. Len(fs)) \X (2 .. Len(fs) + 1) :
         /\ r[1] < r[2] /\ \A i \in r[1] .. r[2] - 1 : On(i)
         /\ ~On(r[1] - 1) /\ ~On(r[2])}

\* The first of the largest, as argmax.
ArgMax(f) == Min({i \in DOMAIN f : \A j \in DOMAIN f : f[j] <= f[i]})

\* _refine_boundary_index.
Refine(fs, c, r, head) ==
  ArgMax([i \in Max({1, r[1] - Margin}) .. Min({Len(fs), r[2] - 1 + Margin}) |-> fs[i].out[head][c]])

\* The mean over frames.
Mean(P(_), frames) == (Unit * SumOver(P, frames)) \div Len(frames)

\* Mutant: the end is the last frame of the event, not the one after it.
LastFrame(fs, c, r, k) == IF k.heads THEN Refine(fs, c, r, "end") ELSE r[2] - 1

\* refined_hi_exclusive, before it is clamped.
FrameAfter(fs, c, r, k) == IF k.heads THEN Refine(fs, c, r, "end") + 1 ELSE r[2]

\* The event of a run.  A boundary may be found outside of the run, and the
\* end before the start: then one frame is left.  No frame is after the last.
Candidate(fs, c, r, k) ==
  LET lo == Min({IF k.heads THEN Refine(fs, c, r, "start") ELSE r[1], r[2] - 1})
      hi == Max({FrameAfter(fs, c, r, k), lo + 1})
      frames == List([i \in 1 .. r[2] - r[1] |-> fs[r[1] + i - 1]])
  IN  [class |-> c, start |-> fs[lo].ms, end |-> fs[Min({hi, Len(fs)})].ms,
       confidence |-> Mean(LAMBDA f : f.out.class[c], frames),
       outcome |-> ArgMax([o \in 1 .. 3 |-> Mean(LAMBDA f : f.out.outcome[o], frames)])]

\* The events that are long enough, in the order of their runs.
ClassCandidates(fs, c, k) ==
  LET long == {r \in Runs(fs, c, k) :
                 LET e == Candidate(fs, c, r, k) IN e.end - e.start >= k.min}
      first == {r[1] : r \in long}
      Run(n) == CHOOSE r \in long : r[1] = Nth(first, n)
  IN  List([n \in 1 .. Cardinality(first) |-> Candidate(fs, c, Run(n), k)])

\* _temporal_iou(a, b) < threshold.
Apart(a, b, threshold) ==
  LET inter == Max({0, Min({a.end, b.end}) - Max({a.start, b.start})})
      union == (a.end - a.start) + (b.end - b.start) - inter
  IN  IF union > 0 THEN 100 * inter < threshold * union ELSE threshold > 0

ByStart(es) == List(SortedBy(es, LAMBDA e : e.start))

ByConfidence(es) == List(SortedBy(es, LAMBDA e : -e.confidence))

\* _suppress: the most confident stays.
Kept(kept, e, threshold) ==
  IF \A i \in DOMAIN kept : Apart(e, kept[i], threshold) THEN Append(kept, e) ELSE kept

Suppress(es, threshold) ==
  LET ordered == ByConfidence(es)
      kept[n \in 0 .. Len(es)] == IF n = 0 THEN <<>> ELSE Kept(kept[n - 1], ordered[n], threshold)
  IN  kept[Len(es)]

\* _merge: an event that starts soon enough after the last one extends it.
Joined(a, b) ==
  [a EXCEPT !.end = Max({a.end, b.end}), !.confidence = Max({a.confidence, b.confidence}),
            !.outcome = IF b.confidence > a.confidence THEN b.outcome ELSE a.outcome]

Merged(merged, e, gap) ==
  IF merged # <<>> /\ e.start - Last(merged).end <= gap
  THEN [merged EXCEPT ![Len(merged)] = Joined(@, e)]
  ELSE Append(merged, e)

Merge(es, gap) ==
  LET ordered == ByStart(es)
      merged[n \in 0 .. Len(es)] == IF n = 0 THEN <<>> ELSE Merged(merged[n - 1], ordered[n], gap)
  IN  merged[Len(es)]

\* The uncertainty routing, and to_analysis_event_prediction: the band is
\* always unknown, and a review is only a note.
Detection(e, k) ==
  LET unsure == e.confidence < Unit * k.uncertain
  IN  [family |-> IF unsure /\ k.action = "relabel_unknown" THEN Unknown ELSE e.class,
       class |-> e.class, start |-> e.start, end |-> e.end, outcome |-> Outcomes[e.outcome],
       confidence |-> e.confidence, review |-> unsure /\ k.action = "flag_review"]

Settled(es, k) == IF k.strategy = "merge" THEN Merge(es, k.gap) ELSE Suppress(es, k.iou)

OfClass(fs, c, k) == Settled(ClassCandidates(fs, c, k), k)

\* decode_predictions: class by class.
Decode(fs, k) ==
  LET order == SetToSeq(Classes)
      all[n \in 0 .. Len(order)] == IF n = 0 THEN <<>> ELSE all[n - 1] \o OfClass(fs, order[n], k)
      found == all[Len(order)]
  IN  ByStart(List([i \in DOMAIN found |-> Detection(found[i], k)]))

-----------------------------------------------------------------------------
(* windowing.py.  ms is the sequence of the times of the frames.           *)

\* The frames an event covers.
Span(ms, e) == {i \in DOMAIN ms : ms[i] \in e.start .. e.end}

Nearest(ms, S, t) == Min({i \in S : \A j \in S : Abs(ms[i] - t) <= Abs(ms[j] - t)})

\* build_frame_targets: what a perfect model would say of each frame.  Events
\* outside of the classes, and those that fall between two frames, have no
\* targets; the outcome is that of the last event over the frame.
Targets(ms, events) ==
  LET used == SelectSeq(events, LAMBDA e : e.family \in Classes /\ Span(ms, e) # {})
      Of(c) == {j \in DOMAIN used : used[j].family = c}
      Hot(b) == IF b THEN 100 ELSE 0
      Over(i) == {j \in DOMAIN used : i \in Span(ms, used[j])}
      Target(i) ==
        [class |-> [c \in Classes |-> Hot(Over(i) \cap Of(c) # {})],
         start |-> [c \in Classes |->
                      Hot(\E j \in Of(c) : i = Nearest(ms, Span(ms, used[j]), used[j].start))],
         end   |-> [c \in Classes |->
                      Hot(\E j \in Of(c) : i = Nearest(ms, Span(ms, used[j]), used[j].end))],
         outcome |-> [o \in 1 .. 3 |-> Hot(Over(i) # {} /\ used[Max(Over(i))].outcome = Outcomes[o])]]
  IN  [i \in DOMAIN ms |-> Target(i)]

\* slice_windows: a window is the set of its frames; a window of one frame is
\* dropped.  The loop ends with the first window that reaches the last frame.
Windows(ms) ==
  LET first  == ms[1]
      last   == ms[Len(ms)]
      starts == {s \in first .. last : /\ (s - first) % Stride = 0
                                       /\ s > first => s - Stride + Window < last}
      In(s)  == {i \in DOMAIN ms : ms[i] >= s /\ ms[i] < s + Window}
  IN  IF ms = <<>> THEN {}
      ELSE IF last - first < Window THEN {DOMAIN ms}
      ELSE {w \in {In(s) : s \in starts} : Cardinality(w) > 1}

-----------------------------------------------------------------------------
Init ==
  /\ config \in Configs
  /\ annotated \in AnnotationSets \cup {None}
  /\ clip = <<>>

NextTime(step) == IF clip = <<>> THEN 0 ELSE Last(clip).ms + step

\* The model has looked at one more frame.
Infer(step, out) ==
  /\ annotated = None /\ Len(clip) < MaxFrames
  /\ clip' = Append(clip, [ms |-> NextTime(step), out |-> out])
  /\ UNCHANGED <<config, annotated>>

Silent == [class |-> [c \in Classes |-> 0], start |-> [c \in Classes |-> 0],
           end |-> [c \in Classes |-> 0], outcome |-> [o \in 1 .. 3 |-> 0]]

\* One more frame of a training clip, where no model has looked yet.
Sample(step) ==
  /\ annotated # None /\ Len(clip) < MaxTraining
  /\ clip' = Append(clip, [ms |-> NextTime(step), out |-> Silent])
  /\ UNCHANGED <<config, annotated>>

Next ==
  \/ \E step \in Steps, out \in Outputs : Infer(step, out)
  \/ \E step \in Steps : Sample(step)

Spec == Init /\ [][Next]_vars

-----------------------------------------------------------------------------
Times == [i \in DOMAIN clip |-> clip[i].ms]

Decoded == Decode(clip, config)

Uncrowded(found, k) ==
  \A i, j \in DOMAIN found :
    i < j /\ found[i].class = found[j].class =>
      IF k.strategy = "merge" THEN found[j].start - found[i].end > k.gap
      ELSE Apart(found[i], found[j], k.iou)

\* Two events of one class do not crowd each other, whatever the boundary
\* heads say: merged ones are more than the gap apart, of overlapping ones the
\* less confident is gone.  (Two classes may both end as unknown.)
StandApart == Uncrowded(Decoded, config)

\* An event of the class is over the run.
Within(found, c, r) ==
  \E i \in DOMAIN found : /\ found[i].class = c
                          /\ found[i].start <= clip[r[1]].ms
                          /\ found[i].end >= clip[r[2] - 1].ms

\* Without boundary heads and with merging, what the model was active for long
\* enough is within one event of its class.
SustainedIsFound ==
  LET found == Decoded
  IN  ~config.heads /\ config.strategy = "merge" =>
        \A c \in Classes : \A r \in Runs(clip, c, config) :
          clip[r[2] - 1].ms - clip[r[1]].ms >= config.min => Within(found, c, r)

\* How often an event is found.
TimesFound(found, class, start, end) ==
  Cardinality({i \in DOMAIN found :
                 found[i].class = class /\ found[i].start = start /\ found[i].end = end})

\* What a model that has learned the targets says is decoded to the annotated
\* events again: an event that is longer than the minimum and whose class is
\* not annotated again within the margin or the gap is found once, from its
\* first frame to the frame after its last.
TargetsAreDecoded ==
  LET ms == Times
      k  == [config EXCEPT !.heads = TRUE]
      targets == Targets(ms, annotated)
      found == Decode([i \in DOMAIN ms |-> [ms |-> ms[i], out |-> targets[i]]], k)
      Stop(S) == ms[Min({Max(S) + 1, Len(ms)})]
      Alone(j) ==
        \A i \in DOMAIN annotated \ {j} :
          LET S == Span(ms, annotated[i])  T == Span(ms, annotated[j])
          IN  annotated[i].family = annotated[j].family /\ S # {} =>
                \/ Min(T) - Max(S) > Margin /\ ms[Min(T)] - Stop(S) > k.gap
                \/ Min(S) - Max(T) > Margin /\ ms[Min(S)] - Stop(T) > k.gap
  IN  annotated # None =>
        \A j \in DOMAIN annotated :
          LET e == annotated[j]  T == Span(ms, e)
          IN  /\ e.family \in Classes /\ T # {} /\ Alone(j)
              /\ Stop(T) - ms[Min(T)] >= k.min
              => TimesFound(found, e.family, ms[Min(T)], Stop(T)) = 1

\* With a stride of at most a window a frame is left out of training only when
\* it is the last one of the clip or when no other frame is within reach of
\* every window over it.
FramesAreTrained ==
  annotated # None /\ clip # <<>> /\ Stride <= Window =>
    \A i \in DOMAIN clip \ UNION Windows(Times) :
      \/ i = Len(clip)
      \/ \E j \in {i - 1, i + 1} \cap DOMAIN clip : Abs(clip[i].ms - clip[j].ms) > Window - Stride

\* Decoding loses and invents nothing (decode_predictions), and training looks
\* at every frame of a clip that was annotated (windowing.py).
DecodeIsFaithful ==
  /\ StandApart
  /\ SustainedIsFound
  /\ TargetsAreDecoded
  /\ FramesAreTrained
=============================================================================
