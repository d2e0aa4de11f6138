---------------------------- MODULE YoyoTracking ----------------------------
(***************************************************************************)
(* From the detections of a video to its flags for dangerous play: the     *)
(* Kalman tracker of the yo-yo (perception/tracker_kalman.py), the         *)
(* kinematic features (perception/features.py), the runs of excessive      *)
(* speed (scoring/dangerous_play.py) and what perception is measured with  *)
(* (perception/evaluation.py, inference/monitoring.py).                    *)
(*                                                                         *)
(* One coordinate stands for both, and whole numbers for the positions and *)
(* speeds: a division rounds down.  The filter's covariance is left out,   *)
(* and with it the size of a gain: any of Gains.                           *)
(***************************************************************************)
EXTENDS Integers, FiniteSets, SequencesExt, PythonLists

CONSTANTS
  Seen,         (* What a detector may see in a frame: sequences of [x, w, conf]. *)
  Steps,        (* The milliseconds between two frames.                     *)
  Gains,        (* [pos, vel], percentages of the residual.                 *)
  MaxGap,       (* max_gap_ms.                                              *)
  Scenes,       (* Of a video: pose, hand and truth by frame_ms, events, reference. *)
  FastAt,       (* velocity_threshold.                                      *)
  MinRun,       (* min_consecutive_frames.                                  *)
  MergeGap,     (* merge_gap_ms.                                            *)
  IoU,          (* iou_threshold, a percentage.                             *)
  MaxFrames,    (* Bound: the frames of a video.                            *)
  None

VARIABLES
  scene,        (* What else is known of the video.                         *)
  seen,         (* The frames so far: [ms, found].                          *)
  filter,       (* The tracker: [pos, vel, last, width], None before the first detection. *)
  history,      (* _history: [found, conf].                                 *)
  tracks        (* The Tracks it returned.                                  *)

vars == <<scene, seen, filter, history, tracks>>

Boxes == [x : Int, w : Nat, conf : 0 .. 100]

TypeOK ==
  /\ scene \in Scenes
  /\ \A i \in DOMAIN seen : /\ seen[i].ms \in Nat /\ seen[i].found \in Seen
                            /\ i > 1 => seen[i - 1].ms < seen[i].ms
  /\ filter \in [pos : Int, vel : Int, last : Nat, width : Nat] \cup {None}
  /\ history \in Seq([found : BOOLEAN, conf : 0 .. 100])
  /\ tracks \in Seq([ms : Nat, x : Int, w : Nat, conf : 0 .. 100, interpolated : BOOLEAN])

-----------------------------------------------------------------------------
(* The tracker.                                                            *)

\* max(frame_detections, key=confidence): the first of the most confident.
Best(found) ==
  IF found = <<>> THEN None
  ELSE found[Min({i \in DOMAIN found : \A j \in DOMAIN found : found[j].conf <= found[i].conf})]

\* _KalmanState.predict: the yo-yo goes on as it did.
Predicted(f, dt) == [f EXCEPT !.pos = @ + f.vel * dt]

\* _KalmanState.update: a part of the residual corrects place and speed.
Updated(f, x, gain) ==
  [f EXCEPT !.pos = @ + (gain.pos * (x - f.pos)) \div 100,
            !.vel = @ + (gain.vel * (x - f.pos)) \div 100]

\* Mutant: the tracker predicts on after a gap that is too long.
BridgesAny(gap, best) == best = None /\ filter = None

\* The gap is the time since the last frame, whether that had a detection or
\* not: a frame without a track moves last_frame_ms on like any other.
GivesUp(gap, best) == best = None /\ (filter = None \/ gap > MaxGap)

\* update: one frame of the video.  Without a detection and a track to go on
\* with, it returns nothing.
Update(ms, found, gain) ==
  LET best  == Best(found)
      gap   == IF filter = None THEN 0 ELSE ms - filter.last
      moved == Predicted(filter, gap)
      new   == IF filter = None THEN [pos |-> best.x, vel |-> 0, last |-> ms, width |-> best.w]
               ELSE IF best = None THEN [moved EXCEPT !.last = ms]
               ELSE [Updated(moved, best.x, gain) EXCEPT !.last = ms, !.width = best.w]
      conf  == IF best = None THEN 0 ELSE best.conf
  IN  /\ Len(seen) < MaxFrames
      /\ seen' = Append(seen, [ms |-> ms, found |-> found])
      /\ IF GivesUp(gap, best)
         THEN /\ filter' = IF filter = None THEN None ELSE [filter EXCEPT !.last = ms]
              /\ history' = IF filter = None THEN history
                            ELSE Append(history, [found |-> FALSE, conf |-> 0])
              /\ UNCHANGED tracks
         ELSE /\ filter' = new
              /\ history' = Append(history, [found |-> best # None, conf |-> conf])
              /\ tracks' = Append(tracks, [ms |-> ms, x |-> new.pos, w |-> new.width, conf |-> conf,
                                           interpolated |-> best = None])
      /\ UNCHANGED scene

\* reset, before a video.
Reset ==
  /\ seen # <<>>
  /\ seen' = <<>> /\ filter' = None /\ history' = <<>> /\ tracks' = <<>>
  /\ UNCHANGED scene

\* track_quality, a percentage.
Quality(h) ==
  IF h = <<>> THEN 0
  ELSE SumOver(LAMBDA e : (IF e.found THEN 100 ELSE 0) + e.conf, h) \div (2 * Len(h))

-----------------------------------------------------------------------------
(* The features of a track.                                                *)

\* _nearest_pose_frame: of two that are as near, the earlier.
NearestPose(ms) ==
  LET P == DOMAIN scene.pose
      D == {Abs(p - ms) : p \in P}
  IN  IF P = {} THEN None
      ELSE scene.pose[Min({p \in P : Abs(p - ms) = Min(D)})]

\* compute_kinematic_features: where a hand or a body is missing, the feature
\* is 0.  A hand counts only when it was seen in that very frame; the body is
\* that of the nearest one.
Features(ts) ==
  LET Speed(i) == IF i = 1 THEN 0 ELSE (ts[i].x - ts[i - 1].x) \div (ts[i].ms - ts[i - 1].ms)
      Acceleration(i) ==
        IF i = 1 THEN 0 ELSE (Speed(i) - Speed(i - 1)) \div (ts[i].ms - ts[i - 1].ms)
      Wrist(ms) == IF ms \in DOMAIN scene.hand THEN scene.hand[ms] ELSE None
      From(x, origin) == IF origin = None THEN 0 ELSE x - origin
  IN  [i \in DOMAIN ts |->
        [ms |-> ts[i].ms, x |-> ts[i].x, velocity |-> Abs(Speed(i)),
         acceleration |-> Abs(Acceleration(i)),
         wrist |-> From(ts[i].x, Wrist(ts[i].ms)),
         stage |-> From(ts[i].x, NearestPose(ts[i].ms)),
         conf |-> ts[i].conf, occluded |-> ts[i].interpolated]]

-----------------------------------------------------------------------------
(* detect_dangerous_play.                                                  *)

\* The runs of fast frames, first and last.
FastRuns(fs) ==
  LET Fast(i) == i \in DOMAIN fs /\ fs[i].velocity >= FastAt
  IN  {r \in (DOMAIN fs) \X (DOMAIN fs) :
         /\ r[1] <= r[2] /\ \A i \in r[1] .. r[2] : Fast(i)
         /\ ~Fast(r[1] - 1) /\ ~Fast(r[2] + 1)}

Sustained(fs) == {r \in FastRuns(fs) : r[2] - r[1] + 1 >= MinRun}

\* The flags, each the start of its run.  A run is another one of the same
\* incident when it starts soon after the last flag did, however long the
\* flagged run was.
Flags(fs) ==
  LET runs == SetToSortSeq(Sustained(fs), LAMBDA r, s : r[1] < s[1])
      Flag(flags, r) ==
        IF flags # <<>> /\ fs[r[1]].ms - Last(flags) <= MergeGap
        THEN flags ELSE Append(flags, fs[r[1]].ms)
  IN  FoldLeft(Flag, <<>>, runs)

-----------------------------------------------------------------------------
(* The measures: truth is a function of frame_ms to [x, w, visible].       *)

\* bbox_iou(a, b) >= IoU, of boxes around x.
Overlaps(a, b) ==
  LET inter == Max({0, Min({2 * a.x + a.w, 2 * b.x + b.w}) - Max({2 * a.x - a.w, 2 * b.x - b.w})})
      union == 2 * a.w + 2 * b.w - inter
  IN  union > 0 /\ 100 * inter >= IoU * union

\* _point_in_bbox.
Inside(x, b) == 2 * b.x - b.w <= 2 * x /\ 2 * x <= 2 * b.x + b.w

Detected == {seen[i].ms : i \in {j \in DOMAIN seen : seen[j].found # <<>>}}
FoundAt(ms) == LET i == CHOOSE j \in DOMAIN seen : seen[j].ms = ms IN Range(seen[i].found)
Expected == {ms \in DOMAIN scene.truth : scene.truth[ms].visible}

\* detector_precision_recall.  What is detected where the yo-yo is known to be
\* hidden counts neither way.
PrecisionRecall ==
  LET gt == scene.truth
      hits == {ms \in Expected \cap Detected :
                 \E d \in FoundAt(ms) : Overlaps(d, gt[ms]) \/ Inside(gt[ms].x, d)}
  IN  [tp |-> Cardinality(hits), fn |-> Cardinality(Expected \ hits),
       fp |-> Cardinality((Detected \cap Expected) \ hits) + Cardinality(Detected \ DOMAIN gt)]

\* normalized_centre_error and _error_stats; the mean is left out as a quotient.
CentreError ==
  LET gt == scene.truth
      pairs == SelectSeq(tracks, LAMBDA t : t.ms \in DOMAIN gt)
      errors == SortedBy([i \in DOMAIN pairs |-> Abs(pairs[i].x - gt[pairs[i].ms].x)], LAMBDA e : e)
      n == Len(errors)
  IN  IF n = 0 THEN [sum |-> 0, median2 |-> 0, p95 |-> 0, matched |-> 0]
      ELSE [sum |-> SumOver(LAMBDA e : e, errors),
            median2 |-> IF n % 2 = 1 THEN 2 * errors[n \div 2 + 1]
                        ELSE errors[n \div 2] + errors[n \div 2 + 1],
            p95 |-> errors[Min({n, Max({1, (95 * n + 99) \div 100})})],
            matched |-> n]

Covered == {tracks[i].ms : i \in DOMAIN tracks}

\* track_coverage, a percentage.
Coverage(times) ==
  IF times = {} THEN 0 ELSE (100 * Cardinality(times \cap Covered)) \div Cardinality(times)

\* longest_missing_interval: from the first missing frame to the next covered
\* one, or to the last frame.
LongestMissing(times) ==
  LET Holes == {h \in times \X times :
                  /\ h[1] <= h[2] /\ h[1] \notin Covered
                  /\ h[2] \in Covered \/ h[2] = Max(times)
                  /\ \A t \in times : h[1] <= t /\ t < h[2] => t \notin Covered}
  IN  Max({0} \cup {h[2] - h[1] : h \in Holes})

\* interpolation_rate, a percentage.
InterpolationRate ==
  IF tracks = <<>> THEN 0
  ELSE (100 * Len(SelectSeq(tracks, LAMBDA t : t.interpolated))) \div Len(tracks)

\* compute_monitoring_signals, in percent: of the events and the tracks of a
\* video, against a reference.
Monitoring(events, low, reference) ==
  LET n == Len(events)
      Rate(k, of) == IF of = 0 THEN 0 ELSE (100 * k) \div of
      Count(f) == Len(SelectSeq(events, LAMBDA e : e.family = f))
      average == IF n = 0 THEN 0 ELSE SumOver(LAMBDA e : e.conf, events) \div n
      families == {events[i].family : i \in DOMAIN events}
      Wanted(f) == IF f \in DOMAIN reference.frequencies THEN reference.frequencies[f] ELSE 0
      Drift(f) == Abs(Rate(Count(f), n) - Wanted(f))
  IN  [confidence |-> average,
       low    |-> Rate(Len(SelectSeq(events, LAMBDA e : e.conf < low)), n),
       failed |-> Rate(Len(SelectSeq(tracks, LAMBDA t : t.interpolated \/ t.conf < low)), Len(tracks)),
       classDrift |-> IF n = 0 THEN 0
                      ELSE MapThenSumSet(Drift, families \cup DOMAIN reference.frequencies) \div 2,
       confidenceDrift |-> Abs(average - reference.confidence)]

-----------------------------------------------------------------------------
Init ==
  /\ scene \in Scenes
  /\ seen = <<>> /\ filter = None /\ history = <<>> /\ tracks = <<>>

NextTime(step) == IF seen = <<>> THEN 0 ELSE Last(seen).ms + step

Frame == \E step \in Steps, found \in Seen, gain \in Gains : Update(NextTime(step), found, gain)

Next == Frame \/ Reset

Spec == Init /\ [][Next]_vars

-----------------------------------------------------------------------------
Times == {seen[i].ms : i \in DOMAIN seen}

\* A frame is on the track exactly when something was detected in it, or
\* earlier than it and the frame just before it is not too far away.  So no
\* detection is lost and nothing is predicted before the first one or over too
\* long a step; but a track that ended at such a step goes on at the next frame.
DetectionsAreTracked ==
  \A i \in DOMAIN seen :
    seen[i].ms \in Covered <=>
      \/ seen[i].found # <<>>
      \/ \E j \in 1 .. i - 1 : seen[j].found # <<>> /\ seen[i].ms - seen[i - 1].ms <= MaxGap

\* A yo-yo that is seen at one place only, with frames missing or not, is never
\* flagged: gaps and corrections make no speed of their own.
StillIsSafe ==
  LET places == {d.x : d \in UNION {Range(seen[i].found) : i \in DOMAIN seen}}
  IN  Cardinality(places) <= 1 => Flags(Features(tracks)) = <<>>

\* Every sustained run is flagged or starts soon after a flag; flags are starts
\* of sustained runs and further apart than the gap.
IncidentsAreFlagged ==
  LET fs == Features(tracks)
      flags == Flags(fs)
      starts == {fs[r[1]].ms : r \in Sustained(fs)}
  IN  /\ Range(flags) \subseteq starts
      /\ \A s \in starts : \E f \in Range(flags) : f <= s /\ s - f <= MergeGap
      /\ \A i \in 2 .. Len(flags) : flags[i] - flags[i - 1] > MergeGap

\* The measures of one video agree: every detected frame is a hit, a false
\* positive or hidden; the track is missing nowhere for long exactly when it
\* covers all the frames but perhaps the last; what is not interpolated was
\* detected.
MeasuresAgree ==
  LET pr == PrecisionRecall
      hidden == Detected \cap (DOMAIN scene.truth \ Expected)
      signals == Monitoring(scene.events, 50, scene.reference)
  IN  /\ pr.tp + pr.fp + Cardinality(hidden) = Cardinality(Detected)
      /\ pr.tp + pr.fn = Cardinality(Expected)
      /\ LongestMissing(Times) = 0 <=> Times \ Covered \subseteq {Max(Times \cup {0})}
      /\ Coverage(Times) = 100 => LongestMissing(Times) = 0
      /\ InterpolationRate = 100 => Detected = {}
      /\ Quality(history) = 0 => Detected = {} \/ Len(history) > 100
      /\ CentreError.p95 * 2 >= CentreError.median2
      /\ signals.failed >= InterpolationRate
      /\ signals.classDrift \in 0 .. 100

\* Tracker, features, flags and measures agree on one video (tracker_kalman.py,
\* features.py, dangerous_play.py, evaluation.py, monitoring.py).
TrackingIsSound ==
  /\ DetectionsAreTracked
  /\ StillIsSafe
  /\ IncidentsAreFlagged
  /\ MeasuresAgree
=============================================================================
