---------------------------- MODULE MCComponents ----------------------------
(***************************************************************************)
(* Model checking the components that do not talk to each other while they *)
(* run, in one run: part says which of them this behaviour is about, and   *)
(* the variables of the others are None.  What joins them is data: a       *)
(* module's outputs are among the inputs the next one is given here.       *)
(***************************************************************************)
EXTENDS Integers, FiniteSets, SequencesExt, TLC

CONSTANTS NaN, Torn, None,
          Apis, Analyses, Requests  (* Two model values each, alike.         *)

VARIABLES part,
          ruleset, window, events, deductions, evaluation,
          mode, profile, judges, ai,
          fusion, drafts, faults, overrides, forms,
          samples,
          config, annotated, clip,
          scene, seen, filter, history, tracks,
          disk, writes, cache, life, job, done,
          roster, phase, splits, todo, pending, applied, losses, best, stale,
          weights, run, checkpoint, torn, inUse,
          manifest, files, clips, reviews, apis, tool, prep, artefacts, work,
          edits, crashes, exported, lost, dirty,
          tricks, segments, requests, served, crossed,
          now, buckets, admitted, refusal

-----------------------------------------------------------------------------
(* Scoring: four policies, an open and a trimmed routine window; three     *)
(* events, one of them outside the window, one repeated; stops at a cap,   *)
(* with and without points of their own, and a flag that needs a           *)
(* confirmation.                                                           *)

Element(l, f, s, e, o, b) ==
  [label |-> l, family |-> f, start |-> s, end |-> e, outcome |-> o, band |-> b, low |-> FALSE]
Elements == {Element("a", "suicide", 1, 4, "success", "basic"),
             Element("a", "suicide", 3, 6, "success", "advanced"),
             Element("b", "hop", 2, 3, "uncertain", "basic")}
Fault(t, a, q, p) == [type |-> t, at |-> a, quantity |-> q, points |-> p, low |-> TRUE]
Faults == {Fault("yoyo_stop", 1, 1, None), Fault("yoyo_stop", 2, 2, 10),
           Fault("dangerous_play_review", 2, 1, None)}
Rule(t, p, c, f) == [type |-> t, points |-> p, cap |-> c, confirm |-> f]
Ruleset(policy) ==
  [policy |-> policy, multipliers |-> <<10, 7>>, highRisk |-> {"suicide"},
   bandPoints |-> [basic |-> 1, intermediate |-> 2, advanced |-> 3, unknown |-> 1],
   rules |-> {Rule("yoyo_stop", 2, 2, FALSE), Rule("dangerous_play_review", 5, None, TRUE)},
   weights |-> [c1 |-> 1, c2 |-> 2], technicalMax |-> 2, freestyleMax |-> 10,
   technicalWeight |-> 6, freestyleWeight |-> 4, official |-> FALSE, reference |-> None]

ScoringEvaluations == {[c1 |-> 5, c2 |-> None]}
ScoringWindows == {<<None, None>>, <<1, 5>>}
ScoringRulesets ==
  {Ruleset(p) : p \in {"decay_high_risk_only", "decay_all_families", "full_credit", "cap_occurrences"}}

Scoring == INSTANCE ScoringEngine WITH
  EventPool <- Elements, DeductionPool <- Faults, MaxRows <- 3, Duration <- 6,
  Evaluations <- ScoringEvaluations, Windows <- ScoringWindows,
  Rulesets <- ScoringRulesets, Categories <- {"c1", "c2"}

-----------------------------------------------------------------------------
(* The panel: up to seven judges, enough for both trims, some of them with *)
(* a category missing; and at most one shadow judge, one left out, one     *)
(* with a draft, and one who has clicked but has no form.                  *)

Judge(x, y, p, n) ==
  [score |-> [execution |-> x, showmanship |-> y], submitted |-> TRUE, include |-> TRUE,
   shadow |-> FALSE, positive |-> p, negative |-> n]

PanelAssignments ==
  <<Judge(0, None, 2, 1), Judge(6, 4, 0, 0), Judge(10, 9, 3, 0),
    [Judge(10, 10, 5, 0) EXCEPT !.shadow = TRUE], [Judge(0, 0, 0, 5) EXCEPT !.include = FALSE],
    [Judge(1, 10, 4, 0) EXCEPT !.submitted = FALSE],
    [Judge(0, 0, 0, 4) EXCEPT !.submitted = FALSE, !.score = None]>>
PanelEvaluations ==
  {[execution |-> 10, showmanship |-> 1], [execution |-> None, showmanship |-> None]}
PanelModes == {"simple_mean", "trim_1", "trim_2", "auto"}
PanelProfiles == {"compare_only", "gap_fill", "virtual_judge"}

Panel == INSTANCE PanelResults WITH
  Assignments <- PanelAssignments, MaxJudges <- 7, Once <- 3 .. 7,
  Categories <- {"execution", "showmanship"}, Evaluations <- PanelEvaluations,
  Modes <- PanelModes, Profiles <- PanelProfiles

-----------------------------------------------------------------------------
(* Fusion: an event of each review status, an override for each field and  *)
(* some that do not apply, a form filled and one with a gap.               *)

Draft(i, f, o, s) == [id |-> i, family |-> f, outcome |-> o, status |-> s]
Flaw(i, t, q)     == [id |-> i, type |-> t, quantity |-> q, status |-> "pending"]
Override(e, f, v) == [event |-> e, field |-> f, value |-> v]

FusionCategories == {"execution", "control", "trick_diversity", "space_use_emphasis",
                     "music_choreography", "music_construction", "body_control", "showmanship"}
Form(x, y) == [c \in FusionCategories |-> IF c = "execution" THEN x
                                          ELSE IF c = "showmanship" THEN y ELSE None]

FusionEventPool ==
  {Draft(1, "hop", "success", "pending"), Draft(2, "suicide", "miss", "confirmed"),
   Draft(3, "control_miss", "miss", "rejected")}
FusionDeductionPool == {Flaw(1, "yoyo_stop", 1), Flaw(2, "dangerous_play_review", 2)}
FusionOverridePool ==
  {Override(1, "outcome", "miss"), Override(2, "outcome", "success"),
   Override(2, "outcome", "great"), Override(3, "family", "hop"),
   Override(1, "review_status", "confirmed"), Override(9, "outcome", "miss")}
FusionScores == {Form(5, None), Form(None, 8)}
FusionFromFeatures == [space_use_emphasis |-> 720, body_control |-> None]

Fusion == INSTANCE ScoringPipeline WITH
  profile <- fusion, events <- drafts, deductions <- faults, MaxRows <- 4,
  EventPool <- FusionEventPool, DeductionPool <- FusionDeductionPool,
  OverridePool <- FusionOverridePool, Scores <- FusionScores,
  FromFeatures <- FusionFromFeatures

-----------------------------------------------------------------------------
(* Measuring the detector: two clips, with annotations that overlap and    *)
(* detections that are right, late, of a wrong class or outcome.           *)

Truth(f, s, e, o)         == [family |-> f, start |-> s, end |-> e, outcome |-> o]
Detected(f, s, e, o, c)   == [family |-> f, start |-> s, end |-> e, outcome |-> o, confidence |-> c]

MetricsDetections ==
  {Detected("mount", 0, 10, "success", 80), Detected("mount", 4, 12, "miss", 60),
   Detected("hop", 2, 8, "success", 60)}
MetricsAnnotations ==
  {Truth("mount", 0, 9, "success"), Truth("mount", 3, 12, "success"),
   Truth("hop", 2, 9, "success")}

Metrics == INSTANCE EventMetrics WITH
  Detections <- MetricsDetections, Annotations <- MetricsAnnotations, Threshold <- 50,
  Thresholds <- {30, 50}, ClipOffset <- 1000, MaxClips <- 2, MaxEvents <- 4

-----------------------------------------------------------------------------
(* Decoding: clips of four frames, evenly and unevenly spaced, with both   *)
(* strategies and both actions on a doubtful event.                        *)

Output(a, b, s, e, o) ==
  [class |-> ("mount" :> a @@ "hop" :> b), start |-> ("mount" :> s @@ "hop" :> 0),
   end |-> ("mount" :> e @@ "hop" :> 0), outcome |-> [i \in 1 .. 3 |-> IF i = o THEN 100 ELSE 0]]
Decoding(strategy, gap, heads, action) ==
  [activation |-> 50, min |-> 2, strategy |-> strategy, gap |-> gap, iou |-> 30,
   uncertain |-> 70, action |-> action, heads |-> heads]

DecodeOutputs ==
  {Output(0, 0, 0, 0, 1), Output(60, 90, 80, 0, 2), Output(90, 60, 0, 80, 3),
   Output(60, 0, 80, 80, 1)}
DecodeConfigs ==
  {Decoding("merge", 1, FALSE, "relabel_unknown"), Decoding("merge", 1, TRUE, "flag_review"),
   Decoding("suppress", 0, TRUE, "relabel_unknown")}
DecodeAnnotationSets ==
  {<<Truth("mount", 0, 2, "success"), Truth("mount", 8, 11, "miss"),
     Truth("hop", 1, 5, "miss")>>,
   <<Truth("mount", 1, 3, "miss"), Truth("yoyo_stop", 2, 4, "miss"),
     Truth("mount", 5, 8, "success")>>}

Decode == INSTANCE EventDecode WITH
  Classes <- {"mount", "hop"}, Steps <- {1, 3}, Margin <- 1, Window <- 4, Stride <- 3,
  MaxFrames <- 4, MaxTraining <- 8, Outputs <- DecodeOutputs, Configs <- DecodeConfigs,
  AnnotationSets <- DecodeAnnotationSets

-----------------------------------------------------------------------------
(* Tracking: five frames, with steps below and above max_gap_ms, frames    *)
(* without a detection and with two.                                       *)

Seen == {<<>>, <<[x |-> 0, w |-> 2, conf |-> 50]>>,
         <<[x |-> 0, w |-> 2, conf |-> 60], [x |-> 6, w |-> 2, conf |-> 90]>>}
At(x, v) == [x |-> x, w |-> 4, visible |-> v]
Scene ==
  [pose |-> (0 :> 3 @@ 4 :> None), hand |-> (1 :> 2),
   truth |-> (0 :> At(0, TRUE) @@ 1 :> At(6, FALSE) @@ 2 :> At(1, TRUE)),
   events |-> <<[family |-> "mount", conf |-> 40], [family |-> "hop", conf |-> 80],
                [family |-> "hop", conf |-> 90]>>,
   reference |-> [frequencies |-> ("mount" :> 60 @@ "whip_catch" :> 40), confidence |-> 75]]

TrackingGains == {[pos |-> 100, vel |-> 50], [pos |-> 50, vel |-> 0]}

Tracking == INSTANCE YoyoTracking WITH
  Seen <- Seen, Scenes <- {Scene}, Steps <- {1, 3}, MaxGap <- 2, FastAt <- 2,
  MinRun <- 1, Gains <- TrackingGains, MergeGap <- 1, IoU <- 50, MaxFrames <- 5

-----------------------------------------------------------------------------
(* Inference: jobs that keep the settings, that pin the detector's weights *)
(* and fuse with an event model of the environment, pinned as well, that   *)
(* replace the weights and ask for the Kalman tracker (and pin it, who has *)
(* no file), or that ask for an adapter nobody registered; a weights file  *)
(* is replaced, by one that cannot be loaded as well.                      *)

Roles     == {"pose", "hand", "yoyo", "tracker", "temporal_event", "rgb", "string_seg", "audio"}
NoKwargs  == [r \in Roles |-> <<>>]
Unset     == [r \in Roles |-> None]
Choice(a, k, d, f) == [adapters |-> a, kwargs |-> k, device |-> d, fused |-> f]

RuntimeSettings ==
  [adapters |-> [[r \in Roles |-> "mock"] EXCEPT !.yoyo = "pytorch"],
   weights |-> [Unset EXCEPT !.yoyo = "w1"], device |-> "auto"]
RuntimeOverrides ==
  {Choice(Unset, NoKwargs, None, FALSE),
   Choice([Unset EXCEPT !.temporal_event = "torch"],
          [NoKwargs EXCEPT !.yoyo = [expected_sha256 |-> "a"],
                           !.temporal_event = [expected_sha256 |-> "a"]], "cpu", TRUE),
   Choice([Unset EXCEPT !.tracker = "kalman"],
          [NoKwargs EXCEPT !.yoyo = [weights_path |-> "w2"],
                           !.tracker = [expected_sha256 |-> "a"]], None, FALSE),
   Choice([Unset EXCEPT !.pose = "openpose"], NoKwargs, None, FALSE)}
RuntimeEnvironment ==
  [yoyo |-> [pytorch |-> "w2", onnx |-> None], temporal_event |-> [torch |-> "w2"]]
RuntimeHardware == [torch |-> TRUE, cuda |-> FALSE]

Runtime == INSTANCE InferenceRuntime WITH
  Settings <- RuntimeSettings, Overrides <- RuntimeOverrides, Contents <- {"a", "bad"},
  Corrupt <- {"bad"}, Paths <- {"w1", "w2"}, Environment <- RuntimeEnvironment, Hardware <- RuntimeHardware, MaxJobs <- 2,
  MaxWrites <- 1, MaxLives <- 2

-----------------------------------------------------------------------------
(* Training: four players of unequal clips, and two, too few to split; the *)
(* losses fall, rise, stand still or are NaN.                              *)

Clips(c, w)  == [clips |-> c, windows |-> w]
SplitRatios  == [train |-> 70, val |-> 15, test |-> 15]

TrainingRosters ==
  {("ann" :> Clips(4, 2) @@ "bob" :> Clips(1, 1) @@ "cid" :> Clips(2, 1) @@ "dee" :> Clips(3, 0)),
   ("ann" :> Clips(1, 1) @@ "bob" :> Clips(2, 1))}

Training == INSTANCE ModelTraining WITH
  files <- checkpoint, served <- inUse, Ratios <- SplitRatios,
  Losses <- {1, 2, 3, 4, 7, NaN}, Rosters <- TrainingRosters, BatchSize <- 2, Patience <- 2,
  MaxEpochs <- 3, MaxRuns <- 2

-----------------------------------------------------------------------------
(* The corpus: none yet, or one with the passes of four annotators over    *)
(* three videos of two players; two analyses of one of these videos.  A    *)
(* reviewer may have typed an event that ends before it starts.            *)

Row(i, f, s, e, status) ==
  [id |-> i, label |-> f, family |-> f, start |-> s, end |-> e, outcome |-> "success", status |-> status]
HandMade(a, v, p, e) ==
  [id |-> <<"hand", a>>, video |-> v, player |-> p, path |-> v, duration |-> 9, adjudicated |-> FALSE,
   annotator |-> a, events |-> e, deductions |-> <<>>, track |-> <<>>]
HandMades ==
  <<HandMade("x", "v1", "p1", <<Row(<<"x", 1>>, "hop", 0, 4, "pending"), Row(<<"x", 2>>, "hop", 5, 8, "pending")>>),
    HandMade("y", "v2", "p1", <<Row(<<"y", 1>>, "hop", 4, 8, "pending")>>),
    HandMade("z", "v2", "p1", <<Row(<<"z", 1>>, "hop", 4, 7, "pending")>>),
    HandMade("w", "v3", "p2", <<Row(<<"w", 1>>, "mount", 4, 7, "pending")>>)>>
Analysis(j) ==
  [id |-> j, video |-> "v2", player |-> "p1", duration |-> 9, reviewer |-> "ann", state |-> "in_review"]

DatasetsFamilyOf == ("mount" :> "mount" @@ "hop" :> "hop")
DatasetsJobs == {Analysis(j) : j \in Analyses}
DatasetsReviews ==
  {[state |-> "in_review", rows |-> <<>>, flaws |-> <<>>],
   [state |-> "submitted", flaws |-> <<>>,
    rows |-> <<Row(1, "hop", 3, 6, "pending"), Row(2, "mount", 0, 9, "rejected"),
               Row(3, "hop", 0, 4, "edited")>>],
   [state |-> "submitted", flaws |-> <<>>, rows |-> <<Row(1, "hop", 6, 3, "pending")>>]}
DatasetsStarts ==
  {[manifest |-> None, files |-> <<>>, clips |-> {}],
   [manifest |-> [ids |-> [i \in 1 .. 4 |-> HandMades[i].id],
                  videos |-> <<"v1", "v2", "v3">>, splits |-> <<>>],
    files |-> [id \in {HandMades[i].id : i \in 1 .. 4} |->
                 HandMades[CHOOSE i \in 1 .. 4 : HandMades[i].id = id]],
    clips |-> {"v1", "v2", "v3"}]}

Datasets == INSTANCE Corpus WITH
  FamilyOf <- DatasetsFamilyOf, OverlapAllowed <- {}, MinOverlap <- 50,
  Jobs <- DatasetsJobs, Reviews <- DatasetsReviews, Starts <- DatasetsStarts,
  Ratios <- SplitRatios, MaxWork <- 3, MaxEdits <- 1, MaxCrashes <- 1

-----------------------------------------------------------------------------
(* The trick library: a trick alone, one with two examples, and an         *)
(* annotation; two spellings of a name; a video of another division.       *)

Name(k, s)    == [key |-> k, spelling |-> s]
Segment(t, p) == [trick |-> t, video |-> "v1", start |-> 0, end |-> 2, primary |-> p]
Hop           == [name |-> Name("hop", "Hop"), division |-> "1A"]
Video(d, t)   == [division |-> d, duration |-> t, player |-> "p", rights |-> TRUE, deleted |-> FALSE]

TricksNames == {Name("hop", "Hop"), Name("hop", "HOP"), Name("loop", "Loop")}
TricksVideos == ("v1" :> Video("1A", 2) @@ "v2" :> Video("2A", None))
TricksWindows == {<<0, 2>>, <<1, 1>>, <<1, 3>>}
TricksStores ==
  {[tricks |-> <<Hop>>, segments |-> <<>>],
   [tricks |-> <<Hop>>, segments |-> <<Segment(1, TRUE), Segment(1, FALSE)>>],
   [tricks |-> <<>>, segments |-> <<Segment(None, FALSE)>>]}

Tricks == INSTANCE TrickLibrary WITH
  Names <- TricksNames, Videos <- TricksVideos, Divisions <- {"1A"},
  Windows <- TricksWindows, MaxServed <- 3, Stores <- TricksStores

-----------------------------------------------------------------------------
(* The rate limit: two clients with one link and one process.              *)

Limiter == INSTANCE RateLimiter WITH
  Clients <- {"c", "d"}, Tokens <- {"t"}, Servers <- {"api"}, ClickLimit <- 2, Limit <- 1,
  Window <- 1, MaxTime <- 2

-----------------------------------------------------------------------------
(* One component at a time.                                                *)

ScoringVars == <<ruleset, window, events, deductions, evaluation>>
PanelVars == <<mode, profile, judges, ai>>
FusionVars == <<fusion, drafts, faults, overrides, forms>>
MetricsVars == <<samples>>
DecodeVars == <<config, annotated, clip>>
TrackingVars == <<scene, seen, filter, history, tracks>>
RuntimeVars == <<disk, writes, cache, life, job, done>>
TrainingVars == <<roster, phase, splits, todo, pending, applied, losses, best,
                  stale, weights, run, checkpoint, torn, inUse>>
DatasetsVars == <<manifest, files, clips, reviews, apis, tool, prep, artefacts,
                  work, edits, crashes, exported, lost, dirty>>
TricksVars == <<tricks, segments, requests, served, crossed>>
LimiterVars == <<now, buckets, admitted, refusal>>

\* The variables of the components a behaviour is not about.
ScoringIdle == ruleset = None /\ window = None /\ events = None /\
               deductions = None /\ evaluation = None
PanelIdle == mode = None /\ profile = None /\ judges = None /\ ai = None
FusionIdle == fusion = None /\ drafts = None /\ faults = None /\
              overrides = None /\ forms = None
MetricsIdle == samples = None
DecodeIdle == config = None /\ annotated = None /\ clip = None
TrackingIdle == scene = None /\ seen = None /\ filter = None /\ history = None /\
                tracks = None
RuntimeIdle == disk = None /\ writes = None /\ cache = None /\ life = None /\
               job = None /\ done = None
TrainingIdle == roster = None /\ phase = None /\ splits = None /\ todo = None /\
                pending = None /\ applied = None /\ losses = None /\ best = None /\
                stale = None /\ weights = None /\ run = None /\
                checkpoint = None /\ torn = None /\ inUse = None
DatasetsIdle == manifest = None /\ files = None /\ clips = None /\
                reviews = None /\ apis = None /\ tool = None /\ prep = None /\
                artefacts = None /\ work = None /\ edits = None /\
                crashes = None /\ exported = None /\ lost = None /\ dirty = None
TricksIdle == tricks = None /\ segments = None /\ requests = None /\
              served = None /\ crossed = None
LimiterIdle == now = None /\ buckets = None /\ admitted = None /\ refusal = None

Init ==
  /\ part \in {"scoring", "panel", "fusion", "metrics", "decode", "tracking",
               "runtime", "training", "datasets", "tricks", "limiter"}
  /\ IF part = "scoring" THEN Scoring!Init ELSE ScoringIdle
  /\ IF part = "panel" THEN Panel!Init ELSE PanelIdle
  /\ IF part = "fusion" THEN Fusion!Init ELSE FusionIdle
  /\ IF part = "metrics" THEN Metrics!Init ELSE MetricsIdle
  /\ IF part = "decode" THEN Decode!Init ELSE DecodeIdle
  /\ IF part = "tracking" THEN Tracking!Init ELSE TrackingIdle
  /\ IF part = "runtime" THEN Runtime!Init ELSE RuntimeIdle
  /\ IF part = "training" THEN Training!Init ELSE TrainingIdle
  /\ IF part = "datasets" THEN Datasets!Init ELSE DatasetsIdle
  /\ IF part = "tricks" THEN Tricks!Init ELSE TricksIdle
  /\ IF part = "limiter" THEN Limiter!Init ELSE LimiterIdle

ScoringStep ==
  /\ part = "scoring" /\ Scoring!Next
  /\ UNCHANGED <<part, PanelVars, FusionVars, MetricsVars, DecodeVars,
                 TrackingVars, RuntimeVars, TrainingVars, DatasetsVars, TricksVars,
                 LimiterVars>>
PanelStep ==
  /\ part = "panel" /\ Panel!Next
  /\ UNCHANGED <<part, ScoringVars, FusionVars, MetricsVars, DecodeVars,
                 TrackingVars, RuntimeVars, TrainingVars, DatasetsVars, TricksVars,
                 LimiterVars>>
FusionStep ==
  /\ part = "fusion" /\ Fusion!Next
  /\ UNCHANGED <<part, ScoringVars, PanelVars, MetricsVars, DecodeVars,
                 TrackingVars, RuntimeVars, TrainingVars, DatasetsVars, TricksVars,
                 LimiterVars>>
MetricsStep ==
  /\ part = "metrics" /\ Metrics!Next
  /\ UNCHANGED <<part, ScoringVars, PanelVars, FusionVars, DecodeVars,
                 TrackingVars, RuntimeVars, TrainingVars, DatasetsVars, TricksVars,
                 LimiterVars>>
DecodeStep ==
  /\ part = "decode" /\ Decode!Next
  /\ UNCHANGED <<part, ScoringVars, PanelVars, FusionVars, MetricsVars,
                 TrackingVars, RuntimeVars, TrainingVars, DatasetsVars, TricksVars,
                 LimiterVars>>
TrackingStep ==
  /\ part = "tracking" /\ Tracking!Next
  /\ UNCHANGED <<part, ScoringVars, PanelVars, FusionVars, MetricsVars, DecodeVars,
                 RuntimeVars, TrainingVars, DatasetsVars, TricksVars, LimiterVars>>
RuntimeStep ==
  /\ part = "runtime" /\ Runtime!Next
  /\ UNCHANGED <<part, ScoringVars, PanelVars, FusionVars, MetricsVars, DecodeVars,
                 TrackingVars, TrainingVars, DatasetsVars, TricksVars, LimiterVars>>
TrainingStep ==
  /\ part = "training" /\ Training!Next
  /\ UNCHANGED <<part, ScoringVars, PanelVars, FusionVars, MetricsVars, DecodeVars,
                 TrackingVars, RuntimeVars, DatasetsVars, TricksVars, LimiterVars>>
DatasetsStep ==
  /\ part = "datasets" /\ Datasets!Next
  /\ UNCHANGED <<part, ScoringVars, PanelVars, FusionVars, MetricsVars, DecodeVars,
                 TrackingVars, RuntimeVars, TrainingVars, TricksVars, LimiterVars>>
TricksStep ==
  /\ part = "tricks" /\ Tricks!Next
  /\ UNCHANGED <<part, ScoringVars, PanelVars, FusionVars, MetricsVars, DecodeVars,
                 TrackingVars, RuntimeVars, TrainingVars, DatasetsVars, LimiterVars>>
LimiterStep ==
  /\ part = "limiter" /\ Limiter!Next
  /\ UNCHANGED <<part, ScoringVars, PanelVars, FusionVars, MetricsVars, DecodeVars,
                 TrackingVars, RuntimeVars, TrainingVars, DatasetsVars, TricksVars>>

Next ==
  \/ ScoringStep \/ PanelStep \/ FusionStep \/ MetricsStep \/ DecodeStep \/
     TrackingStep \/ RuntimeStep \/ TrainingStep \/ DatasetsStep \/ TricksStep \/
     LimiterStep

Spec == Init /\ [][Next]_<<part, ScoringVars, PanelVars, FusionVars, MetricsVars, DecodeVars,
                          TrackingVars, RuntimeVars, TrainingVars, DatasetsVars, TricksVars,
                          LimiterVars>>

\* The processes, the analyses, and the requests are alike.
Alike == Permutations(Apis) \cup Permutations(Analyses) \cup Permutations(Requests)

-----------------------------------------------------------------------------
(* The properties, each stated and commented in its module.                *)

\* Every component keeps its type.
TypeOK ==
  /\ part = "scoring" => Scoring!TypeOK
  /\ part = "panel" => Panel!TypeOK
  /\ part = "fusion" => Fusion!TypeOK
  /\ part = "metrics" => Metrics!TypeOK
  /\ part = "decode" => Decode!TypeOK
  /\ part = "tracking" => Tracking!TypeOK
  /\ part = "runtime" => Runtime!TypeOK
  /\ part = "training" => Training!TypeOK
  /\ part = "datasets" => Datasets!TypeOK
  /\ part = "tricks" => Tricks!TypeOK
  /\ part = "limiter" => Limiter!TypeOK

\* The order the rows are read in changes no score.
OrderIsNoMatter == part = "scoring" => Scoring!OrderIsNoMatter

\* No order of deductions takes more of a type than its cap.
CapPerType == part = "scoring" => Scoring!CapPerType

\* Only submitted, included judges who are no shadows move a result.
OnlyIncludedCount == part = "panel" => Panel!OnlyIncludedCount

\* One wild judge does not move a trimmed mean out of the others' range.
TrimResists == part = "panel" => Panel!TrimResists

\* What a person decided is in the fused score, and nothing they rejected.
HumanDecides == part = "fusion" => Fusion!HumanDecides

\* The counts of the report agree with each other and with the samples.
ReportAddsUp == part = "metrics" => Metrics!ReportAddsUp

\* Decoded events stand apart, lie in the clip and are where the frames say.
DecodeIsFaithful == part = "decode" => Decode!DecodeIsFaithful

\* Tracks follow detections, flags follow speeds, measures agree.
TrackingIsSound == part = "tracking" => Tracking!TrackingIsSound

\* A job runs the models it asked for, in the order of the stages.
RuntimeIsSound == part = "runtime" => Runtime!RuntimeIsSound

\* Players stay apart, epochs are whole, the best weights and pairs are kept.
TrainingIsSound == part = "training" => Training!TrainingIsSound

\* The manifest, the records and the videos of a corpus fit, races and crashes included.
CorpusIsWhole == part = "datasets" => Datasets!CorpusIsWhole

\* Names, primary examples and windows survive concurrent requests.
LabelsAreSound == part = "tricks" => Tricks!LabelsAreSound

\* The rate limit holds in every window and refuses for cause only.
LimiterIsFair == part = "limiter" => Limiter!LimiterIsFair
=============================================================================
