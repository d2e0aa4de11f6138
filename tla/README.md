# Yo-Yo Vision in TLA+

Yo-Yo Vision scores freestyle yo-yo routines. A user uploads a video, a Celery
worker runs an inference pipeline over it, and people review what the pipeline
found: they confirm and edit events and deductions, submit the review, and
judge the same videos in multi-judge entries.

The modules here are translated from the code under `src/`. They cover the
parts where several actors write the same rows or files (request handlers, the
broker, worker processes, the pipeline thread, the dataset tools) and the
algorithms whose results people rely on: scoring, the aggregation of judges,
tracking, decoding of events, measuring and training. `PROJECT.json` maps each
definition to the lines it stands for.

## 1. The system

| Part | State it keeps | Operations | Meets |
|---|---|---|---|
| API, analysis jobs (`routers/videos.py`, `analyses.py`, `services/job_service.py`) | `analysis_jobs` rows | dispatch, cancel, delete, submit, reopen | the broker (sends), the worker (same rows) |
| Broker (Redis under Celery, external) | messages, by retry | deliver, return after a visibility timeout | API, workers |
| Worker (`tasks.py`, `pipeline_runner.py`) | the run of each process: a thread, a polling coroutine, scheduled progress writes | first transaction, fetch, run, one of four outcomes, retry | API (through rows), storage |
| Pipeline (`ml/pipeline.py`, `inference/cancellation.py`) | the stage it is at, the cancellation token | check, run a stage, report progress | the worker that started the thread |
| Review (`routers/events.py`, `deductions.py`, `evaluations.py`, `services/scoring_service.py`, `review_guard.py`) | events, deductions, evaluation, score, ruleset version, review state | create, patch, confirm, reject, delete, evaluate, recompute, change ruleset, submit, reopen | itself: every client's requests |
| Judging entries (`routers/judging_entries.py`, `judge_access.py`, `services/judging_service.py`, `judging_results_service.py`) | entry, attached videos, invitations, freestyle marks, technical clicks | administer, invite, rotate, revoke, save, submit, click, read results | itself: administrators and judges |
| Rate limiter (`services/judge_rate_limit.py`) | a window of timestamps per key and process | check | judge requests |
| Videos and storage (`routers/videos.py`, `video_service.py`, `youtube_import_service.py`, `ml/storage.py`) | `video_assets` rows and stored bytes, with no common transaction | upload, import, soft and hard delete, stream | jobs, entries, worker |
| Trick catalogue and training annotations (`routers/tricks.py`, `training_annotations.py`) | tricks, example segments, one primary example, annotated segments of a video | create, update, delete, export | itself, the corpus |
| Scoring (`ml/scoring_engine.py`, `ruleset.py`, `scoring/*`) | none: functions of events, deductions, marks | score, preview, aggregate a panel, apply overrides, fill gaps, calibrate | review, judging results |
| Perception (`ml/perception/*`) | the tracker's filter and history | track, derive speeds, flag, measure | pipeline |
| Events (`ml/events/*`) | a training run; two files of a checkpoint | window, train, save, load, decode, measure | pipeline, offline |
| Inference runtime (`ml/pipeline.py`, `adapters_registry.py`, `inference/*`) | cached adapters, one per key; model files | configure a job, load once, get, clear | every job of the process |
| Datasets (`ml/dataset/*`, `corpus_service.py`, `scripts/prepare_training_corpus.py`) | a directory: manifest, records, videos | append, split, merge, validate, perceive, train | API processes and tools, with no lock |
| Frontend (`frontend/src`) | page state, polling | forms, live preview | API |

A job's life touches four of these. The API adds the row, sends the message and
then commits. A worker process takes the message, sets the row to running in a
transaction of its own, fetches the bytes, and starts the pipeline in a thread.
A coroutine polls `cancel_requested` and sets the thread's event; the stage
callback schedules progress writes on the event loop and does not wait for them.
The outcome is one more transaction. The message is acknowledged after all that.

### What is hard about it

* The message is sent before the row it names is committed.
* `acks_late`: a lost host, or a run longer than the visibility timeout, means a
  second run of the same job, possibly at the same time as the first.
* The cancellation flag goes row -> coroutine -> event -> exception -> row.
* Guards (`ensure_analysis_editable`, `_assert_entry_writable`, the status tests
  of cancel and delete) look at a row as the request loaded it; the write
  commits later. PostgreSQL runs at READ COMMITTED, and nothing uses
  `SELECT ... FOR UPDATE` or a version column.
* SQLAlchemy's UPDATE sets only the columns that differ from the loaded row, so
  two requests on one row can merge into a row neither of them meant.
* A recomputed score is a function of three tables read in separate statements.
* A video is a row and a blob in two systems; one is written before the other,
  and either write may be the last.
* A corpus is a directory that several processes read, change and write back; a
  checkpoint is two files.
* Scores, decoding, tracking and metrics are long chains of sorts, thresholds,
  clamps and trims, where one boundary decides which rule applies.

### What makes each part correct

* Jobs: a job is cancelled only on request, a request made before an attempt
  stops that attempt, a deleted job stays deleted, retries are bounded, and a
  job that was dispatched ends.
* Review: the stored score is that of the stored rows and of the ruleset in
  force; what was submitted does not change until it is reopened.
* Judging: a submission is complete, is never undone and never changes; a
  closed, locked or revoked form accepts nothing; published results agree with
  the final clicks.
* Videos: a listed video has its bytes and a deleted one has none, a removed one
  stays removed, a source is imported once.
* Tricks and annotations: unique names, one primary example, windows inside
  their video. Rate limit: never more than the limit in any window, and no
  refusal that another client caused.
* Scoring: the order of the rows changes nothing, a cap is a cap, an outlier that
  is trimmed does not move a result, and what a person decided stands.
* Perception and events: a detection is never lost, an annotated event comes
  back from its own targets, reports add up over clips.
* Runtime, training and corpus: a job runs the models it asked for; the best
  epoch is what is saved; a manifest never lists what is not there.

## 2. Modules

| Module | What it is |
|---|---|
| `AnalysisJob` | rows of `analysis_jobs`, their messages, and everything that writes them |
| `JobLifecycle` | the abstract status machine a client polls |
| `MCAnalysisJob` | the instance TLC checks |
| `AnalysisJobProofs` | types, cancellation, deletion, the bound on failures; with a broker that delivers each message once also one holder, submissions that no run replaces, `JobLifecycle`; for every value of the constants |
| `Review`, `MCReview` | the review of one completed analysis |
| `ReviewProofs` | its safety properties, for every value of the constants |
| `JudgingEntry`, `MCJudgingEntry` | one multi-judge entry |
| `JudgingEntryProofs` | its properties and those of `RateLimiter`, for every value of the constants |
| `VideoLibrary`, `MCVideoLibrary` | one owner's videos: rows, bytes, and what refers to them |
| `VideoLibraryProofs` | all its properties, for every value of the constants |
| `ScoringEngine` | the rule-based score of one analysis, and its preview |
| `PanelResults` | the result of a video from its judges and its analysis |
| `ScoringPipeline` | the offline score of a routine: overrides, gates, estimates |
| `EventDecode` | windows and targets of a training clip; events decoded from frames |
| `EventMetrics` | the evaluation of a detector over several clips |
| `YoyoTracking` | tracker, speeds, dangerous-play flags and their measures |
| `InferenceRuntime` | configuration, stages, adapters and the model registry of a worker |
| `ModelTraining` | the training loop and the two files of a checkpoint |
| `Corpus` | the training corpus on disk and the processes that write it |
| `TrickLibrary` | tricks, their examples, training annotations |
| `RateLimiter` | the limit on requests with a judge's link |
| `InferenceRuntimeProofs` | the properties of `InferenceRuntime` and `ModelTraining`, for every value of the constants |
| `TrickLibraryProofs` | those of `TrickLibrary` |
| `ScoringProofs` | those of `ScoringEngine`, `PanelResults` and `ScoringPipeline`, for every value of the constants |
| `VisionProofs` | those of `Corpus`, the windows and the decoding of `EventDecode` and the tracker of `YoyoTracking`, for every value of the constants |
| `DatasetChecks`, `PlayerSplits`, `PythonLists` | pure operators the above share: validation, statistics, export; the split by player; stable sorting |
| `MCComponents` | the instances of the eleven machines, one per behaviour |

The first three detailed modules meet only through a job's row, and the eleven
machines below them through data: what one yields is among the inputs of the next
(`PythonLists`, `PlayerSplits` and `DatasetChecks` hold what two of them share). `AnalysisJob` holds
the review state and "whose rows" (`none`, `model`, `human`) as two fields, with
an edit, a submission and a reopening as a check and a commit, because there the
question is what a worker does between and after the two. `Review` takes a completed
job and opens the commit up into the statements of a transaction. `JudgingEntry` links to analyses
only for display, so it stands alone. `VideoLibrary` sees of jobs and entries
that they refer to a video; `AnalysisJob` sees of its deletion that the row goes.

### `AnalysisJob`

A request looks at the row as it loaded it and commits later, so it is two steps:
`Admit...` and `Commit...` for cancel, delete, edit, submit and reopen, with
`AbortRequest` for one that fails, and `Dispatch`/`CommitCreate` or `AbortCreate`. A
worker's transaction is one step. `Kinds` names the requests an instance has.

* `row[j]`: status, stage, `cancelRequested`, `retryCount`, whose results, review
  state; `NoRow` when it is absent. `progress` is left out: every UPDATE that
  sets it sets `current_stage` with it.
* `queue[j][r]`: copies of the message with `retries = r` in its header.
* `run[w]`: the program counter of a worker process with its local variables:
  the snapshot of `cancel_requested`, the `threading.Event`, whether the polling
  coroutine has raised, and the progress writes that are scheduled but have not
  committed.
* `Start` is the first transaction (no test of the status it finds);
  `CheckPasses`, `CheckCancels`, `CheckTimesOut` are `CancellationToken.check`;
  `StageDone` schedules a progress write; `Finish`, `FinishHidden`,
  `MarkStopped`, `MarkTransient`, `MarkExhausted` are the outcomes;
  `PublishRetry` and `Ack` are Celery's.
* Faults: `Redeliver` (visibility timeout), `HostLost` (the message comes back),
  `ProcessLost` (the parent acknowledges, the row is left), `TaskError` (an
  exception where nothing catches it), `PollFails` (re-raised from `finally`, so
  that it hides the outcome).

### `Review`

A request is a transaction at READ COMMITTED: the guard reads the job as it was
loaded, a flush takes the row lock and keeps it until the end, each SELECT sees
what is committed when it runs and the request's own writes. `WriteItem` and
`WriteJob` are the flush of the request's own write, `ReadEvents`,
`ReadDeductions`, `ReadEvaluation`, `LoadScore`, `Store` are `recompute_score` in
the order of its statements, `Commit` and `Abort` end the transaction. A score is
the set of rows it counts with its ruleset version; the points are a function of
those (`ScoringEngine`). The freestyle evaluation is an item of its own: one id,
looked up and then made or written, so that two first saves collide on the unique
key. A SELECT does not refresh a row the session already holds: `View` shows a
request its own item as it was loaded, and `ItemsAfter` writes the status only if
the request changed it.

### `JudgingEntry`

Each request is `Admit...` (load and guard) and `Commit...`. `Store` applies the
differing columns to the row as it is at the commit; `CommitRotate` clears
`revoked_at` only if it was loaded as set. `ReadScores` and `ReadClicks` are the
two statements of `compute_entry_results`. With `OneForm = TRUE` a judge's marks
come from one page, which disables its buttons while a save or a submission is
pending (`JudgeFreestyleForm.tsx`); with `FALSE`, from anywhere.

### `VideoLibrary`

A video is `row[v]` (absent, live, a tombstone with `deleted_at`, removed), its
`source`, and `v \in bytes`. A request is a sequence of steps: `BeginUpload` or
`BeginImport` (the duplicate test, then the download), `Store` (`storage.put`),
`CommitAdd` (the row and perhaps a first job); `BeginDelete`, `Erase`,
`LoadChildren` (what `session.delete` loads for its cascade), `CommitSoft`,
`CommitHard` or `RefuseHard`; `BeginAnalyse`/`CommitAnalyse` and
`BeginLink`/`CommitLink`. Foreign keys are conditions of the commits: an INSERT
needs the row, a DELETE must leave nothing that refers to it. `EraseSkipped` is
the `except` of `S3CompatibleStorage.exists`; `Abort` is an error at any step.
`refused` is a history variable: a hard deletion that a judging entry or a new
job makes fail has erased the bytes already, and the row stays listed.
What a worker inserts under a job while the video is deleted would make the
deletion fail in the same way; a job stands for its rows.

### The components beside them

These machines have small inputs and compute a lot: a state holds what the code
keeps, and the results are operators over it.

* `ScoringEngine`: the tables are sequences in the order of the next read, since no
  statement has an ORDER BY and an update moves a row (`Updated`). `Calculate` is
  the engine, `Score` what `recompute_score` stores, `Preview` what the playhead
  shows. Points are integers in tenths.
* `PanelResults`: judges join in one order (nothing depends on it), with drafts, judges who only
  click, shadow judges and missing categories; `Once` bounds which of them join once; `TrimmedMean` is computed per category in
  1/420 of a point, which every panel of up to seven judges divides. `VideoResults`
  is one iteration of `compute_entry_results` with the profiles.
* `ScoringPipeline`: `ApplyOverrides`, then the gates (`Counts`), then
  `FillGaps`; `Result` is `run_scoring_pipeline`.
* `EventDecode`: `Infer` adds a frame with what the network says of it, `Sample`
  one of a training clip. `Runs`, `Refine`, `Candidate`, `Merge` and `Suppress` are
  decode.py; `Targets` and `Windows` are windowing.py.
* `EventMetrics`: predictions and annotations are added clip by clip;
  `EvaluateDetector` pools them with an offset per clip and matches greedily.
* `YoyoTracking`: `Update` is one frame through the Kalman tracker. The covariance
  is left out and with it the size of a gain, which is chosen from `Gains`;
  positions have one coordinate. `Features`, `Flags` and the measures of
  evaluation.py and monitoring.py are operators over the tracks.
* `InferenceRuntime`: `Look` and `Load` are the two halves of `get_or_load`, since
  the file may be replaced between the checksum and the load. `PathOf` is the file of
  the keywords, which the registry verifies, and `FileOf` what the adapter opens:
  without a keyword, the file of its environment variable. `Check` stands
  in front of every stage; `Forget` is a new process.
* `ModelTraining`: an epoch goes through its windows in any order, with gradient
  accumulation (`StepDue`), then `Validate` with any loss, NaN included;
  `SaveWeights` and `SaveSidecar` are apart, and so are the two reads of a loader.
* `Corpus`: every process holds the manifest it has read (`held`), writes for a
  while and saves it with its change; `Crash` leaves the file it was writing
  `Torn`. `lost` and `dirty` are history variables.
* `TrickLibrary`: a request is `Begin...` (what it reads and checks) and
  `Commit...`, with the bulk UPDATE of the primary examples (`ClearPrimary`) in
  between and its row locks. `crossed` remembers what two overlapping
  requests were about.
* `RateLimiter`: a bucket of times per process and key; `Request` purges it from
  the left, as `popleft` does, and decides.

## 3. Runs

| Run | Instance | What it shows |
|---|---|---|
| `job_faults` | 1 job, 2 workers, 1 stage, 1 retry, 1 repeated delivery, 1 error | types; cancelled only if asked; a bound on `retry_count`; a deleted job stays deleted; a dispatched job ends |
| `job_once` | 1 job, 2 workers, 3 stages, 2 retries, 1 error, no repeated delivery | one holder of the right to run; a request that came first stops the attempt; no run replaces the rows of a submitted review; `JobLifecycle` is implemented |
| `review_safe` | 2 clients, 1 flag, the evaluation, 2 versions | an undisturbed recomputation is right; a settled submission stays |
| `review_ends` | 2 clients, 1 event, 2 versions, fair | patches recompute right; no two requests wait for each other for ever |
| `entry_pairs` | 2 requests, 1 judge, 2 videos | what is closed and drained stays; nothing takes a submission back; a revocation is not lost |
| `entry_panel` | 3 requests, 1 judge, 1 video, 2 marks, one page | a submission is complete and final; results show final clicks |
| `library_whole` | 3 requests, 2 videos, 1 source, 1 job, 1 error, both backends | rows and bytes agree; deleted means erased on the file system; a removed video stays removed; one page imports a source once |
| `components` | eleven machines, one per behaviour; see below | the safety of each component |
| `job_cancel_stops` | violation | see section 4 |
| `job_submit_locks` | violation | see section 4 |
| `review_confirm` | violation | see section 4 |
| `review_locks` | violation | see section 4 |

Why these bounds are enough to be interesting:

* Jobs share nothing but worker processes, and a worker that is busy with
  another job is a worker that does not take a step, which is always allowed. So
  one job suffices. Two workers are needed for overlapping runs of one job, and
  one repeated delivery creates them. Three stages and two retries
  in `job_once` let late progress writes of one attempt overlap the next stage,
  and let a job be retried twice and then exhausted.
* In `Review` every conflict is about at most two requests on the job's row, the
  score's row and one item. `review_safe` has a flag and the evaluation, two items
  of different tables, which are read at different times, and every request.
  `review_ends` has an event, with patches and ruleset changes: they lock every
  set of rows a request can lock.
* In `JudgingEntry` each pair of a judge and a video has its own rows; two
  requests at a time let a judge's write and an administrator's change, or two
  writes, pass their guards together, and a second video can be attached late.
  The panel run has three, for a save or a submission with clicks while the
  results are read, and two marks, so that a final mark could change.
* In `VideoLibrary` the conflicts are about one video: a soft and a hard deletion
  with an analysis or a link need three requests. A second video lets a source be
  imported twice. One job is both one that was loaded and one that came late. The
  ids of videos, jobs and requests are interchangeable (`IdSymmetry`); all of its
  properties are of safety.
* `MaxRedeliver` and `MaxErrors` bound the counted faults, and `Kinds` the requests:
  `job_faults` sends cancellations and deletions, since what its properties
  speak of is not touched by edits and submissions, which `job_once` has. There are no
  other bounds on behaviour in these modules. `retryCount` and the queue need none: the retry header
  stops at `MaxRetries`.

`CHECK_DEADLOCK FALSE` everywhere: jobs that have ended, closed entries and
clients that send nothing may stop, and the machines of `components` end at
their bounds.

### The run `components`

The eleven machines do not meet while they run, so a behaviour is about one of
them: `part` says which, and the variables of the others are `None`. The run
visits the sum of their states, not the product, and each invariant is that
of one module. Ids of API processes, analyses and requests are interchangeable
(`Alike`), and all of it is safety. What the property of each part shows, and the
bounds:

| Part | Property | Bounds, and why they are enough |
|---|---|---|
| scoring | `OrderIsNoMatter`: with no ties in time neither score nor preview depends on the order of the rows. `CapPerType`: no spread of a quantity over rows beats the cap | 3 rows of 3 events and 3 deductions, all four repetition policies, two windows: a repeated element, one outside the window, a cap that is used up by two rows, a flag |
| panel | `OnlyIncludedCount`: a shadow, an excluded judge, a draft and a judge who only clicked leave no trace. `TrimResists`: the judges a mode trims cannot take a category out of the others' range | 7 assignments, of which the last five join at most once, up to 7 judges: below, at and above the thresholds 3, 5 and 7; 4 modes, 3 profiles |
| fusion | `HumanDecides`: what was rejected and a flag nobody confirmed cost nothing, what was confirmed costs its quantity; a judge's mark stays; the scored events are those that people left, as the last valid override left them | 4 rows, overrides and forms together; every profile |
| metrics | `ReportAddsUp`: the pooled report is the sum of the clips', and all its tables agree | 2 clips with 4 events together, which overlap and have the wrong class or time |
| decode | `DecodeIsFaithful`: events of a class stand apart, a sustained run is found, the targets of a clip decode to its annotations, no frame is left out of training | 4 decoded frames, 8 trained ones, even and uneven spacing |
| tracking | `TrackingIsSound`: exactly which frames are on the track, every detection among them; a yo-yo at rest is never flagged, fast runs are, the measures agree | 5 frames: a detection, a gap, a gap that is too long, and one after it |
| runtime | `RuntimeIsSound`: a job's adapters were loaded with its own keywords and pins, equal jobs use one model until the registry is emptied, stages run in order | 2 jobs, 1 write of a model file, 2 lives of the registry; one adapter has a file in the environment |
| training | `TrainingIsSound`: players stay apart, every window's gradient is applied once, the best epoch is kept, the pair of files agrees but for a run between or dead between them | 4 players or 2, batches of 2, patience 2, 3 epochs, 2 runs |
| datasets | `CorpusIsWhole`: a listed record and its video are there, an export stays listed unless an older manifest was saved over it, one record per video is trained on and no player leaks, the checks of neighbours suffice, the statistics add up | every video of the start has its features; 2 API processes, the tool and the script; 3 of their operations (exports, splits, merges, perceptions, preparations), 1 edit, 1 crash |
| tricks | `LabelsAreSound`: names, spellings, primary examples and windows under overlapping requests, and what is exported can be read | 3 requests, 2 at once; two spellings of one name |
| limiter | `LimiterIsFair`: no window of any start holds more than the limit; nobody is refused but for their own requests | 2 clients whose links are counted under one key, one process; times 0 to 2, a window of 1, limits 1 and 2 |

`TypeOK` is the conjunction of the modules' own. A property that names an
exception (`NoTies`, `crossed`, `lost`, `torn`, `dirty`) names exactly what the
code allows; section 4 says which.

### Fairness

`AnalysisJob!FairSpec` assumes that an admitted API request is answered and that
a worker process takes its next step (weak fairness). It assumes nothing of
users, polls or progress writes. `Review!FairSpec` assumes strong fairness of a
request's next step, since a row lock is granted and taken away by others:
PostgreSQL queues the waiters of a row lock, so one that can proceed again and
again does. `Abort` and the arrival of requests are not fair.

`DispatchedSettles` excuses behaviours with a counted error: a process that dies
under its parent, or an exception outside the handlers, leaves the row as
it is, and only a person can finish it.

## 4. Where the code and its words differ

* `job_cancel_stops`. `create_and_dispatch_analysis_job` sends the message before
  its caller commits. A worker that is quicker finds no row, logs it and drops
  the message. The job is pending for ever; `delete_analysis` refuses it ("Cancel
  it first, then delete once it has stopped"), and cancelling never stops it.
* `job_submit_locks`. `submit_analysis` "Locks the analysis for editing after
  review is complete". A repeated delivery of a finished job sets it running
  again and replaces every row, the submitted ones included.
* `review_confirm`. `events.py`: "every mutation triggers a score recomputation so
  the displayed score never goes stale". The two confirm endpoints recompute
  nothing, and confirming changes what counts for a flag and for an item that was
  rejected.
* `review_locks`. `review_guard.py`: "Guards that block mutations on submitted
  analyses." The guard looks at the job as the request loaded it. An edit that was
  admitted before a submission commits after it, over the submitted rows.

Read in the code and reachable in these models, but checked by no run:

* Two recomputations at once can store a score without the other's edit.
* A judge's save or click that was admitted before a submission or a lock commits after
  it, although `docs/multi_judge_entries.md` has the video "read-only" from then on;
  two tabs of one judge can blank a field of a submitted row.
* "Locked entries cannot be edited", says `update_entry`; they can, if the payload
  repeats the status `locked` (`judging_service.py:231`, `AdmitUpdate`).
* A late progress write leaves a completed job at an earlier stage; `retry_count` also
  counts the last attempt, which is not retried.
* Two imports of one source at a time, from two pages or after a reload, both pass the
  duplicate test, and every later lookup of the source raises.
* A hard deletion of a video in a judging entry erases its bytes and then fails,
  although `delete_video` promises to remove the rows as well.
* `docs/data_model.md` says that both deletions "always remove the stored video
  bytes"; an error of S3 during `exists` passes for a missing object, and the
  bytes of the deleted video stay (`EraseSkipped`).

The properties that do hold are stated so that these are allowed and nothing more:
`RunsSpareSubmitted` speaks of what is not such an edit, `Settled` and `Quiet` ask that
earlier requests have ended, `AloneIsFresh` that nobody interfered, `OneForm` and
`OnePage` that there is one page; `StorageAgrees` names the refused deletions, and
`GoneHasNoBytes` the file system.

### Found while modelling, without a run of its own

The new machines model these as the code does them.

* `scripts/prepare_training_corpus.py:81` unpacks two values from
  `PerceptionPipeline.run_and_write`, which returns three
  (`perception/pipeline.py:156`; `perception/cli.py:82` has it right). The
  perception step ends with a ValueError after the first record it writes, although
  `README.md:65` and `docs/CreatorManual.md:266` give the script as the way to
  validate, perceive and train (`Corpus!Perceive`).
* `_create_adapter` (`ml/pipeline.py:158`) adds `device` to the keywords of every
  adapter that is not a mock. `kalman`, `mediapipe`, `onnx`, `majority` and `rules`
  do not take it: a job configured with one of them (`docs/adapters.md:173`,
  `.env.example:64`) ends with a TypeError (`InferenceRuntime!Load`).
* `model_registry.py:74` says that the checksum is verified before the loader runs, so
  that a corrupt file never reaches it. The registry compares the file of the
  keywords; without one the loaders of the PyTorch and ONNX adapters take the file an
  environment variable names, and a pin in the configuration is compared with nothing
  (`FileOf`). Nor is the pin part of the cache key, and a file can be replaced
  between the checksum and the load or while it is cached. So `RunsItsOwn` speaks of
  the keywords' file and of what was verified, `SameModels` of one life of the registry.
* `tracker_kalman.py` says that it stops emitting tracks beyond `max_gap_ms`. The gap is
  measured from the last frame, with or without a detection, so at ordinary frame
  rates a bridge never stops; and nothing is reset, so that after a step that was too
  long the next frame is on the track again. `DetectionsAreTracked` states just that rule.
* `dangerous_play.py` speaks of the gap between two runs; the code compares the
  start of a run with the start of the last flag.
* `evaluation.py`: a prediction in a frame known to be hidden is neither a hit nor
  a false positive, and `longest_missing_interval` is 0 when only the last
  frame is missing (`MeasuresAgree`).
* `scoring/cli.py` sets `points=0.0` on annotated deductions as a placeholder to be
  ignored; the engine uses points that are not None, so they cost nothing.
* In the research profile an override sets a confirmed event to EDITED, and the
  event no longer counts (`OverridesStand`).
* With ties in time the score may depend on the order PostgreSQL returns the rows.
* Two requests at once can make two names that differ in case, after which every
  look-up of that name fails with an error 500, and two primary examples when one
  of the requests adds an example.
* A re-export moves its record to the end of the manifest, so that of two submitted
  analyses of a video the one exported longest ago is trained on, and drops a
  yo-yo track that was merged. `write_text` is not atomic: a torn manifest makes
  the corpus unreadable. A save of an older manifest takes records and splits with
  it.
* Three players can be too few to train with: when a target rounds to 0 a split
  may be left empty.

Two attempts at a proof changed the model. `BestIsKept` first said that every epoch
before the kept one was worse by more than the improvement asked for. Losses of 4, 3
and 2, with an improvement of more than 1, refute it: the second is no improvement on
the first and is not worse than the third by enough. It holds that each was worse. And
the export took whatever a reviewer had typed, where `build_dataset_record` goes
through the models of the schema and refuses an event that ends before it starts:
`Export` now requires `WellFormed`, and the run has such a review.

## 5. Proofs

All are checked by TLAPS, from the assumptions named beside the constants and
the hypotheses named here. Each invariant below was first checked by TLC on an
instance; where a property is not inductive, the text says what is added and why.

Of `AnalysisJob`, for any sets of jobs and workers, any number of stages and
retries and any bound on faults:

* `TypeCorrect`: `Spec => [](TypeOK /\ RunShape)`. `TypeOK` alone is not
  inductive: that a stage or an outcome names a real job, and that a retry is
  published only below the limit, is `RunShape`, which ties a run's program
  counter to its other fields.
* `CancelInvariant`: `Spec => []CancelInv`. `CancelInv` adds to those that an
  absent row is `NoRow` and its creating transaction has closed before it
  appears (`RowOK`), and how far the flag may have travelled (`FlagOK`): the
  event is set only for a job whose row, if it is still there, has the request.
  The step from a worker's event to the row needs that nothing takes
  a request back: that is `KeepsRow`, proved for every action and cited for the
  event of each worker. `CancelIsHonest` (`CancelledOnlyIfAsked`),
  `PresetCancelStops` (`PresetCancelNeverCompletes`) and `DeletedForGood`
  (`DeletedStaysDeleted`) follow from it.
* `RetryInvariant` and `RetriesAreBounded` (`RetryBound`), for any number of
  repeated deliveries. The bound on one row is a sum over every message and
  attempt of the job, wherever they are. `Tokens` is a set with one element for each
  failure still to come (a message of retry `r` can fail `MaxRetries + 1 - r` times),
  and `RetryInv` says that the failures counted and the tokens fit `Budget`.
  Each action spends tokens or replaces them by no more; only `Redeliver`
  adds some, and it raises the budget by as many.
* With `MaxRedeliver = 0`: `OneHolderOnly` (`OneHolder`),
  `RunsSpareTheSubmitted` (`RunsSpareSubmitted`) and `LifecycleIsImplemented`
  (`ImplementsLifecycle`), from `OnceInv`. It adds to `CancelInv` that the messages
  and attempts of a job are one at most, what that one implies of the row
  (`WaitingOK` for a message, `HolderOK` for an attempt): a status that is
  not final, the `retryCount` that its header implies, no submission; and of a
  submission in flight that its row, if it is still there, is completed (`SubmitOK`), so
  that nobody holds the job when it commits. The hypothesis is
  needed: `job_submit_locks` shows what a repeated delivery does. The
  refinement takes the initial states to initial states and each action to a
  step of `JobLifecycle` or a stutter.

Of `Review`, for any items, versions and clients: `TypeCorrect`,
`AloneLeavesFreshScore` (`AloneIsFresh`) and `SettledStays`
(`SettledSubmissionStays`), from `IInv`. `Shape` says what a request of each kind
carries, and at which statements it may be. `AloneOK` follows a recomputation that nobody
disturbed through its statements: what it has loaded is what is stored, but for
its own flushed write (`Loaded`), and what it has counted so far is what the rows
will be when it commits (`ReadSoFar`).

Of `JudgingEntry`, for any judges, videos, marks and clicks: `TypeCorrect`,
`ResultsAreFinal` (`ResultsFinal`), `SubmissionStays` (`NeverUnsubmitted`),
`ClosedStaysQuiet` (`QuietStays`), `RevocationStays` (`RevocationHolds`); and,
when a judge has one page (`OneForm`), `SubmissionIsComplete`
(`SubmittedIsComplete`) and `SubmittedMarksStay` (`MarksFinal`). `ResultsInv` says
of a pair that was seen as submitted with no click in flight that it stays so
until the clicks are read; `FormsInv`, that with one page the row is as the request
loaded it; `InviteInv`, that an assignment is added once and
only one with a link is rotated or revoked.

Of `VideoLibrary`, for any sets of videos, jobs and requests and any bound on
errors: `LibraryTypeCorrect`, `DeletedIsErased` (`GoneHasNoBytes`) and
`RemovalIsFinal` (`RemovedForGood`), from the invariant `IInv`. `GoneHasNoBytes`
is not inductive: a deletion may commit only because it has erased before
(`Erased`), and what it erased is not stored again because a request that stores
has a video of its own without a row (`NewRows`). `RemovedForGood` needs that no
request which found the row is one that inserts it (`NewRows` again), and
`References`, which carries the foreign keys through every commit. `Shape` says
which request may be at which step. `ImportedOnce` (`SourceOnce`) adds `OneImport`:
one page adds one video at a time, and what the duplicate test found stays true
until that video is listed. `RowsAndBytesAgree` (`StorageAgrees`) adds `Stored`: a
row is inserted only for bytes that are there. With these, every property the run
checks is proved.

Of ten machines of the run `components` (which checks each property as
`part = ... => ...`, so that the theorems name the property of the machine):

* `RateLimiter`, in `JudgingEntryProofs` with the judging entry the links are for,
  for any clients, keys, processes, limits and window, all of
  them counts (`LimitCounts`): `LimiterFair` (`LimiterIsFair`). A bucket forgets, and the
  property is about all that was let in. `Agrees` connects the two: the
  bucket is the end of that sequence, all that was dropped is older than the window,
  and a request and the one a whole limit before it lie more than a window apart.
  The last clause gives every window of any start; the first two, the refusals.
* `InferenceRuntimeProofs`, for any settings, overrides, files and hardware, when
  `None` is not one of three strings (`NoneIsNoName`): `JobsRunTheirOwnModels`
  (`RuntimeIsSound`). The invariant says of the registry that what it holds
  was verified against the pin it was loaded with, where its keywords name the file
  (`EntryOK`), of each job that what it
  uses is still cached unless the registry was emptied (`UseOK`), and of a load
  that nobody loaded the key since it looked (`JobOK`): with that, `Load`
  never replaces a model that an earlier job uses.
* `ModelTraining`, in `InferenceRuntimeProofs`, for any players, samples, losses, batch
  size, patience and number of epochs and runs (`ConfigOK`): `EpochsStayWhole`
  (`EpochsAreWhole`), `BestStaysKept` (`BestIsKept`) and `PairsStayTogether` (`PairsAgree`), from
  `TrainInv`. `BestOK` says which of the epochs so far is the best in terms of all
  their losses, where the code keeps one number; `PairOK` and `ServedOK`
  order the runs of the two files and of the two halves that were read.
* `TrickLibraryProofs`, for any tricks, videos and windows and any number of
  requests at once, from tables that satisfy the constraints of the schema
  (`StoreOK`): `LabelsStaySound` (`LabelsAreSound`). `RequestOK` carries
  what a request found out before it commits: its name is still free
  (`NameFree`) and it has seen, then cleared, every example of its trick
  (`KnowsExamples`). Either can fail only if two requests crossed, and
  `CrossingsSeen` says that `crossed` has recorded it. That the exports are in order
  rests on `SortingSorts`: sorting is a permutation, and the keys come in order.
* `ScoringProofs`:
  * `ScoringEngine`, for any events, deductions, evaluations and rulesets with one
    rule for each type and caps that are counts (`ScoringOK`): `CapsAreCaps`
    (`CapPerType`). The allowance of each penalty is what the cap leaves of the
    quantities before it; that the allowances then sum to no more than the cap is an
    induction over the penalties, `SumOver` being a recursive function over places.
    Without any hypothesis on the rules, `OrderDoesNotMatter` (`OrderIsNoMatter`):
    two lists of the same rows without ties in time are sorted into one list
    (`SortedAlike`: a row comes where the number of rows before it says), so that
    all that is folded over it is the same; and at the end of the routine every
    scored row is one the preview has passed. `ScoringIsTyped` is `TypeOK`.
  * `PanelResults`, for any judges, forms, modes and the three mix profiles
    (`PanelOK`): `PanelIsTyped` (`TypeOK`), `OnlyIncludedJudgesCount`
    (`OnlyIncludedCount`) and `TrimmedJudgesCannotTip` (`TrimResists`). For the last,
    let d be the number trimmed at each end: of any d + 1 lowest marks one
    is not among the d judges left out, so each mark from the d+1st on is at least the
    least of the others, and each up to the d+1st from the top at most their greatest
    (`Untrimmed`); the mean of marks in a range, rounded down, is in that range
    (`MeanWithin`); and the panel of each profile is the mean of the marks it counts
    (`PanelValue`).
  * `ScoringPipeline`, for any rows, overrides and forms that have the shape of theirs
    (`FusionOK`): `PeopleDecide` (`HumanDecides`), from `FusionInv`: the types, and that
    an event is given once. `After` is the invariant of the loop over the overrides:
    after m of them each event has kept its id, is edited if one of those m touched it
    unless it was rejected (`Left`), and has the outcome of the last of them that sets it
    (`LastSays`), or else its own; which events are scored follows from the status. A
    penalty is a sum over the deductions that count, bounded term by term from both
    sides (`TotalBelow`).
* `VisionProofs`, the package under `src/ml`:
  * `Corpus`, for any analyses, reviews, processes and bounds, from corpora whose
    manifest lists files that are there (`ConstantsOK`): `ListedStaysThere`
    (`ListedIsThere`), `AnsweredStaysListed` (`ExportsStayListed`) and
    `ValidatedIsTrained` (`TrainsWhatItChecked`), from `CorpusInv`. None is inductive.
    A process writes for a while with the manifest it read at its start, so the
    invariant says of each of those manifests, too, that it lists nothing twice
    and only what is there (`ApiOK`, `ToolOK`), and of each process that what it has
    written by its stage is on disk; `Grows` (no step removes a file) carries that
    past the steps of the others. `PrepOK` follows the script: until somebody writes,
    what it validated is what it finds. With reviews that have times (`RowsOK`):
    `NeighboursStaySufficient` (`NeighboursSuffice`) and `CorpusIsTyped` (`TypeOK`),
    from `RecordsInv`, which says of every record wherever it is, on its way too,
    that the schema accepts it. For any number of events, a sorted list in which two
    events overlap has two neighbours that do.
  * `EventDecode`, for any times, window and stride (`ClipsOK`): `FramesStayTrained`
    (`FramesAreTrained`). The invariant is that times go up; that every frame then
    has a window is the division of its time by the stride. For any finite set of
    classes, margin, configurations and outputs that are percentages (`DecodeOK`):
    `EventsStayApart` (`StandApart`) and `SustainedStaysFound` (`SustainedIsFound`),
    of every clip (`DecodeInv`: what is decoded is never stored). Each loop of decode.py
    has an invariant of its own, and one lemma (`LoopRuns`) says that a loop has a
    result. `AllApart` is that of `_suppress`. `MergedUpTo` is that of `_merge`: the
    first m events by start are covered by what is merged so far, which stands in order
    and starts no later than those to come, so an event that does not extend the last
    one is far from all of them. `FoundUpTo` is that of the loop over the classes. A
    boundary that a head puts before the run, or after the next one, changes where an
    event starts but not that it ends no earlier (`Spans`), which is what these need.
    Of the confidences, which are rounded here beyond runs of six frames, they use nothing.
  * `YoyoTracking`, for any detections, times and gains of the filter
    (`TrackingOK`): `DetectionsStayTracked` (`DetectionsAreTracked`) and
    `StillStaysSlow`, from `TrackInv`. It says where the filter stands and that there is
    one once something was seen (`FilterOK`), that a track has each time once
    (`TracksOK`), exactly which frames are on it (`TrackedOK`, with `Bridged` for those
    that nothing was seen in), and that while everything was seen at one
    place the filter has that place and no speed (`RestsOK`). `StillIsSafe` is
    checked of the flags, which are folded from the runs; what is proved is that
    there is no run to make a flag of.

Only model-checked, of `components`: the property of `EventMetrics`; of `EventDecode` only `TargetsAreDecoded`; `SplitsArePlayers`,
`SelectionIsClear` and `StatisticsAddUp`; the flags and the measures of
`YoyoTracking`. They compute over sequences by folds, scans and library operators
that the provers know no facts of. Further
the liveness properties `DispatchedSettles` and `RequestsEnd`, which the prover
cannot reach because of fairness. The properties of the four runs that end in a
violation do not hold, but for `RunsSpareSubmitted`, which does when no delivery is
repeated.

## 6. What is not modelled

Of the modelled parts: stage timings and warnings; a database error in the
worker's short transactions other than as `TaskError`; the request that changes
the routine window of a review (the window itself is in `ScoringEngine`); linking
analyses to an entry's videos and their order; training annotations and trick clips
of a video that is deleted; the free text of every row; rounding, confidences and
warning texts of scores; the covariance of the Kalman filter.

Of the system, with the reason:

* The networks and their numerical training, the detectors behind mediapipe, ONNX
  and PyTorch, the multimodal and string features, the temperature fit and the
  statistics of `scoring/calibration.py`: floating-point functions with no state.
  What they return is an input of the modules that decide on it.
* CVAT's XML, CSV and JSON downloads, reports, overlays and timing: formatting.
* Authentication: checks on one row each. That a request is of the owner is a
  precondition of every request here.
* Migrations, the loading of the packaged rulesets, rendering and polling in the
  frontend.

## 7. Plan

What remains is to prove more, with the sums, the selections and the sorting of
`PythonLists` in place of folds and library scans, as the three machines
of `ScoringProofs` and `EventDecode` have them.

1. `EventMetrics!ReportAddsUp`: the counts of a report are sums over clips.
2. `EventDecode!TargetsAreDecoded`: from `CandidateIs` and `MergedUpTo`, with a lemma
   for what `Refine` finds near the one frame a target is on.

Of the lemmas, those on sorting (`SortingSorts`, `PlacesAreTaken`, `SortedAlike`),
on the places of a set (`PlacesInOrder`, `KeptInOrder`), on sums (`ScoringProofs`)
and on the rows of a set (`RowsOfSet`), and `LoopRuns`, are of use to both.
