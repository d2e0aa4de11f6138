------------------------------- MODULE Corpus -------------------------------
(***************************************************************************)
(* The training corpus: a directory with a manifest, records and videos.   *)
(*                                                                         *)
(* An API process appends submitted reviews to it (corpus_service.py,      *)
(* dataset/corpus.py), the dataset tool writes splits into the manifest    *)
(* and merges yo-yo tracks into records (dataset/cli.py), and              *)
(* scripts/prepare_training_corpus.py validates it, runs perception and    *)
(* trains on it.  Each is a process of its own and nothing locks the       *)
(* directory: a process reads the manifest, writes for a while, and saves  *)
(* the manifest it read with its change.  A process may die in a write,    *)
(* which leaves the file torn; nothing reads a torn file.                  *)
(***************************************************************************)
EXTENDS DatasetChecks, PlayerSplits

CONSTANTS
  Jobs,         (* The analyses: [id, video, player, duration, reviewer].   *)
  Reviews,      (* What their reviews may say: [state, rows, flaws].        *)
  Starts,       (* The corpora it may start with: [manifest, files, clips]. *)
  Apis,         (* The API processes.                                       *)
  Ratios,       (* DEFAULT_RATIOS, percentages.                             *)
  MaxWork,      (* Bound: exports, splits, merges, perceptions, preparations. *)
  MaxEdits,     (* Bound: changes of the reviews.                           *)
  MaxCrashes,   (* Bound.                                                   *)
  Torn, None

VARIABLES
  manifest,     (* manifest.json: [ids, videos, splits], None or Torn.    *)
  files,        (* records/: the record by id, or Torn.                   *)
  clips,        (* videos/: the paths there are.                            *)
  reviews,      (* The reviews in the database, by job.                     *)
  apis,         (* What each API process writes: [stage, record, held].     *)
  tool,         (* The dataset tool: [held, splits] or [id, held], or None. *)
  prep,         (* prepare_training_corpus: [stage, checked, trained].      *)
  artefacts,    (* The videos with perception features.                     *)
  work, edits, crashes,
  exported,     (* History: the ids of the exports that were answered.      *)
  lost,         (* History: a save overwrote what another had saved.        *)
  dirty         (* History: something was written since the validation.     *)

dataset == <<manifest, files, clips>>
bounds  == <<work, edits, crashes>>
vars    == <<dataset, reviews, apis, tool, prep, artefacts, bounds, exported, lost, dirty>>

Job(j) == CHOOSE x \in Jobs : x.id = j
JobIds == {x.id : x \in Jobs}

NewManifest == [ids |-> <<>>, videos |-> <<>>, splits |-> <<>>]
Resting     == [stage |-> "idle", record |-> None, held |-> None]
Unprepared  == [stage |-> "idle", checked |-> <<>>, trained |-> <<>>]

TypeOK ==
  /\ manifest \in {None, Torn} \/ DOMAIN manifest = DOMAIN NewManifest
  /\ \A id \in DOMAIN files : files[id] = Torn \/ (files[id].id = id /\ WellFormed(files[id]))
  /\ DOMAIN reviews = JobIds /\ \A j \in JobIds : reviews[j] \in Reviews
  /\ \A p \in Apis : apis[p].stage \in {"idle", "clip", "record", "manifest"}
  /\ prep.stage \in {"idle", "perceive", "train"}
  /\ work \in 0 .. MaxWork /\ edits \in 0 .. MaxEdits /\ crashes \in 0 .. MaxCrashes
  /\ lost \in BOOLEAN /\ dirty \in BOOLEAN

Init ==
  /\ \E s \in Starts : manifest = s.manifest /\ files = s.files /\ clips = s.clips
  /\ reviews \in [JobIds -> Reviews]
  /\ apis = [p \in Apis |-> Resting] /\ tool = None /\ prep = Unprepared
  /\ artefacts = clips /\ work = 0 /\ edits = 0 /\ crashes = 0
  /\ exported = {} /\ lost = FALSE /\ dirty = FALSE

-----------------------------------------------------------------------------
Work == work < MaxWork /\ work' = work + 1 /\ UNCHANGED <<edits, crashes>>

\* load_dataset: a record that is missing or torn is an error.
Loadable ==
  /\ manifest \notin {None, Torn}
  /\ \A i \in DOMAIN manifest.ids : LET id == manifest.ids[i]
                                    IN  id \in DOMAIN files /\ files[id] # Torn

\* A file is written over the one there was.
Put(dict, key, value) ==
  [k \in DOMAIN dict \cup {key} |-> IF k = key THEN value ELSE dict[k]]

\* The rows of a job have ids of their own.
Own(j, rows) == [i \in DOMAIN rows |-> [rows[i] EXCEPT !.id = <<j, @>>]]

Records == [i \in DOMAIN manifest.ids |-> files[manifest.ids[i]]]

\* A reviewer edits, submits or reopens an analysis (module Review).
ChangeReview(j, r) ==
  /\ edits < MaxEdits /\ edits' = edits + 1 /\ r # reviews[j]
  /\ reviews' = [reviews EXCEPT ![j] = r]
  /\ UNCHANGED <<dataset, apis, tool, prep, artefacts, work, crashes, exported, lost, dirty>>

-----------------------------------------------------------------------------
(* POST .../export/corpus.                                                 *)

\* append_analysis_to_corpus: 422 when the review is not submitted, the length
\* of the video unknown, or the record not well-formed (an event of the review
\* may end before it starts).  The manifest is read before anything is written,
\* and made when there is none.
Export(p, j) ==
  LET job    == [Job(j) EXCEPT !.state = reviews[j].state]
      record == ExportOf(job, Own(j, reviews[j].rows), Own(j, reviews[j].flaws))
  IN  /\ apis[p].stage = "idle" /\ Work
      /\ job.state = "submitted" /\ job.duration > 0 /\ WellFormed(record) /\ manifest # Torn
      /\ manifest' = IF manifest = None THEN NewManifest ELSE manifest
      /\ apis' = [apis EXCEPT ![p] = [stage |-> "clip", held |-> manifest', record |-> record]]
      /\ UNCHANGED <<files, clips, reviews, tool, prep, artefacts, exported, lost, dirty>>

WriteClip(p) ==
  /\ apis[p].stage = "clip"
  /\ clips' = clips \cup {apis[p].record.path}
  /\ apis' = [apis EXCEPT ![p].stage = "record"] /\ dirty' = TRUE
  /\ UNCHANGED <<manifest, files, reviews, tool, prep, artefacts, bounds, exported, lost>>

WriteRecord(p) ==
  /\ apis[p].stage = "record"
  /\ files' = Put(files, apis[p].record.id, apis[p].record)
  /\ apis' = [apis EXCEPT ![p].stage = "manifest"] /\ dirty' = TRUE
  /\ UNCHANGED <<manifest, clips, reviews, tool, prep, artefacts, bounds, exported, lost>>

Without(s, x) == ElementsAt(s, {i \in DOMAIN s : s[i] # x})

\* Mutant: a record that is there already is listed once more.
Listed(held, r) ==
  [held EXCEPT !.ids = Append(@, r.id), !.videos = Append(Without(@, r.video), r.video)]

\* append_record_to_corpus: the entry of the same record, and of the same
\* video, moves to the end.
Relisted(held, r) ==
  [held EXCEPT !.ids = Append(Without(@, r.id), r.id),
               !.videos = Append(Without(@, r.video), r.video)]

WriteManifest(p) ==
  /\ apis[p].stage = "manifest"
  /\ manifest' = Relisted(apis[p].held, apis[p].record)
  /\ lost' = (lost \/ manifest # apis[p].held)
  /\ exported' = exported \cup {apis[p].record.id}
  /\ apis' = [apis EXCEPT ![p] = Resting] /\ dirty' = TRUE
  /\ UNCHANGED <<files, clips, reviews, tool, prep, artefacts, bounds>>

\* The process dies, in the write or before it.
Crash(p, torn) ==
  /\ crashes < MaxCrashes /\ crashes' = crashes + 1 /\ apis[p].stage # "idle"
  /\ apis' = [apis EXCEPT ![p] = Resting]
  /\ files' = IF torn /\ apis[p].stage = "record"
              THEN Put(files, apis[p].record.id, Torn) ELSE files
  /\ manifest' = IF torn /\ apis[p].stage = "manifest" THEN Torn ELSE manifest
  /\ dirty' = TRUE
  /\ UNCHANGED <<clips, reviews, tool, prep, artefacts, work, edits, exported, lost>>

-----------------------------------------------------------------------------
(* yoyovision-dataset.                                                     *)

\* _cmd_split --write: the players in any order, since the seed may be any; a
\* player counts with every record, not with every video.
Split ==
  /\ tool = None /\ Work /\ Loadable /\ manifest.ids # <<>>
  /\ LET owner  == [p \in {Records[i].player : i \in DOMAIN Records} |->
                      Cardinality({i \in DOMAIN Records : Records[i].player = p})]
         videos == {Records[i].video : i \in DOMAIN Records}
         PlayerOf(v) == Records[VideoRecord(Records, v)].player
     IN  \E order \in Orders(DOMAIN owner) :
           LET of == Assignment(owner, [i \in DOMAIN order |-> order[i]], CorpusOrder, Ratios)
           IN  tool' = [step |-> "split", held |-> manifest, splits |-> [v \in videos |-> of[PlayerOf(v)]]]
  /\ UNCHANGED <<dataset, reviews, apis, prep, artefacts, exported, lost, dirty>>

\* _cmd_merge_cvat: one record, listed or not.
Merge(id) ==
  /\ tool = None /\ Work /\ files[id] # Torn
  /\ tool' = [step |-> "merge", held |-> files[id]]
  /\ UNCHANGED <<dataset, reviews, apis, prep, artefacts, exported, lost, dirty>>

\* Each saves what it read with its change.
SaveSplit ==
  /\ tool # None /\ tool.step = "split"
  /\ manifest' = [tool.held EXCEPT !.splits = tool.splits]
  /\ lost' = (lost \/ manifest # tool.held) /\ tool' = None /\ dirty' = TRUE
  /\ UNCHANGED <<files, clips, reviews, apis, prep, artefacts, bounds, exported>>

SaveMerge ==
  /\ tool # None /\ tool.step = "merge"
  /\ files' = [files EXCEPT ![tool.held.id] = [tool.held EXCEPT !.track = <<"yoyo">>]]
  /\ lost' = (lost \/ files[tool.held.id] # tool.held) /\ tool' = None /\ dirty' = TRUE
  /\ UNCHANGED <<manifest, clips, reviews, apis, prep, artefacts, bounds, exported>>

-----------------------------------------------------------------------------
(* prepare_training_corpus: every step loads the dataset again, and any    *)
(* step but the last may be skipped.                                       *)

PrepTo(stage) == prep' = [prep EXCEPT !.stage = stage]
PrepEnds      == prep' = [prep EXCEPT !.stage = "idle"]

\* An error or an invalid dataset ends the script.
Validate(skipped) ==
  /\ prep.stage = "idle" /\ Work /\ manifest # None
  /\ IF skipped THEN prep' = [stage |-> "perceive", checked |-> <<>>, trained |-> <<>>] /\ UNCHANGED dirty
     ELSE IF Loadable /\ Valid(Records, clips, manifest.splits)
     THEN prep' = [stage |-> "perceive", checked |-> Records, trained |-> <<>>] /\ dirty' = FALSE
     ELSE prep' = Unprepared /\ UNCHANGED dirty
  /\ UNCHANGED <<dataset, reviews, apis, tool, artefacts, exported, lost>>

\* _run_perception, over the selected records.  The script takes two values of
\* the three that run_and_write returns, so it ends with a ValueError when the
\* features of the first record are written.
Perceive(skipped) ==
  /\ prep.stage = "perceive"
  /\ LET chosen == IF Loadable /\ ~skipped THEN SelectTraining(Records) ELSE <<>>
         first  == {chosen[i] : i \in DOMAIN chosen \cap {1}}
     IN  /\ artefacts' = artefacts \cup {r.video : r \in {x \in first : x.path \in clips}}
         /\ IF skipped \/ (Loadable /\ chosen = <<>>) THEN PrepTo("train") ELSE PrepEnds
  /\ UNCHANGED <<dataset, reviews, apis, tool, bounds, exported, lost, dirty>>

\* yoyovision-perception run: the features of one video.
PerceiveOne(v) ==
  /\ v \in clips \ artefacts /\ Work
  /\ artefacts' = artefacts \cup {v}
  /\ UNCHANGED <<dataset, reviews, apis, tool, prep, exported, lost, dirty>>

\* _train_yoyo_detector when asked for, which needs a track, and _train_model:
\* every selected record needs its features.
Train(yoyo) ==
  /\ prep.stage = "train"
  /\ LET chosen == IF Loadable THEN SelectTraining(Records) ELSE <<>>
     IN  IF \/ chosen = <<>>
            \/ \E i \in DOMAIN chosen : chosen[i].video \notin artefacts
            \/ yoyo /\ \A i \in DOMAIN chosen : chosen[i].track = <<>>
         THEN PrepEnds
         ELSE prep' = [prep EXCEPT !.stage = "idle", !.trained = chosen]
  /\ UNCHANGED <<dataset, reviews, apis, tool, artefacts, bounds, exported, lost, dirty>>

Next ==
  \/ \E j \in JobIds, r \in Reviews : ChangeReview(j, r)
  \/ \E p \in Apis : \/ \E j \in JobIds : Export(p, j)
                     \/ WriteClip(p) \/ WriteRecord(p) \/ WriteManifest(p)
                     \/ \E torn \in BOOLEAN : Crash(p, torn)
  \/ Split \/ SaveSplit \/ SaveMerge
  \/ \E id \in DOMAIN files : Merge(id)
  \/ \E skipped \in BOOLEAN : Validate(skipped) \/ Perceive(skipped)
  \/ \E yoyo \in BOOLEAN : Train(yoyo)
  \/ \E v \in clips : PerceiveOne(v)

Spec == Init /\ [][Next]_vars

-----------------------------------------------------------------------------
(* Properties.                                                             *)

HasManifest == manifest \notin {None, Torn}

\* At every moment, races and crashes included, a manifest that can be read
\* lists each record and video once, a listed record has its file, and a file
\* that can be read has its video on disk (append_record_to_corpus writes the
\* manifest last).
ListedIsThere ==
  HasManifest =>
    /\ IsInjective(manifest.ids) /\ IsInjective(manifest.videos)
    /\ \A i \in DOMAIN manifest.ids :
         LET id == manifest.ids[i]
         IN  id \in DOMAIN files /\ (files[id] # Torn => files[id].path \in clips)

\* An export that was answered stays listed, unless a process saved a manifest
\* that it had read before another one's save.
ExportsStayListed ==
  HasManifest /\ ~lost => \A id \in exported : Contains(manifest.ids, id)

\* At most one record per video is trained on, an adjudicated one if there is
\* any, and a player is never in two splits (split --write with records added
\* before and after).
SelectionIsClear ==
  HasManifest /\ Loadable =>
    LET records == Records
        chosen  == SelectTraining(records)
    IN  /\ IsInjective([i \in DOMAIN chosen |-> chosen[i].video])
        /\ \A i \in DOMAIN records :
             records[i].adjudicated => \E k \in DOMAIN chosen :
               chosen[k].video = records[i].video /\ chosen[k].adjudicated
        /\ ~Leaked(records, manifest.splits)

\* Comparing neighbours by start finds every pair of events of a family that
\* overlaps (_check_overlapping_incompatible_labels).
NeighboursSuffice ==
  \A id \in DOMAIN files : files[id] # Torn =>
    LET e == files[id].events
    IN  NeighboursOverlap(e) <=> \E i, j \in DOMAIN e : i # j /\ e[i].start < e[j].end
                                                             /\ e[j].start < e[i].end

\* Two passes agree no more than both have events, a pass agrees with itself,
\* and the counts of the statistics add up.
StatisticsAddUp ==
  HasManifest /\ Loadable =>
    LET records == Records
        s       == Statistics(records, manifest.splits)
    IN  /\ \A p \in PassPairs(records) : Agreement(records[p[1]], records[p[2]]).unmatched >= 0
        /\ \A i \in DOMAIN records : Agreement(records[i], records[i]).unmatched = 0
        /\ s.videos <= s.records /\ MapThenSumSet(LAMBDA x : s.splits[x], DOMAIN s.splits) <= s.videos
        /\ Valid(records, clips, manifest.splits) =>
             MapThenSumSet(LAMBDA f : s.families[f], DOMAIN s.families) = s.events

\* What a script that validated trains on is selected from what it validated,
\* unless somebody wrote to the dataset in between: the steps do not share what
\* they loaded.
TrainsWhatItChecked ==
  prep.trained # <<>> /\ prep.checked # <<>> /\ ~dirty =>
    prep.trained = SelectTraining(prep.checked)

\* What the processes leave behind can be read, is complete, and is what was
\* checked (corpus.py, dataset/cli.py, prepare_training_corpus.py).
CorpusIsWhole ==
  /\ ListedIsThere /\ ExportsStayListed /\ SelectionIsClear
  /\ NeighboursSuffice /\ StatisticsAddUp /\ TrainsWhatItChecked
=============================================================================
