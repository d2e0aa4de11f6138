---------------------------- MODULE DatasetChecks ----------------------------
(***************************************************************************)
(* What is computed over the records of a dataset: the export of a review  *)
(* (dataset_export_service.py), the choice of the records to train on      *)
(* (dataset/io.py), the validation (dataset/validators.py and the models   *)
(* of dataset/schema.py), and the statistics (dataset/stats.py).           *)
(*                                                                         *)
(* A record is [id, video, player, path, duration, adjudicated, annotator, *)
(* events, deductions, track]; ids of events and deductions are values.    *)
(***************************************************************************)
EXTENDS Integers, FiniteSets, SequencesExt, PythonLists

CONSTANTS
  FamilyOf,     (* The ontology: the family of each known label.            *)
  OverlapAllowed, (* overlap_allowed_families.                              *)
  MinOverlap    (* min_iou of the agreement, a percentage.                  *)

-----------------------------------------------------------------------------
(* Records.                                                                *)

\* The validators of TrickEventAnnotation and DatasetRecord: a record that
\* breaks them cannot be read at all.
WellFormed(r) ==
  /\ r.duration > 0
  /\ \A i \in DOMAIN r.events : 0 <= r.events[i].start /\ r.events[i].start < r.events[i].end
  /\ \A i, j \in DOMAIN r.events : r.events[i].id = r.events[j].id => i = j
  /\ \A i, j \in DOMAIN r.deductions : r.deductions[i].id = r.deductions[j].id => i = j

\* build_dataset_record: what the review did not reject, by time.  An analysis
\* that was submitted gives an adjudicated record.
ExportOf(job, rows, flaws) ==
  LET Kept(s) == ElementsAt(s, {i \in DOMAIN s : s[i].status # "rejected"})
  IN  [id |-> <<job.id, job.reviewer>>, video |-> job.video, player |-> job.player,
       path |-> job.video, duration |-> job.duration, annotator |-> job.reviewer,
       adjudicated |-> job.state = "submitted",
       events |-> SortedBy(Kept(rows), LAMBDA e : e.start),
       deductions |-> SortedBy(Kept(flaws), LAMBDA d : d.at), track |-> <<>>]

\* select_training_records, by the order the videos appear in.
VideosOf(records) ==
  FoldLeft(LAMBDA seen, r : IF Contains(seen, r.video) THEN seen ELSE Append(seen, r.video),
           <<>>, records)

\* The first adjudicated pass, else the only one; nothing when a human has to
\* choose.
Selected(passes) ==
  LET adjudicated == SelectSeq(passes, LAMBDA r : r.adjudicated)
  IN  IF adjudicated # <<>> THEN adjudicated[1] ELSE passes[1]

SelectTraining(records) ==
  LET Passes(v) == SelectSeq(records, LAMBDA r : r.video = v)
      Clear(v)  == Len(Passes(v)) = 1 \/ \E i \in DOMAIN Passes(v) : Passes(v)[i].adjudicated
      clear     == SelectSeq(VideosOf(records), Clear)
  IN  [i \in DOMAIN clear |-> Selected(Passes(clear[i]))]

-----------------------------------------------------------------------------
(* Validation: the errors of a dataset, and the warnings.                  *)

Outside(r) ==
  \/ \E i \in DOMAIN r.events : r.events[i].end > r.duration
  \/ \E i \in DOMAIN r.deductions : r.deductions[i].at > r.duration

\* _check_overlapping_incompatible_labels: neighbours by start_ms only.
NeighboursOverlap(events) ==
  LET s == SortedBy(events, LAMBDA e : e.start)
  IN  \E i \in DOMAIN s : i < Len(s) /\ s[i + 1].start < s[i].end

FamilyEvents(r, f) == SelectSeq(r.events, LAMBDA e : e.family = f)

Overlapping(r) ==
  \E i \in DOMAIN r.events : /\ r.events[i].family \notin OverlapAllowed
                             /\ NeighboursOverlap(FamilyEvents(r, r.events[i].family))

\* _check_unknown_ontology_labels.
Unknown(r) ==
  \E i \in DOMAIN r.events : LET e == r.events[i]
                             IN  e.label \notin DOMAIN FamilyOf \/ FamilyOf[e.label] # e.family

\* items: "events" or "deductions".
Ids(records, items) ==
  FlattenSeq([i \in DOMAIN records |-> [k \in DOMAIN records[i][items] |-> records[i][items][k].id]])

Repeats(s) == ~IsInjective(s)

\* _check_duplicate_ids: over the whole dataset.
Duplicates(records) ==
  \/ Repeats([i \in DOMAIN records |-> records[i].id])
  \/ Repeats(Ids(records, "events"))
  \/ Repeats(Ids(records, "deductions"))

\* videos of validate_dataset: the last record of a video speaks for it.
VideoRecord(records, v) == SelectLastInSeq(records, LAMBDA r : r.video = v)

\* _check_leaked_players_across_splits; splits is empty when there is none.
Leaked(records, splits) ==
  \E v, w \in DOMAIN splits \cap {records[i].video : i \in DOMAIN records} :
    /\ records[VideoRecord(records, v)].player = records[VideoRecord(records, w)].player
    /\ splits[v] # splits[w]

\* _check_missing_files.
Missing(records, clips) ==
  \E i \in DOMAIN records :
    records[VideoRecord(records, records[i].video)].path \notin clips

\* validate_dataset: is_valid.
Valid(records, clips, splits) ==
  /\ \A i \in DOMAIN records : ~Outside(records[i]) /\ ~Overlapping(records[i]) /\ ~Unknown(records[i])
  /\ ~Missing(records, clips) /\ ~Duplicates(records) /\ ~Leaked(records, splits)

-----------------------------------------------------------------------------
(* Statistics.                                                             *)

\* _events_overlap.
Alike(a, b) ==
  LET low == IF a.start > b.start THEN a.start ELSE b.start
      top == IF a.end < b.end THEN a.end ELSE b.end
      all == (IF a.end > b.end THEN a.end ELSE b.end) - (IF a.start < b.start THEN a.start ELSE b.start)
  IN  a.family = b.family /\ top > low /\ 100 * (top - low) >= MinOverlap * all

\* _pairwise_agreement: each event takes the first of the other pass that is
\* like it and not taken yet.
MatchedPairs(a, b) ==
  FoldLeft(LAMBDA pairs, i :
             LET free == {k \in DOMAIN b : Alike(a[i], b[k]) /\ \A p \in pairs : p[2] # k}
             IN  IF free = {} THEN pairs ELSE pairs \cup {<<i, Min(free)>>},
           {}, [i \in DOMAIN a |-> i])

Agreement(a, b) ==
  LET pairs == MatchedPairs(a.events, b.events)
  IN  [matched |-> Cardinality(pairs),
       unmatched |-> Len(a.events) + Len(b.events) - 2 * Cardinality(pairs),
       sameOutcome |-> Cardinality({p \in pairs : a.events[p[1]].outcome = b.events[p[2]].outcome})]

\* compute_annotator_agreement: of every two passes that are not adjudicated.
PassPairs(records) ==
  {p \in (DOMAIN records) \X (DOMAIN records) :
     /\ p[1] < p[2] /\ records[p[1]].video = records[p[2]].video
     /\ ~records[p[1]].adjudicated /\ ~records[p[2]].adjudicated}

\* compute_dataset_statistics.
Statistics(records, splits) ==
  LET videos == {records[i].video : i \in DOMAIN records}
      Of(f)  == SumOver(LAMBDA r : Len(FamilyEvents(r, f)), records)
  IN  [videos |-> Cardinality(videos), records |-> Len(records),
       players |-> Cardinality({records[i].player : i \in DOMAIN records}),
       duration |-> MapThenSumSet(LAMBDA v : records[VideoRecord(records, v)].duration, videos),
       events |-> SumOver(LAMBDA r : Len(r.events), records),
       families |-> [f \in {FamilyOf[l] : l \in DOMAIN FamilyOf} |-> Of(f)],
       splits |-> [s \in {splits[v] : v \in videos \cap DOMAIN splits} |->
                     Cardinality({v \in videos \cap DOMAIN splits : splits[v] = s})]]
=============================================================================
