------------------------------- MODULE Review -------------------------------
(***************************************************************************)
(* The review of one completed analysis: the API requests that edit its    *)
(* events, deductions and freestyle evaluation, recompute and read its     *)
(* score, switch its ruleset, submit and reopen it (routers/events.py,     *)
(* deductions.py, evaluations.py, analyses.py; services/scoring_service.py *)
(* and review_guard.py).                                                   *)
(*                                                                         *)
(* Each request is one database transaction at READ COMMITTED: a SELECT    *)
(* sees what is committed when it runs and the request's own writes, an    *)
(* UPDATE locks its row until the end and sets only the columns that       *)
(* differ from what the request loaded.  The guard looks at the job as the *)
(* request loaded it.  What an event or a deduction holds is abstracted to *)
(* its review status; a score, to the rows it counts and its ruleset.      *)
(***************************************************************************)
EXTENDS FiniteSets

CONSTANTS
  Clients,     (* Browser tabs; each has one request in flight.             *)
  Events,      (* Ids of analysis_events rows.                              *)
  Deductions,  (* Ids of major_deductions rows.                             *)
  Evaluations, (* Ids of freestyle_evaluations rows: analysis_id is unique. *)
  Flags,       (* Deductions whose rule requires_manual_confirmation.       *)
  Rulesets,    (* Ruleset versions.                                         *)
  None,        (* No row, no version.                                       *)
  Kinds        (* The requests that are sent; AllKinds, or fewer.           *)

AllKinds == {"create", "patch", "confirm", "reject", "delete",
             "score", "ruleset", "submit", "reopen"}

Findings == Events \cup Deductions

Items == Findings \cup Evaluations

ASSUME ItemsAssumption ==
  /\ Events \cap Deductions = {} /\ Findings \cap Evaluations = {}
  /\ \A i, j \in Evaluations : i = j
  /\ Flags \subseteq Deductions
ASSUME KindsAssumption == Kinds \subseteq AllKinds
ASSUME RulesetsAssumption == Rulesets # {}
ASSUME NoneAssumption == None \notin Items \cup Rulesets

VARIABLES
  items,    (* review_status of each row, committed.                        *)
  review,   (* analysis_jobs.review_state, committed.                       *)
  ruleset,  (* analysis_jobs.ruleset_version, committed.                    *)
  score,    (* The score_breakdowns row, committed.                         *)
  req       (* The request of each client.                                  *)

vars == <<items, review, ruleset, score, req>>

-----------------------------------------------------------------------------
\* "pending" stands for PENDING and EDITED, which every reader treats alike.
ReviewStatus == {"pending", "confirmed", "rejected"}
ItemStatus   == {"absent"} \cup ReviewStatus
Score        == [counted : SUBSET Items, ruleset : Rulesets]

\* What a request may write: a row of items, the job's row, the score's row.
Rows == Items \cup {"job", "score"}

PC == {"idle", "write", "events", "deductions", "evaluation", "load", "store", "commit"}

Request ==
  [pc      : PC,
   kind    : AllKinds,
   item    : Items \cup {None},
   to      : ItemStatus,              \* The status it sets on it.
   differs : BOOLEAN,                 \* It sets a column to something new,
   sets    : BOOLEAN,                 \* and the status is such a column.
   ruleset : Rulesets \cup {None},    \* The version it scores with.
   counted : SUBSET Items,            \* The rows its SELECTs let through.
   seen    : Score \cup {None},       \* The score row as loaded.
   wrote   : SUBSET Rows,             \* Rows it has flushed, and locks.
   alone   : BOOLEAN]                 \* No other request has committed a write.

Idle == [pc      |-> "idle",
         kind    |-> "score",
         item    |-> None,
         to      |-> "absent",
         differs |-> FALSE,
         sets    |-> FALSE,
         ruleset |-> None,
         counted |-> {},
         seen    |-> None,
         wrote   |-> {},
         alone   |-> TRUE]

TypeOK ==
  /\ items \in [Items -> ItemStatus]
  /\ review \in {"draft", "submitted"}
  /\ ruleset \in Rulesets
  /\ score \in Score \cup {None}
  /\ req \in [Clients -> Request]

Busy(c) == req[c].pc # "idle"

\* Kinds of requests.
ItemKinds  == {"create", "patch", "confirm", "reject", "delete"}
EditKinds  == ItemKinds \cup {"ruleset"}      \* ensure_analysis_editable
Recomputes == {"create", "patch", "reject", "delete", "score", "ruleset"}

\* The rows recompute_score lets through: rejected ones never, a flag only once
\* a human has confirmed it (deduction_is_scorable).
Counted(st) ==
  {i \in Items : /\ st[i] \notin {"absent", "rejected"}
                 /\ i \in Flags => st[i] = "confirmed"}

\* The score the tables call for.
FreshScore(st, version) == [counted |-> Counted(st), ruleset |-> version]

\* What c's SELECTs see of the items: the committed rows, but its own item, if
\* the row is there, as the session holds it since it was loaded.
View(c) ==
  LET i == req[c].item
  IN  IF i \in req[c].wrote \/ (i # None /\ items[i] # "absent")
      THEN [items EXCEPT ![i] = req[c].to]
      ELSE items

\* The row lock of x is free for c.
Free(c, x) == \A d \in Clients \ {c} : x \notin req[d].wrote

-----------------------------------------------------------------------------
Init ==
  /\ items \in {st \in [Items -> {"absent", "pending"}] : \A i \in Evaluations : st[i] = "absent"}
  /\ review = "draft"
  /\ ruleset \in Rulesets
  /\ score = None
  /\ req = [c \in Clients |-> Idle]

(* A request is admitted: the job is loaded, the guard passes, and the row  *)
(* it is about is loaded.                                                   *)

Admit(c, kind, i, to, differs, sets, version) ==
  /\ ~Busy(c)
  /\ kind \in Kinds
  /\ req' = [req EXCEPT ![c] =
       [Idle EXCEPT !.pc = IF kind = "score" THEN "events" ELSE "write",
                    !.kind = kind, !.item = i, !.to = to, !.differs = differs,
                    !.sets = sets, !.ruleset = version]]
  /\ UNCHANGED <<items, review, ruleset, score>>

\* The new row's id is a fresh one.
AdmitCreate(c, i) ==
  /\ review = "draft"
  /\ items[i] = "absent"
  /\ \A d \in Clients : req[d].item # i
  /\ Admit(c, "create", i, "confirmed", TRUE, TRUE, ruleset)

\* Mutant: a router without ensure_analysis_editable.
AdmitChangeUnguarded(c, kind, i, to, content, edits) ==
  /\ items[i] # "absent"
  /\ Admit(c, kind, i, to, content \/ to # items[i], edits \/ to # items[i], ruleset)

AdmitChange(c, kind, i, to, content, edits) ==
  /\ review = "draft"
  /\ items[i] # "absent"
  /\ Admit(c, kind, i, to, content \/ to # items[i], edits \/ to # items[i], ruleset)

\* A patch may change other columns than the status; it may edit what is pending.
AdmitPatch(c, i, to) ==
  \E content, edits \in BOOLEAN :
    /\ edits => content /\ to = "pending"
    /\ AdmitChange(c, "patch", i, to, content, edits)
AdmitConfirm(c, i)   == AdmitChange(c, "confirm", i, "confirmed", FALSE, FALSE)
AdmitReject(c, i)    == AdmitChange(c, "reject", i, "rejected", FALSE, FALSE)
AdmitDelete(c, i)    == AdmitChange(c, "delete", i, "absent", TRUE, TRUE)

\* The insert of the evaluation: one id, whoever makes the row.
AdmitFirstEvaluation(c, i) ==
  /\ review = "draft"
  /\ items[i] = "absent"
  /\ Admit(c, "create", i, "confirmed", TRUE, TRUE, ruleset)

\* upsert_evaluation: the row is looked up, and written or made.
AdmitEvaluation(c, i) ==
  \/ AdmitFirstEvaluation(c, i)
  \/ \E content \in BOOLEAN : AdmitChange(c, "patch", i, "confirmed", content, FALSE)

\* GET /score and POST /score/recompute: no guard.
AdmitScore(c) == Admit(c, "score", None, "absent", FALSE, FALSE, ruleset)

\* Mutant: no ensure_analysis_editable.
AdmitRulesetUnguarded(c, version) ==
  Admit(c, "ruleset", None, "absent", version # ruleset, FALSE, version)

\* Mutant: no look-up of the version that is asked for.
AdmitRulesetUnknown(c, version) ==
  /\ review = "draft"
  /\ Admit(c, "ruleset", None, "absent", TRUE, FALSE, None)

AdmitRuleset(c, version) ==
  /\ review = "draft"
  /\ Admit(c, "ruleset", None, "absent", version # ruleset, FALSE, version)

\* ensure_analysis_submittable: the job is completed, and not yet submitted.
AdmitSubmit(c) ==
  /\ review = "draft"
  /\ Admit(c, "submit", None, "absent", TRUE, FALSE, ruleset)

AdmitReopen(c) ==
  /\ review = "submitted"
  /\ Admit(c, "reopen", None, "absent", TRUE, FALSE, ruleset)

Submitting(c) ==
  \/ \E i \in Findings : \/ AdmitCreate(c, i)
                         \/ \E to \in ReviewStatus : AdmitPatch(c, i, to)
                         \/ AdmitConfirm(c, i)
                         \/ AdmitReject(c, i)
                         \/ AdmitDelete(c, i)
  \/ \E i \in Evaluations : AdmitEvaluation(c, i)
  \/ AdmitScore(c)
  \/ \E version \in Rulesets : AdmitRuleset(c, version)
  \/ AdmitSubmit(c)
  \/ AdmitReopen(c)

-----------------------------------------------------------------------------
(* The request's own write is flushed.                                     *)

AfterWrite(c) == IF req[c].kind \in Recomputes THEN "events" ELSE "commit"

Flush(c, rows, pc) ==
  /\ req' = [req EXCEPT ![c] = [@ EXCEPT !.pc = pc, !.wrote = req[c].wrote \cup rows]]
  /\ UNCHANGED <<items, review, ruleset, score>>

Fail(c) ==
  /\ req' = [req EXCEPT ![c] = Idle]
  /\ UNCHANGED <<items, review, ruleset, score>>

\* An UPDATE of a row that is gone raises StaleDataError; a DELETE only warns.
\* Somebody else has made the evaluation: the INSERT fails on the unique key.
WriteItem(c) ==
  LET i == req[c].item
      gone == items[i] = "absent" /\ req[c].kind # "create"
      made == items[i] # "absent" /\ req[c].kind = "create"
  IN
  /\ req[c].pc = "write"
  /\ req[c].kind \in ItemKinds
  /\ \/ ~req[c].differs /\ Flush(c, {}, AfterWrite(c))
     \/ /\ req[c].differs
        /\ Free(c, i)
        /\ \/ ~gone /\ ~made /\ Flush(c, {i}, AfterWrite(c))
           \/ gone /\ req[c].kind = "delete" /\ Flush(c, {}, AfterWrite(c))
           \/ made /\ Fail(c)
           \/ gone /\ req[c].kind # "delete" /\ Fail(c)

WriteJob(c) ==
  /\ req[c].pc = "write"
  /\ req[c].kind \in {"ruleset", "submit", "reopen"}
  /\ \/ req[c].kind = "ruleset" /\ ~req[c].differs /\ Flush(c, {}, AfterWrite(c))
     \/ /\ req[c].kind # "ruleset" \/ req[c].differs
        /\ Free(c, "job")
        /\ Flush(c, {"job"}, AfterWrite(c))

-----------------------------------------------------------------------------
(* recompute_score.                                                        *)

Read(c, from, to, rows) ==
  /\ req[c].pc = from
  /\ req' = [req EXCEPT ![c] = [@ EXCEPT !.pc = to,
                                         !.counted = req[c].counted \cup rows]]
  /\ UNCHANGED <<items, review, ruleset, score>>

\* Mutant: the rows are read before the edit is flushed.
ReadEventsUnflushed(c) == Read(c, "events", "deductions", Counted(items) \cap Events)

ReadEvents(c) == Read(c, "events", "deductions", Counted(View(c)) \cap Events)

ReadDeductions(c) == Read(c, "deductions", "evaluation", Counted(View(c)) \cap Deductions)

ReadEvaluation(c) == Read(c, "evaluation", "load", Counted(View(c)) \cap Evaluations)

LoadScore(c) ==
  /\ req[c].pc = "load"
  /\ req' = [req EXCEPT ![c] = [@ EXCEPT !.pc = "store", !.seen = score]]
  /\ UNCHANGED <<items, review, ruleset, score>>

\* Mutant: the version that is committed, not the one the request has set.
NewScoreOldVersion(c) == [counted |-> req[c].counted, ruleset |-> ruleset]

NewScore(c) == [counted |-> req[c].counted, ruleset |-> req[c].ruleset]

\* No row was seen and there is one now: analysis_id is unique, and the INSERT
\* fails.  Nothing differs from the row that was seen: there is no UPDATE.
Store(c) ==
  /\ req[c].pc = "store"
  /\ IF req[c].seen = NewScore(c)
     THEN Flush(c, {}, "commit")
     ELSE /\ Free(c, "score")
          /\ IF req[c].seen = None /\ score # None
             THEN Fail(c)
             ELSE Flush(c, {"score"}, "commit")

-----------------------------------------------------------------------------
(* The transaction commits.                                                *)

\* Only the columns that differ from the row that was loaded.
ItemsAfter(c) ==
  LET i == req[c].item
  IN  IF i \in req[c].wrote /\ req[c].sets THEN [items EXCEPT ![i] = req[c].to] ELSE items

ReviewAfter(c) ==
  CASE req[c].kind = "submit" -> "submitted"
    [] req[c].kind = "reopen" -> "draft"
    [] OTHER -> review

RulesetAfter(c) ==
  IF req[c].kind = "ruleset" /\ "job" \in req[c].wrote THEN req[c].ruleset ELSE ruleset

\* Only the columns that differ from the row that was seen.
ScoreAfter(c) ==
  IF "score" \notin req[c].wrote THEN score
  ELSE IF req[c].seen = None THEN NewScore(c)
  ELSE [counted |-> IF req[c].counted = req[c].seen.counted
                    THEN score.counted ELSE req[c].counted,
        ruleset |-> IF req[c].ruleset = req[c].seen.ruleset
                    THEN score.ruleset ELSE req[c].ruleset]

CommitEnds(c) ==
  /\ items' = ItemsAfter(c)
  /\ review' = ReviewAfter(c)
  /\ ruleset' = RulesetAfter(c)
  /\ score' = ScoreAfter(c)
  /\ req' = [d \in Clients |->
               IF d = c THEN Idle
               ELSE [req[d] EXCEPT !.alone = @ /\ (req[c].wrote = {} \/ ~Busy(d))]]

\* Mutant: every request touches the job's row last.
CommitTouchesJob(c) ==
  /\ req[c].pc = "commit"
  /\ Free(c, "job")
  /\ CommitEnds(c)

Commit(c) ==
  /\ req[c].pc = "commit"
  /\ CommitEnds(c)

\* The client or the API process goes away: the transaction is rolled back.
Abort(c) ==
  /\ Busy(c)
  /\ Fail(c)

-----------------------------------------------------------------------------
Serve(c) ==
  \/ WriteItem(c)
  \/ WriteJob(c)
  \/ ReadEvents(c)
  \/ ReadDeductions(c)
  \/ ReadEvaluation(c)
  \/ LoadScore(c)
  \/ Store(c)
  \/ Commit(c)

Next == \E c \in Clients : Submitting(c) \/ Serve(c) \/ Abort(c)

Spec == Init /\ [][Next]_vars

\* The database grants a row lock to its waiters in turn, so a request that can
\* take its next step again and again takes it.
Fairness == \A c \in Clients : SF_vars(Serve(c))

FairSpec == Spec /\ Fairness
-----------------------------------------------------------------------------
\* A request that recomputes, and during which no other request committed a
\* write, leaves the score of exactly the rows it leaves: its own edit counted,
\* every earlier one too, whoever made it.
AloneIsFresh ==
  \A c \in Clients :
    req[c].pc = "commit" /\ req[c].kind \in Recomputes /\ req[c].alone =>
      ScoreAfter(c) = FreshScore(ItemsAfter(c), RulesetAfter(c))

\* The stored score is the one the tables call for.
ScoreSettled == score # None /\ score = FreshScore(items, ruleset)

\* What a request has read so far is what the tables still say.
ReadsHold(c) ==
  LET now == Counted(items)
  IN
  /\ req[c].kind \notin EditKinds
  /\ req[c].ruleset = ruleset
  /\ req[c].pc \in {"write", "events"} => req[c].counted = {}
  /\ req[c].pc = "deductions" => req[c].counted = now \cap Events
  /\ req[c].pc = "evaluation" => req[c].counted = now \cap Findings
  /\ req[c].pc \in {"load", "store", "commit"} /\ req[c].kind = "score" => req[c].counted = now
  /\ req[c].pc \in {"store", "commit"} /\ req[c].kind = "score" => req[c].seen = score

Settled == ScoreSettled /\ \A c \in Clients : Busy(c) => ReadsHold(c)

\* A submitted analysis whose score is right and whose earlier requests have
\* ended keeps its rows and its score, and nothing that is admitted while it
\* stays submitted can unsettle it.
SettledSubmissionStays ==
  [][Settled /\ review = "submitted" /\ review' = "submitted"
       => Settled' /\ UNCHANGED <<items, ruleset, score>>]_vars

\* No two requests wait for each other's rows: every request is answered.
RequestsEnd == \A c \in Clients : Busy(c) ~> ~Busy(c)

-----------------------------------------------------------------------------
(* What a comment says of the code, and the code does not do.              *)

\* routers/events.py: "every mutation triggers a score recomputation so the
\* displayed score never goes stale relative to the event list".
ScoreNeverStale ==
  (\A c \in Clients : ~Busy(c)) /\ score # None => ScoreSettled

\* services/review_guard.py: the guards "block mutations on submitted analyses".
\* The guard of an edit looks at the job as it was loaded, and the edit may
\* commit after the submission.
SubmittedIsLocked ==
  [][review = "submitted" /\ review' = "submitted" => UNCHANGED items]_vars
=============================================================================
