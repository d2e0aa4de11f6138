---------------------------- MODULE JudgingEntry ----------------------------
(***************************************************************************)
(* One multi-judge entry: the administrator's requests that open, lock and *)
(* edit it, attach videos, invite, rotate and revoke judges and delete it  *)
(* (routers/judging_entries.py), the judges' token requests that save and  *)
(* submit freestyle marks and record technical clicks                      *)
(* (routers/judge_access.py), and the read of the panel's results          *)
(* (judging_results_service.py).  The state changes are in                 *)
(* services/judging_service.py.                                            *)
(*                                                                         *)
(* Each request loads its rows and passes its guards (Admit...), and later *)
(* writes and commits (Commit...).  In between other requests commit.  An  *)
(* UPDATE sets only the columns that differ from the row as it was loaded. *)
(***************************************************************************)
EXTENDS FiniteSets, Integers

CONSTANTS
  Clients,   (* Requests in flight at a time.                               *)
  Judges,    (* Judge assignments.                                          *)
  Panel,     (* The judges with include_in_results and not is_shadow.       *)
  Videos,    (* Videos that may be attached.                                *)
  Fields,    (* Freestyle evaluation categories.                            *)
  Marks,     (* Marks a judge may give in one of them.                      *)
  Blank,     (* A category without a mark.                                  *)
  Clicks,    (* Ids of technical clicks.                                    *)
  Settings,  (* Title, mode, ruleset, AI profile, aggregation, due date.    *)
  None,      (* A column a request does not set; a row that is not there.   *)
  Kinds,     (* The requests that are sent; AllKinds, or fewer.             *)
  OneForm    (* TRUE: each judge's marks come from one page, which waits    *)
             (* for the answer before it sends again.                       *)

JudgeKinds == {"draft", "submit", "addClick", "deleteClick"}
AdminKinds == {"update", "addVideo", "addJudge", "rotate", "revoke", "deleteEntry"}
AllKinds   == JudgeKinds \cup AdminKinds \cup {"results"}

Pairs == Judges \X Videos

ASSUME PanelAssumption   == Panel \subseteq Judges
ASSUME BlankAssumption   == Blank \notin Marks
ASSUME NoneAssumption    ==
  None \notin Judges \cup Videos \cup Clicks \cup Settings \cup AllKinds
ASSUME KindsAssumption   == Kinds \subseteq AllKinds
ASSUME OneFormAssumption == OneForm \in BOOLEAN

VARIABLES
  status,    (* The entry's status; "gone" once it is deleted.              *)
  settings,  (* Its other columns.                                          *)
  attached,  (* Its videos.                                                 *)
  invite,    (* The invitation of each judge.                               *)
  fe,        (* judge_freestyle_scores: at most one row for a pair.         *)
  clicks,    (* judge_technical_clicks of each pair.                        *)
  req,       (* The requests in flight.                                     *)
  results    (* The results request.                                        *)

entry == <<status, settings, attached, invite>>
marks == <<fe, clicks>>
vars  == <<status, settings, attached, invite, fe, clicks, req, results>>

-----------------------------------------------------------------------------
Status == {"draft", "open", "locked"}

\* No invitation yet; a link that works; one older than 48 hours.  revoked_at is
\* a column of its own.
Invite == [link : {"none", "live", "expired"}, revoked : BOOLEAN]

Form   == [Fields -> Marks \cup {Blank}]
Score  == [form : Form, submitted : BOOLEAN]
NoForm == [f \in Fields |-> Blank]

\* A row that is not there is a record of its own type.
NoScore == [form |-> NoForm, submitted |-> FALSE, absent |-> TRUE]
HasScore(row) == row # NoScore

Request ==
  [kind     : JudgeKinds \cup AdminKinds \cup {None},  \* None: no request.
   judge    : Judges \cup {None},
   video    : Videos \cup {None},
   form     : Form,                       \* The payload of a draft or a submit.
   seen     : Score \cup {NoScore},       \* The score row as it was loaded.
   click    : Clicks \cup {None},
   status   : Status \cup {None},         \* The status an update sets.
   settings : Settings \cup {None},       \* The columns an update sets.
   revoked  : BOOLEAN]                    \* revoked_at was set when loaded.

Idle ==
  [kind |-> None, judge |-> None, video |-> None, form |-> NoForm, seen |-> NoScore,
   click |-> None, status |-> None, settings |-> None, revoked |-> FALSE]

\* The results request reads the scores, then the clicks.
Results ==
  [pc     : {"idle", "clicks", "done"},
   fe     : [Pairs -> Score \cup {NoScore}],
   clicks : [Pairs -> SUBSET Clicks],
   late   : SUBSET Pairs]        \* A click of the pair was in flight when the scores were read.

NoResults ==
  [pc |-> "idle", fe |-> [p \in Pairs |-> NoScore], clicks |-> [p \in Pairs |-> {}],
   late |-> {}]

TypeOK ==
  /\ status \in Status \cup {"gone"}
  /\ settings \in Settings
  /\ attached \subseteq Videos
  /\ invite \in [Judges -> Invite]
  /\ fe \in [Pairs -> Score \cup {NoScore}]
  /\ clicks \in [Pairs -> SUBSET Clicks]
  /\ req \in [Clients -> Request]
  /\ results \in Results

Busy(c) == req[c].kind # None

Pair(c) == <<req[c].judge, req[c].video>>

Submitted(p) == fe[p].submitted

\* Request c is of a judge and for pair p.
Writing(c, p) == req[c].kind \in JudgeKinds /\ Pair(c) = p

\* is_token_active
Active(j) == invite[j].link = "live" /\ ~invite[j].revoked

-----------------------------------------------------------------------------
Init ==
  /\ status = "draft"
  /\ settings \in Settings
  /\ attached \in SUBSET Videos \ {{}}
  /\ invite = [j \in Judges |-> [link |-> "none", revoked |-> FALSE]]
  /\ fe = [p \in Pairs |-> NoScore]
  /\ clicks = [p \in Pairs |-> {}]
  /\ req = [c \in Clients |-> Idle]
  /\ results = NoResults

Admit(c, request) ==
  /\ ~Busy(c)
  /\ request.kind \in Kinds
  /\ req' = [req EXCEPT ![c] = request]
  /\ UNCHANGED <<entry, marks, results>>

Ends(c) == req' = [req EXCEPT ![c] = Idle]

\* An error of the database, a client or an API process that goes away: rolled back.
Abort(c) ==
  /\ Busy(c)
  /\ Ends(c)
  /\ UNCHANGED <<entry, marks, results>>

-----------------------------------------------------------------------------
(* The judges.                                                             *)

\* resolve_assignment_by_token, _assert_entry_writable and
\* get_entry_video_for_assignment pass.
MayWrite(j, v) ==
  /\ Active(j)
  /\ status = "open"
  /\ v \in attached

\* ... and _assert_video_score_open, or the same test of the two FE operations.
Open(p) == MayWrite(p[1], p[2]) /\ ~Submitted(p)

FormRequest(kind, p, form) ==
  [Idle EXCEPT !.kind = kind, !.judge = p[1], !.video = p[2], !.form = form, !.seen = fe[p]]

\* The page disables both buttons while one of its two requests is pending.
PageReady(j) ==
  OneForm => \A d \in Clients : req[d].kind \in {"draft", "submit"} => req[d].judge # j

\* Mutant: upsert_judge_fe does not look at is_submitted.
AdmitDraftAnyway(c, p, form) ==
  /\ MayWrite(p[1], p[2])
  /\ PageReady(p[1])
  /\ Admit(c, FormRequest("draft", p, form))

AdmitDraft(c, p, form) ==
  /\ Open(p)
  /\ PageReady(p[1])
  /\ Admit(c, FormRequest("draft", p, form))

\* _all_fe_fields_present looks at the loaded row with the payload applied, which
\* sets every field.
Complete(form) == \A f \in Fields : form[f] # Blank

\* Mutant: no test for missing fields.
AdmitSubmitPartial(c, p, form) ==
  /\ Open(p)
  /\ PageReady(p[1])
  /\ Admit(c, FormRequest("submit", p, form))

AdmitSubmit(c, p, form) ==
  /\ Open(p)
  /\ PageReady(p[1])
  /\ Complete(form)
  /\ Admit(c, FormRequest("submit", p, form))

ClickRequest(kind, p, k) ==
  [Idle EXCEPT !.kind = kind, !.judge = p[1], !.video = p[2], !.click = k]

\* The id is a fresh one.
Fresh(k) ==
  /\ \A p \in Pairs : k \notin clicks[p] \cup results.clicks[p]
  /\ \A d \in Clients : req[d].click # k

\* Mutant: add_technical_click without _assert_video_score_open.
AdmitAddClickAnyway(c, p, k) ==
  /\ MayWrite(p[1], p[2])
  /\ Fresh(k)
  /\ Admit(c, ClickRequest("addClick", p, k))

AdmitAddClick(c, p, k) ==
  /\ Open(p)
  /\ Fresh(k)
  /\ Admit(c, ClickRequest("addClick", p, k))

AdmitDeleteClick(c, p, k) ==
  /\ Open(p)
  /\ k \in clicks[p]
  /\ Admit(c, ClickRequest("deleteClick", p, k))

\* Only the fields that differ from the row as it was loaded are set.
Applied(row, seen, form) ==
  [f \in Fields |-> IF form[f] = seen.form[f] THEN row.form[f] ELSE form[f]]

\* Mutant: an INSERT that overwrites the row it meets.
StoreOverwrites(c, p, submits) ==
  fe' = [fe EXCEPT ![p] =
    IF req[c].seen = NoScore \/ fe[p] = NoScore
    THEN [form |-> req[c].form, submitted |-> submits]
    ELSE [form |-> Applied(fe[p], req[c].seen, req[c].form),
          submitted |-> submits \/ fe[p].submitted]]

\* The score row is inserted, which uq_judge_fe_assignment_video refuses if there
\* is one by now, or updated, which fails if the row is gone.
Store(c, p, submits) ==
  IF req[c].seen = NoScore
  THEN fe' = IF fe[p] # NoScore THEN fe
             ELSE [fe EXCEPT ![p] = [form |-> req[c].form, submitted |-> submits]]
  ELSE fe' = IF fe[p] = NoScore THEN fe
             ELSE [fe EXCEPT ![p] =
                    [form |-> Applied(fe[p], req[c].seen, req[c].form),
                     submitted |-> submits \/ fe[p].submitted]]

CommitForm(c) ==
  /\ req[c].kind \in {"draft", "submit"}
  /\ status # "gone"
  /\ Store(c, Pair(c), req[c].kind = "submit")
  /\ Ends(c)
  /\ UNCHANGED <<entry, clicks, results>>

CommitAddClick(c) ==
  /\ req[c].kind = "addClick"
  /\ status # "gone"
  /\ clicks' = [clicks EXCEPT ![Pair(c)] = @ \cup {req[c].click}]
  /\ Ends(c)
  /\ UNCHANGED <<entry, fe, results>>

\* A click that is gone by now is "not found", or its DELETE meets no row.
CommitDeleteClick(c) ==
  /\ req[c].kind = "deleteClick"
  /\ clicks' = [clicks EXCEPT ![Pair(c)] = @ \ {req[c].click}]
  /\ Ends(c)
  /\ UNCHANGED <<entry, fe, results>>

-----------------------------------------------------------------------------
(* The administrator.                                                      *)

\* update_entry: the payload names a status, or columns, or both.  A locked entry
\* refuses columns, unless the payload says "locked" again.
AdmitUpdate(c, st, se) ==
  /\ status # "gone"
  /\ ~(status = "locked" /\ st # "locked" /\ se # None)
  /\ Admit(c, [Idle EXCEPT !.kind = "update",
                           !.status = IF st = status THEN None ELSE st,
                           !.settings = IF se = settings THEN None ELSE se])

\* Mutant: no "if status is not None".
CommitUpdateAll(c) ==
  /\ req[c].kind = "update"
  /\ status # "gone"
  /\ status' = req[c].status
  /\ settings' = IF req[c].settings = None THEN settings ELSE req[c].settings
  /\ Ends(c)
  /\ UNCHANGED <<attached, invite, marks, results>>

CommitUpdate(c) ==
  /\ req[c].kind = "update"
  /\ status # "gone"
  /\ status' = IF req[c].status = None THEN status ELSE req[c].status
  /\ settings' = IF req[c].settings = None THEN settings ELSE req[c].settings
  /\ Ends(c)
  /\ UNCHANGED <<attached, invite, marks, results>>

AdmitAddVideo(c, v) ==
  /\ status \in {"draft", "open"}
  /\ v \notin attached
  /\ Admit(c, [Idle EXCEPT !.kind = "addVideo", !.video = v])

\* uq_judging_entry_video refuses a second row of the video.
CommitAddVideo(c) ==
  /\ req[c].kind = "addVideo"
  /\ status # "gone"
  /\ req[c].video \notin attached
  /\ attached' = attached \cup {req[c].video}
  /\ Ends(c)
  /\ UNCHANGED <<status, settings, invite, marks, results>>

\* A new assignment each time.
AdmitAddJudge(c, j) ==
  /\ status \in {"draft", "open"}
  /\ invite[j].link = "none"
  /\ \A d \in Clients : req[d].judge # j
  /\ Admit(c, [Idle EXCEPT !.kind = "addJudge", !.judge = j])

CommitAddJudge(c) ==
  /\ req[c].kind = "addJudge"
  /\ status # "gone"
  /\ invite' = [invite EXCEPT ![req[c].judge] = [link |-> "live", revoked |-> FALSE]]
  /\ Ends(c)
  /\ UNCHANGED <<status, settings, attached, marks, results>>

Invited(j) == status # "gone" /\ invite[j].link # "none"

AdmitRotate(c, j) ==
  /\ Invited(j)
  /\ Admit(c, [Idle EXCEPT !.kind = "rotate", !.judge = j, !.revoked = invite[j].revoked])

\* Mutant: the row is written whole.
CommitRotateWhole(c) ==
  /\ req[c].kind = "rotate"
  /\ status # "gone"
  /\ invite' = [invite EXCEPT ![req[c].judge] = [link |-> "live", revoked |-> FALSE]]
  /\ Ends(c)
  /\ UNCHANGED <<status, settings, attached, marks, results>>

\* A new token and a new expiry; revoked_at is cleared if it was loaded as set.
CommitRotate(c) ==
  /\ req[c].kind = "rotate"
  /\ status # "gone"
  /\ invite' = [invite EXCEPT ![req[c].judge] =
                  [link |-> "live",
                   revoked |-> @.revoked /\ ~req[c].revoked]]
  /\ Ends(c)
  /\ UNCHANGED <<status, settings, attached, marks, results>>

AdmitRevoke(c, j) ==
  /\ Invited(j)
  /\ Admit(c, [Idle EXCEPT !.kind = "revoke", !.judge = j])

CommitRevoke(c) ==
  /\ req[c].kind = "revoke"
  /\ status # "gone"
  /\ invite' = [invite EXCEPT ![req[c].judge].revoked = TRUE]
  /\ Ends(c)
  /\ UNCHANGED <<status, settings, attached, marks, results>>

AdmitDeleteEntry(c) ==
  /\ status # "gone"
  /\ Admit(c, [Idle EXCEPT !.kind = "deleteEntry"])

\* Every row of the entry goes with it.
CommitDeleteEntry(c) ==
  /\ req[c].kind = "deleteEntry"
  /\ status' = "gone"
  /\ attached' = {}
  /\ invite' = [j \in Judges |-> [link |-> "none", revoked |-> FALSE]]
  /\ fe' = [p \in Pairs |-> NoScore]
  /\ clicks' = [p \in Pairs |-> {}]
  /\ Ends(c)
  /\ UNCHANGED <<settings, results>>

\* 48 hours pass.
Expire(j) ==
  /\ invite[j].link = "live"
  /\ invite' = [invite EXCEPT ![j].link = "expired"]
  /\ UNCHANGED <<status, settings, attached, marks, req, results>>

-----------------------------------------------------------------------------
(* compute_entry_results.                                                  *)

ReadScores ==
  /\ "results" \in Kinds
  /\ status # "gone"
  /\ results.pc # "clicks"
  /\ results' = [NoResults EXCEPT
       !.pc = "clicks", !.fe = fe,
       !.late = {p \in Pairs : \E c \in Clients :
                   Writing(c, p) /\ req[c].kind \in {"addClick", "deleteClick"}}]
  /\ UNCHANGED <<entry, marks, req>>

ReadClicks ==
  /\ results.pc = "clicks"
  /\ results' = [results EXCEPT !.pc = "done", !.clicks = clicks]
  /\ UNCHANGED <<entry, marks, req>>

\* The judges whose scores and net clicks enter the panel's figures for a video.
Included(v) == {j \in Panel : results.fe[<<j, v>>].submitted}

-----------------------------------------------------------------------------
JudgeRequest(c) ==
  \E p \in Pairs :
    \/ \E form \in Form : AdmitDraft(c, p, form)
    \/ \E form \in Form : AdmitSubmit(c, p, form)
    \/ \E k \in Clicks : AdmitAddClick(c, p, k)
    \/ \E k \in Clicks : AdmitDeleteClick(c, p, k)

AdminRequest(c) ==
  \/ \E st \in Status \cup {None}, se \in Settings \cup {None} : AdmitUpdate(c, st, se)
  \/ \E v \in Videos : AdmitAddVideo(c, v)
  \/ \E j \in Judges : AdmitAddJudge(c, j) \/ AdmitRotate(c, j) \/ AdmitRevoke(c, j)
  \/ AdmitDeleteEntry(c)

Commit(c) ==
  \/ CommitForm(c)
  \/ CommitAddClick(c)
  \/ CommitDeleteClick(c)
  \/ CommitUpdate(c)
  \/ CommitAddVideo(c)
  \/ CommitAddJudge(c)
  \/ CommitRotate(c)
  \/ CommitRevoke(c)
  \/ CommitDeleteEntry(c)

Next ==
  \/ \E c \in Clients : JudgeRequest(c) \/ AdminRequest(c) \/ Commit(c) \/ Abort(c)
  \/ \E j \in Judges : Expire(j)
  \/ ReadScores
  \/ ReadClicks

Spec == Init /\ [][Next]_vars
-----------------------------------------------------------------------------
\* The pair can no longer be written, and no request that passed the guards
\* before is still on its way.
Quiet(p) == ~Open(p) /\ \A c \in Clients : ~Writing(c, p)

\* Once quiet, a pair keeps its marks and its clicks as long as it is closed,
\* whether the entry is locked, the link has expired or been revoked or the marks
\* are submitted: every endpoint of the judges refuses it.
QuietStays ==
  [][\A p \in Pairs :
       Quiet(p) /\ ~Open(p)' /\ status' # "gone"
         => Quiet(p)' /\ fe'[p] = fe[p] /\ clicks'[p] = clicks[p]]_vars

\* A draft that was saved at the same time never takes a submission back, nor
\* does any other request but the deletion of the entry.
NeverUnsubmitted ==
  [][\A p \in Pairs : Submitted(p) /\ status' # "gone" => Submitted(p)']_vars

\* A revocation is not lost to a rotation that was under way when it was made.
RevocationHolds ==
  [][\A j \in Judges :
       invite[j].revoked /\ ~invite'[j].revoked /\ status' # "gone"
         => \E c \in Clients : req[c].kind = "rotate" /\ req[c].judge = j /\ req[c].revoked]_vars

\* The scores are read before the clicks, so the clicks reported for a judge who
\* counts are that judge's final ones, unless one was in flight at the time.
ResultsFinal ==
  results.pc = "done" /\ status # "gone" =>
    \A v \in Videos, j \in Panel :
      j \in Included(v) /\ <<j, v>> \notin results.late
        => results.clicks[<<j, v>>] = clicks[<<j, v>>]

\* "All freestyle fields are required to submit." (judging_service.py)
SubmittedIsComplete ==
  \A p \in Pairs : Submitted(p) => Complete(fe[p].form)

\* The marks of a submitted row never change.
MarksFinal ==
  [][\A p \in Pairs :
       Submitted(p) /\ status' # "gone" => fe'[p] = fe[p]]_vars

=============================================================================
