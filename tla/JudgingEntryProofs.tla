------------------------- MODULE JudgingEntryProofs -------------------------
(***************************************************************************)
(* The judging entry, for every number of judges, videos, categories,      *)
(* marks, clicks and requests in flight: what holds of the judges' marks   *)
(* however the requests of the judges, the administrator and the reader of *)
(* the results are interleaved.                                            *)
(***************************************************************************)
EXTENDS JudgingEntry, FiniteSetTheorems, SequenceTheorems, WellFoundedInduction, TLAPS

CONSTANTS Callers, Tokens, Servers, ClickLimit, Limit, Window, MaxTime
VARIABLES now, buckets, admitted, refusal

Limiter == INSTANCE RateLimiter WITH Clients <- Callers

FormKinds  == {"draft", "submit"}
ClickKinds == {"addClick", "deleteClick"}

\* What the kind of a request says of its fields.
Shape(r) ==
  /\ r.kind \in JudgeKinds => r.judge \in Judges /\ r.video \in Videos
  /\ r.kind \in ClickKinds => r.click \in Clicks
  /\ r.kind = "addVideo" => r.video \in Videos
  /\ r.kind \in {"addJudge", "rotate", "revoke"} => r.judge \in Judges
  /\ r.kind = "submit" => Complete(r.form)

Shaped == \A c \in Clients : Shape(req[c])

\* An assignment is added once, and only a judge who has a link can be rotated
\* or revoked.
InviteInv ==
  /\ \A j \in Judges : invite[j].link = "none" => ~invite[j].revoked
  /\ status # "gone" => \A c \in Clients :
       /\ req[c].kind = "addJudge" =>
            /\ invite[req[c].judge].link = "none"
            /\ \A d \in Clients \ {c} : req[d].judge # req[c].judge
       /\ req[c].kind \in {"rotate", "revoke"} => invite[req[c].judge].link # "none"

\* With one page for each judge, a request with marks is alone with its row,
\* which is as it was loaded and is not submitted.
FormsInv ==
  OneForm /\ status # "gone" => \A c \in Clients :
    req[c].kind \in FormKinds =>
      /\ fe[Pair(c)] = req[c].seen /\ ~req[c].seen.submitted
      /\ \A d \in Clients \ {c} :
           req[d].kind \in FormKinds => req[d].judge # req[c].judge

CompleteInv == OneForm => SubmittedIsComplete

\* Since the scores were read: a pair that they show as submitted, and that had
\* no click in flight, is submitted still, has none in flight, and its clicks
\* are those that the request reads.
ResultsInv ==
  results.pc # "idle" /\ status # "gone" => \A p \in Pairs :
    results.fe[p].submitted /\ p \notin results.late =>
      /\ Submitted(p)
      /\ \A c \in Clients : Writing(c, p) => req[c].kind \notin ClickKinds
      /\ results.pc = "done" => results.clicks[p] = clicks[p]

IInv ==
  /\ TypeOK
  /\ Shaped
  /\ InviteInv
  /\ FormsInv
  /\ CompleteInv
  /\ ResultsInv

-----------------------------------------------------------------------------
(* The rows and the requests.                                              *)

LEMMA NoScoreIsNoRow == NoScore \notin Score /\ ~NoScore.submitted
  BY DEF NoScore, Score

LEMMA BlankForm == NoForm \in Form
  BY DEF NoForm, Form

LEMMA IdleRequest == Idle \in Request /\ Shape(Idle)
<1>1. Idle \in Request
  BY BlankForm DEF Idle, Request
<1>2. Shape(Idle)
  BY NoneAssumption DEF Idle, Shape, AllKinds, JudgeKinds, AdminKinds, ClickKinds
<1>3. QED
  BY <1>1, <1>2

\* What the guards have seen of a request that is admitted.
Admissible(r) ==
  /\ r.kind # None
  /\ status # "gone"
  /\ r.kind \in JudgeKinds => Open(<<r.judge, r.video>>)
  /\ r.kind \in FormKinds => r.seen = fe[<<r.judge, r.video>>] /\ PageReady(r.judge)
  /\ r.kind = "addJudge" => /\ invite[r.judge].link = "none"
                            /\ \A d \in Clients : req[d].judge # r.judge
  /\ r.kind \in {"rotate", "revoke"} => invite[r.judge].link # "none"
  /\ r.judge \in Judges =>
       \/ r.kind = "addJudge"
       \/ invite[r.judge].link # "none"

\* Request c is admitted.
Admits(c) == \E r \in Request : Admit(c, r) /\ Shape(r) /\ Admissible(r)

LEMMA Admitted ==
  ASSUME TypeOK, NEW c \in Clients, JudgeRequest(c) \/ AdminRequest(c)
  PROVE  Admits(c)
<1> USE DEF JudgeKinds, AdminKinds, FormKinds, ClickKinds
<1>0. Idle.judge = None /\ None \notin Judges
  BY NoneAssumption DEF Idle
<1>1. ASSUME NEW p \in Pairs, NEW form \in Form, NEW kind \in FormKinds, Open(p),
             PageReady(p[1]), kind = "submit" => Complete(form),
             Admit(c, FormRequest(kind, p, form))
      PROVE  Admits(c)
  <2> DEFINE r == FormRequest(kind, p, form)
  <2>1. p[1] \in Judges /\ p[2] \in Videos /\ p = <<p[1], p[2]>>
    BY DEF Pairs
  <2>2. fe[p] \in Score \cup {NoScore}
    BY DEF TypeOK
  <2>3. /\ r \in Request
        /\ r.kind = kind /\ r.judge = p[1] /\ r.video = p[2]
        /\ r.form = form /\ r.seen = fe[p]
    BY <2>1, <2>2, IdleRequest DEF FormRequest, Request
  <2> HIDE DEF r
  <2>4. Shape(r)
    BY <1>1, <2>1, <2>3 DEF Shape
  <2>5. Admissible(r)
    BY <1>1, <2>1, <2>3, NoneAssumption DEF Admissible, Open, MayWrite, Active, AllKinds
  <2>6. QED
    BY <1>1, <2>3, <2>4, <2>5 DEF Admits, r
<1>2. ASSUME NEW p \in Pairs, NEW k \in Clicks, NEW kind \in ClickKinds, Open(p),
             Admit(c, ClickRequest(kind, p, k))
      PROVE  Admits(c)
  <2> DEFINE r == ClickRequest(kind, p, k)
  <2>1. p[1] \in Judges /\ p[2] \in Videos /\ p = <<p[1], p[2]>>
    BY DEF Pairs
  <2>2. /\ r \in Request
        /\ r.kind = kind /\ r.judge = p[1] /\ r.video = p[2] /\ r.click = k
    BY <2>1, IdleRequest DEF ClickRequest, Request
  <2> HIDE DEF r
  <2>3. Shape(r)
    BY <1>2, <2>1, <2>2 DEF Shape
  <2>4. Admissible(r)
    BY <1>2, <2>1, <2>2, NoneAssumption DEF Admissible, Open, MayWrite, Active, AllKinds
  <2>5. QED
    BY <1>2, <2>2, <2>3, <2>4 DEF Admits, r
<1>3. ASSUME NEW st \in Status \cup {None}, NEW se \in Settings \cup {None},
             AdmitUpdate(c, st, se)
      PROVE  Admits(c)
  <2> DEFINE st1 == IF st = status THEN None ELSE st
             se1 == IF se = settings THEN None ELSE se
             r == [Idle EXCEPT !.kind = "update", !.status = st1, !.settings = se1]
  <2>1. st1 \in Status \cup {None} /\ se1 \in Settings \cup {None}
    OBVIOUS
  <2>2. Admit(c, r) /\ status # "gone"
    BY <1>3 DEF AdmitUpdate
  <2> HIDE DEF st1, se1
  <2>3. r \in Request /\ r.kind = "update" /\ r.judge = Idle.judge
    BY <2>1, IdleRequest, ZenonT(60) DEF Request
  <2> HIDE DEF r
  <2>4. Shape(r) /\ Admissible(r)
    BY <1>0, <2>2, <2>3, NoneAssumption DEF Shape, Admissible, AllKinds
  <2>5. QED
    BY <2>2, <2>3, <2>4 DEF Admits
<1>4. ASSUME NEW v \in Videos, AdmitAddVideo(c, v)
      PROVE  Admits(c)
  <2> DEFINE r == [Idle EXCEPT !.kind = "addVideo", !.video = v]
  <2>1. Admit(c, r) /\ status # "gone"
    BY <1>4 DEF AdmitAddVideo
  <2>2. r \in Request /\ r.kind = "addVideo" /\ r.judge = Idle.judge /\ r.video = v
    BY IdleRequest DEF Request
  <2> HIDE DEF r
  <2>3. Shape(r) /\ Admissible(r)
    BY <1>0, <2>1, <2>2, NoneAssumption DEF Shape, Admissible, AllKinds
  <2>4. QED
    BY <2>1, <2>2, <2>3 DEF Admits
<1>5. ASSUME NEW j \in Judges, NEW kind \in {"addJudge", "rotate", "revoke"}, NEW r,
             r \in Request, r.kind = kind, r.judge = j, status # "gone", Admit(c, r),
             IF kind = "addJudge"
             THEN invite[j].link = "none" /\ \A d \in Clients : req[d].judge # j
             ELSE invite[j].link # "none"
      PROVE  Admits(c)
  BY <1>5, NoneAssumption DEF Admits, Shape, Admissible, AllKinds
<1>6. ASSUME NEW j \in Judges, AdmitAddJudge(c, j)
      PROVE  Admits(c)
  <2> DEFINE r == [Idle EXCEPT !.kind = "addJudge", !.judge = j]
  <2>1. r \in Request /\ r.kind = "addJudge" /\ r.judge = j
    BY IdleRequest DEF Request
  <2>2. /\ Admit(c, r) /\ status # "gone"
        /\ invite[j].link = "none" /\ \A d \in Clients : req[d].judge # j
    BY <1>6 DEF AdmitAddJudge
  <2> HIDE DEF r
  <2>3. QED
    BY <1>5, <2>1, <2>2
<1>7. ASSUME NEW j \in Judges, AdmitRotate(c, j)
      PROVE  Admits(c)
  <2> DEFINE r == [Idle EXCEPT !.kind = "rotate", !.judge = j, !.revoked = invite[j].revoked]
  <2>1. invite[j].revoked \in BOOLEAN
    BY DEF TypeOK, Invite
  <2>2. r \in Request /\ r.kind = "rotate" /\ r.judge = j
    BY <2>1, IdleRequest DEF Request
  <2>3. Admit(c, r) /\ status # "gone" /\ invite[j].link # "none"
    BY <1>7 DEF AdmitRotate, Invited
  <2> HIDE DEF r
  <2>4. QED
    BY <1>5, <2>2, <2>3
<1>8. ASSUME NEW j \in Judges, AdmitRevoke(c, j)
      PROVE  Admits(c)
  <2> DEFINE r == [Idle EXCEPT !.kind = "revoke", !.judge = j]
  <2>1. r \in Request /\ r.kind = "revoke" /\ r.judge = j
    BY IdleRequest DEF Request
  <2>2. Admit(c, r) /\ status # "gone" /\ invite[j].link # "none"
    BY <1>8 DEF AdmitRevoke, Invited
  <2> HIDE DEF r
  <2>3. QED
    BY <1>5, <2>1, <2>2
<1>9. ASSUME AdmitDeleteEntry(c)
      PROVE  Admits(c)
  <2> DEFINE r == [Idle EXCEPT !.kind = "deleteEntry"]
  <2>1. Admit(c, r) /\ status # "gone"
    BY <1>9 DEF AdmitDeleteEntry
  <2>2. r \in Request /\ r.kind = "deleteEntry" /\ r.judge = Idle.judge
    BY IdleRequest DEF Request
  <2> HIDE DEF r
  <2>3. Shape(r) /\ Admissible(r)
    BY <1>0, <2>1, <2>2, NoneAssumption DEF Shape, Admissible, AllKinds
  <2>4. QED
    BY <2>1, <2>2, <2>3 DEF Admits
<1>10. CASE JudgeRequest(c)
  <2>1. PICK p \in Pairs :
          \/ \E form \in Form : AdmitDraft(c, p, form)
          \/ \E form \in Form : AdmitSubmit(c, p, form)
          \/ \E k \in Clicks : AdmitAddClick(c, p, k)
          \/ \E k \in Clicks : AdmitDeleteClick(c, p, k)
    BY <1>10 DEF JudgeRequest
  <2>2. ASSUME NEW form \in Form, AdmitDraft(c, p, form)
        PROVE  Admits(c)
    BY <1>1, <2>2 DEF AdmitDraft
  <2>3. ASSUME NEW form \in Form, AdmitSubmit(c, p, form)
        PROVE  Admits(c)
    BY <1>1, <2>3 DEF AdmitSubmit
  <2>4. ASSUME NEW k \in Clicks, AdmitAddClick(c, p, k) \/ AdmitDeleteClick(c, p, k)
        PROVE  Admits(c)
    BY <1>2, <2>4 DEF AdmitAddClick, AdmitDeleteClick
  <2>5. QED
    BY <2>1, <2>2, <2>3, <2>4
<1>11. CASE AdminRequest(c)
  <2>1. CASE \E st \in Status \cup {None}, se \in Settings \cup {None} : AdmitUpdate(c, st, se)
    BY <1>3, <2>1
  <2>2. CASE \E v \in Videos : AdmitAddVideo(c, v)
    BY <1>4, <2>2
  <2>3. CASE \E j \in Judges : AdmitAddJudge(c, j) \/ AdmitRotate(c, j) \/ AdmitRevoke(c, j)
    BY <1>6, <1>7, <1>8, <2>3
  <2>4. QED
    BY <1>9, <1>11, <2>1, <2>2, <2>3 DEF AdminRequest
<1>12. QED
  BY <1>10, <1>11

\* What a step does to the requests: one is replaced, or one ends, or none changes.
LEMMA Replaced ==
  ASSUME TypeOK, NEW c \in Clients, NEW r, req' = [req EXCEPT ![c] = r]
  PROVE  req'[c] = r /\ \A d \in Clients \ {c} : req'[d] = req[d]
  BY DEF TypeOK

LEMMA Ended ==
  ASSUME TypeOK, NEW c \in Clients, Ends(c)
  PROVE  /\ req'[c] = Idle /\ \A d \in Clients \ {c} : req'[d] = req[d]
         /\ Idle.kind = None /\ None \notin AllKinds
  BY Replaced, NoneAssumption DEF Ends, Idle

LEMMA Target ==
  ASSUME Shaped, NEW c \in Clients, req[c].kind \in JudgeKinds
  PROVE  Pair(c) \in Pairs /\ req[c].judge \in Judges
  BY DEF Shaped, Shape, Pair, Pairs

\* A form is stored in the row of its pair, if at all: whole, if the row is as it
\* was loaded, and a submitted row stays one.
LEMMA Stored ==
  ASSUME TypeOK, Shaped, NEW c \in Clients, CommitForm(c)
  PROVE  /\ Pair(c) \in Pairs
         /\ fe' \in [Pairs -> Score \cup {NoScore}]
         /\ \A p \in Pairs : p # Pair(c) => fe'[p] = fe[p]
         /\ Submitted(Pair(c)) => fe'[Pair(c)].submitted
         /\ fe[Pair(c)] = req[c].seen =>
              fe'[Pair(c)] = [form |-> req[c].form,
                              submitted |-> req[c].kind = "submit" \/ Submitted(Pair(c))]
<1> DEFINE p == Pair(c)
           new == [form |-> req[c].form, submitted |-> req[c].kind = "submit"]
           old == [form |-> Applied(fe[p], req[c].seen, req[c].form),
                   submitted |-> req[c].kind = "submit" \/ Submitted(p)]
<1>1. p \in Pairs
  BY Target DEF CommitForm, JudgeKinds
<1>2. fe[p] \in Score \cup {NoScore} /\ req[c].seen \in Score \cup {NoScore} /\ req[c].form \in Form
  BY <1>1 DEF TypeOK, Request
<1>3. new \in Score
  BY <1>2 DEF Score
<1>4. fe[p] # NoScore /\ req[c].seen # NoScore => old \in Score
  BY <1>2 DEF Score, Form, Applied, Submitted
<1>5. fe[p] = req[c].seen /\ fe[p] # NoScore =>
        Applied(fe[p], req[c].seen, req[c].form) = req[c].form
  BY <1>2 DEF Score, Form, Applied
<1>6. \/ fe' = fe /\ fe[p] # req[c].seen
      \/ fe' = [fe EXCEPT ![p] = new] /\ fe[p] = NoScore /\ req[c].seen = NoScore
      \/ fe' = [fe EXCEPT ![p] = old] /\ fe[p] # NoScore /\ req[c].seen # NoScore
  BY DEF CommitForm, Store, Submitted
<1> HIDE DEF p
<1>7. CASE fe' = fe /\ fe[p] # req[c].seen
  BY <1>1, <1>7 DEF TypeOK, Submitted, p
<1>8. CASE fe' = [fe EXCEPT ![p] = new] /\ fe[p] = NoScore /\ req[c].seen = NoScore
  <2>1. ~Submitted(p) /\ new = [form |-> req[c].form,
                                submitted |-> req[c].kind = "submit" \/ Submitted(p)]
    BY <1>8, NoScoreIsNoRow DEF Submitted
  <2>2. fe'[p] = new /\ \A q \in Pairs : q # p => fe'[q] = fe[q]
    BY <1>1, <1>8 DEF TypeOK
  <2>3. fe' \in [Pairs -> Score \cup {NoScore}]
    BY <1>1, <1>3, <1>8 DEF TypeOK
  <2>4. QED
    BY <1>1, <2>1, <2>2, <2>3 DEF p
<1>9. CASE fe' = [fe EXCEPT ![p] = old] /\ fe[p] # NoScore /\ req[c].seen # NoScore
  <2>1. fe[p] = req[c].seen => old = [form |-> req[c].form,
                                      submitted |-> req[c].kind = "submit" \/ Submitted(p)]
    BY <1>5, <1>9
  <2>2. fe'[p] = old /\ \A q \in Pairs : q # p => fe'[q] = fe[q]
    BY <1>1, <1>9 DEF TypeOK
  <2>3. fe' \in [Pairs -> Score \cup {NoScore}]
    BY <1>1, <1>4, <1>9 DEF TypeOK
  <2>4. Submitted(p) => old.submitted
    OBVIOUS
  <2> HIDE DEF old
  <2>5. QED
    BY <1>1, <2>1, <2>2, <2>3, <2>4 DEF p
<1>10. QED
  BY <1>6, <1>7, <1>8, <1>9

-----------------------------------------------------------------------------
(* Type correctness, for any number of clients, with what the kind of a    *)
(* request says of its fields.                                             *)

LEMMA TypeStep == TypeOK /\ Shaped /\ [Next]_vars => TypeOK' /\ Shaped'
<1> SUFFICES ASSUME TypeOK, Shaped, [Next]_vars
             PROVE  TypeOK' /\ Shaped'
  OBVIOUS
<1> DEFINE Rows == /\ status' \in Status \cup {"gone"}
                   /\ settings' \in Settings
                   /\ attached' \subseteq Videos
                   /\ invite' \in [Judges -> Invite]
                   /\ fe' \in [Pairs -> Score \cup {NoScore}]
                   /\ clicks' \in [Pairs -> SUBSET Clicks]
<1>1. ASSUME NEW c \in Clients, NEW r \in Request, Shape(r),
             req' = [req EXCEPT ![c] = r]
      PROVE  req' \in [Clients -> Request] /\ Shaped'
  <2>1. req' \in [Clients -> Request]
    BY <1>1 DEF TypeOK
  <2>2. Shaped'
    BY <1>1, Replaced DEF Shaped, Shape, Complete
  <2>3. QED
    BY <2>1, <2>2
<1>2. ASSUME NEW c \in Clients, JudgeRequest(c) \/ AdminRequest(c)
      PROVE  TypeOK' /\ Shaped'
  <2>1. PICK r \in Request : Admit(c, r) /\ Shape(r) /\ Admissible(r)
    BY <1>2, Admitted DEF Admits
  <2>2. QED
    BY <1>1, <2>1 DEF Admit, TypeOK, entry, marks
<1>3. ASSUME NEW c \in Clients, Ends(c), Rows, UNCHANGED results
      PROVE  TypeOK' /\ Shaped'
  BY <1>1, <1>3, IdleRequest DEF Ends, TypeOK
<1>4. ASSUME NEW c \in Clients, CommitForm(c)
      PROVE  TypeOK' /\ Shaped'
  BY <1>3, <1>4, Stored DEF CommitForm, entry, TypeOK
<1>5. ASSUME NEW c \in Clients, CommitAddClick(c)
      PROVE  TypeOK' /\ Shaped'
  <2>1. req[c].click \in Clicks
    BY <1>5 DEF CommitAddClick, Shaped, Shape, ClickKinds
  <2>2. clicks' \in [Pairs -> SUBSET Clicks]
    BY <1>5, <2>1 DEF CommitAddClick, TypeOK
  <2>3. QED
    BY <1>3, <1>5, <2>2 DEF CommitAddClick, entry, TypeOK
<1>6. ASSUME NEW c \in Clients, CommitDeleteClick(c)
      PROVE  TypeOK' /\ Shaped'
  <2>1. clicks' \in [Pairs -> SUBSET Clicks]
    BY <1>6 DEF CommitDeleteClick, TypeOK
  <2>2. QED
    BY <1>3, <1>6, <2>1 DEF CommitDeleteClick, entry, TypeOK
<1>7. ASSUME NEW c \in Clients, CommitUpdate(c)
      PROVE  TypeOK' /\ Shaped'
  <2>1. req[c].status \in Status \cup {None} /\ req[c].settings \in Settings \cup {None}
    BY DEF TypeOK, Request
  <2>2. status' \in Status \cup {"gone"} /\ settings' \in Settings
    BY <1>7, <2>1 DEF CommitUpdate, TypeOK
  <2>3. QED
    BY <1>3, <1>7, <2>2 DEF CommitUpdate, marks, TypeOK
<1>8. ASSUME NEW c \in Clients, CommitAddVideo(c)
      PROVE  TypeOK' /\ Shaped'
  <2>1. req[c].video \in Videos
    BY <1>8 DEF CommitAddVideo, Shaped, Shape
  <2>2. QED
    BY <1>3, <1>8, <2>1 DEF CommitAddVideo, marks, TypeOK
<1>9. ASSUME NEW c \in Clients, NEW i \in Invite, invite' = [invite EXCEPT ![req[c].judge] = i],
             Ends(c), UNCHANGED <<status, settings, attached, marks, results>>
      PROVE  TypeOK' /\ Shaped'
  <2>1. invite' \in [Judges -> Invite]
    BY <1>9 DEF TypeOK
  <2>2. QED
    BY <1>3, <1>9, <2>1 DEF marks, TypeOK
<1>10. ASSUME NEW c \in Clients, CommitAddJudge(c) \/ CommitRotate(c) \/ CommitRevoke(c)
       PROVE  TypeOK' /\ Shaped'
  <2>1. req[c].judge \in Judges
    BY <1>10 DEF CommitAddJudge, CommitRotate, CommitRevoke, Shaped, Shape
  <2>2. invite[req[c].judge] \in Invite /\ req[c].revoked \in BOOLEAN
    BY <2>1 DEF TypeOK, Request
  <2>3. CASE CommitAddJudge(c)
    BY <1>9, <2>3 DEF CommitAddJudge, Invite
  <2>4. CASE CommitRotate(c)
    BY <1>9, <2>2, <2>4 DEF CommitRotate, Invite
  <2>5. CASE CommitRevoke(c)
    <3>1. invite' = [invite EXCEPT ![req[c].judge] = [invite[req[c].judge] EXCEPT !.revoked = TRUE]]
      BY <2>5 DEF CommitRevoke
    <3>2. [invite[req[c].judge] EXCEPT !.revoked = TRUE] \in Invite
      BY <2>2 DEF Invite
    <3>3. QED
      BY <1>9, <2>5, <3>1, <3>2 DEF CommitRevoke
  <2>6. QED
    BY <1>10, <2>3, <2>4, <2>5
<1>11. ASSUME NEW c \in Clients, CommitDeleteEntry(c)
       PROVE  TypeOK' /\ Shaped'
  <2>1. Rows
    BY <1>11 DEF CommitDeleteEntry, TypeOK, Invite
  <2>2. QED
    BY <1>3, <1>11, <2>1 DEF CommitDeleteEntry
<1>12. ASSUME NEW c \in Clients, Abort(c)
       PROVE  TypeOK' /\ Shaped'
  BY <1>3, <1>12 DEF Abort, entry, marks, TypeOK
<1>13. ASSUME NEW j \in Judges, Expire(j)
       PROVE  TypeOK' /\ Shaped'
  <2>1. invite' \in [Judges -> Invite]
    BY <1>13 DEF Expire, TypeOK, Invite
  <2>2. QED
    BY <1>13, <2>1 DEF Expire, marks, TypeOK, Shaped, Shape, Complete
<1>14. CASE ReadScores \/ ReadClicks
  <2>1. NoResults \in Results
    BY DEF NoResults, Results
  <2> DEFINE late == {p \in Pairs : \E c \in Clients :
                       Writing(c, p) /\ req[c].kind \in {"addClick", "deleteClick"}}
  <2>2. late \in SUBSET Pairs
    OBVIOUS
  <2> HIDE DEF late
  <2>3. [NoResults EXCEPT !.pc = "clicks", !.fe = fe, !.late = late] \in Results
    BY <2>1, <2>2 DEF TypeOK, Results
  <2>4. [results EXCEPT !.pc = "done", !.clicks = clicks] \in Results
    BY DEF TypeOK, Results
  <2>5. results' \in Results
    BY <1>14, <2>3, <2>4 DEF ReadScores, ReadClicks, late
  <2>6. QED
    BY <1>14, <2>5 DEF ReadScores, ReadClicks, entry, marks, TypeOK, Shaped, Shape, Complete
<1>15. CASE UNCHANGED vars
  BY <1>15 DEF vars, TypeOK, Shaped, Shape, Complete
<1>16. QED
  BY <1>2, <1>4, <1>5, <1>6, <1>7, <1>8, <1>10, <1>11, <1>12, <1>13, <1>14, <1>15
  DEF Next, Commit

-----------------------------------------------------------------------------
(* Invitations.                                                            *)

\* A request that ends without a change of what InviteInv looks at.
LEMMA InviteStep == TypeOK /\ Shaped /\ InviteInv /\ [Next]_vars => InviteInv'
<1> SUFFICES ASSUME TypeOK, Shaped, InviteInv, [Next]_vars
             PROVE  InviteInv'
  OBVIOUS
<1> USE DEF AllKinds, AdminKinds, JudgeKinds
<1>1. ASSUME NEW c \in Clients, JudgeRequest(c) \/ AdminRequest(c)
      PROVE  InviteInv'
  <2>1. PICK r \in Request : Admit(c, r) /\ Shape(r) /\ Admissible(r)
    BY <1>1, Admitted DEF Admits
  <2>2. /\ req'[c] = r /\ \A d \in Clients \ {c} : req'[d] = req[d]
        /\ UNCHANGED <<status, invite>>
    BY <2>1, Replaced DEF Admit, entry
  <2>3. \A d \in Clients : req[d].kind = "addJudge" => req[d].judge \in Judges
    BY DEF Shaped, Shape
  <2>4. \A d \in Clients : req[d].kind = "addJudge" /\ d # c => r.judge # req[d].judge
    BY <2>1, <2>3 DEF Admissible, InviteInv
  <2>5. QED
    BY <2>1, <2>2, <2>4 DEF InviteInv, Admissible
<1>2. ASSUME NEW c \in Clients, Ends(c), \A j \in Judges : ~(invite'[j].link = "none" /\ invite'[j].revoked),
             status' # "gone" => /\ status # "gone"
                                 /\ \A j \in Judges : /\ invite[j].link # "none" => invite'[j].link # "none"
                                                      /\ invite[j].link = "none" /\ invite'[j].link # "none" =>
                                                           req[c].kind = "addJudge" /\ req[c].judge = j
      PROVE  InviteInv'
  <2>1. /\ \A d \in Clients \ {c} : req'[d] = req[d]
        /\ req'[c].kind = None /\ None \notin {"addJudge", "rotate", "revoke"}
        /\ req'[c].judge = None /\ None \notin Judges
    BY <1>2, Ended, NoneAssumption DEF Idle
  <2>2. \A d \in Clients : req[d].kind \in {"addJudge", "rotate", "revoke"} => req[d].judge \in Judges
    BY DEF Shaped, Shape
  <2>3. QED
    BY <1>2, <2>1, <2>2 DEF InviteInv
<1>3. ASSUME NEW c \in Clients,
             CommitForm(c) \/ CommitAddClick(c) \/ CommitDeleteClick(c) \/ CommitUpdate(c)
               \/ CommitAddVideo(c) \/ Abort(c)
      PROVE  InviteInv'
  <2>1. Ends(c) /\ UNCHANGED invite /\ (status' # "gone" => status # "gone")
    BY <1>3 DEF CommitForm, CommitAddClick, CommitDeleteClick, CommitUpdate, CommitAddVideo,
                Abort, entry
  <2>2. QED
    BY <1>2, <2>1 DEF InviteInv
<1>4. ASSUME NEW c \in Clients, CommitAddJudge(c) \/ CommitRotate(c) \/ CommitRevoke(c)
      PROVE  InviteInv'
  <2>1. Ends(c) /\ UNCHANGED status /\ status # "gone"
    BY <1>4 DEF CommitAddJudge, CommitRotate, CommitRevoke
  <2>2. req[c].judge \in Judges
    BY <1>4 DEF CommitAddJudge, CommitRotate, CommitRevoke, Shaped, Shape
  <2>3. \A j \in Judges : j # req[c].judge => invite'[j] = invite[j]
    BY <1>4 DEF CommitAddJudge, CommitRotate, CommitRevoke, TypeOK
  <2>4. /\ invite'[req[c].judge].link # "none"
        /\ req[c].kind = "addJudge" \/ invite[req[c].judge].link # "none"
    BY <1>4, <2>1, <2>2 DEF CommitAddJudge, CommitRotate, CommitRevoke, InviteInv, TypeOK, Invite
  <2>5. QED
    BY <1>2, <2>1, <2>3, <2>4 DEF InviteInv
<1>5. ASSUME NEW c \in Clients, CommitDeleteEntry(c)
      PROVE  InviteInv'
  BY <1>2, <1>5 DEF CommitDeleteEntry
<1>6. ASSUME NEW j \in Judges, Expire(j)
      PROVE  InviteInv'
  <2>1. \A i \in Judges : invite'[i].link = "none" <=> invite[i].link = "none"
    BY <1>6 DEF Expire, TypeOK, Invite
  <2>2. \A i \in Judges : invite'[i].link = "none" => invite'[i] = invite[i]
    BY <1>6, <2>1 DEF Expire, TypeOK, Invite
  <2>3. UNCHANGED <<status, req>>
    BY <1>6 DEF Expire
  <2>4. \A d \in Clients : req[d].kind \in {"addJudge", "rotate", "revoke"} => req[d].judge \in Judges
    BY DEF Shaped, Shape
  <2>5. QED
    BY <2>1, <2>2, <2>3, <2>4 DEF InviteInv
<1>7. CASE ReadScores \/ ReadClicks \/ UNCHANGED vars
  <2>1. UNCHANGED <<status, invite, req>>
    BY <1>7 DEF ReadScores, ReadClicks, vars, entry
  <2>2. QED
    BY <2>1 DEF InviteInv
<1>8. QED
  BY <1>1, <1>3, <1>4, <1>5, <1>6, <1>7 DEF Next, Commit

-----------------------------------------------------------------------------
(* The judges' forms.                                                      *)

LEMMA FormsStep ==
  TypeOK /\ Shaped /\ FormsInv /\ CompleteInv /\ [Next]_vars => FormsInv' /\ CompleteInv'
<1> SUFFICES ASSUME TypeOK, Shaped, FormsInv, CompleteInv, [Next]_vars, OneForm
             PROVE  FormsInv' /\ CompleteInv'
  BY DEF FormsInv, CompleteInv
<1> USE DEF AllKinds, AdminKinds, JudgeKinds, FormKinds
<1>1. ASSUME NEW c \in Clients, JudgeRequest(c) \/ AdminRequest(c)
      PROVE  FormsInv' /\ CompleteInv'
  <2>1. PICK r \in Request : Admit(c, r) /\ Shape(r) /\ Admissible(r)
    BY <1>1, Admitted DEF Admits
  <2>2. /\ req'[c] = r /\ \A d \in Clients \ {c} : req'[d] = req[d]
        /\ UNCHANGED <<status, fe>>
    BY <2>1, Replaced DEF Admit, entry, marks
  <2>3. r.kind \in FormKinds =>
          /\ r.seen = fe[<<r.judge, r.video>>] /\ ~r.seen.submitted
          /\ \A d \in Clients : req[d].kind \in FormKinds => req[d].judge # r.judge
    BY <2>1 DEF Admissible, Open, Submitted, PageReady
  <2>4. FormsInv'
    BY <2>2, <2>3 DEF FormsInv, Pair
  <2>5. CompleteInv'
    BY <2>2 DEF CompleteInv, SubmittedIsComplete, Submitted, Complete
  <2>6. QED
    BY <2>4, <2>5
<1>2. ASSUME NEW c \in Clients, CommitForm(c)
      PROVE  FormsInv' /\ CompleteInv'
  <2>1. /\ \A d \in Clients \ {c} : req'[d] = req[d]
        /\ req'[c].kind \notin FormKinds
        /\ UNCHANGED status
    BY <1>2, Ended DEF CommitForm, entry
  <2>2. /\ fe[Pair(c)] = req[c].seen /\ ~req[c].seen.submitted
        /\ \A d \in Clients \ {c} : req[d].kind \in FormKinds => req[d].judge # req[c].judge
    BY <1>2 DEF FormsInv, CommitForm
  <2>3. \A p \in Pairs : p # Pair(c) => fe'[p] = fe[p]
    BY <1>2, Stored
  <2>4. fe'[Pair(c)] = [form |-> req[c].form, submitted |-> req[c].kind = "submit"]
    BY <1>2, <2>2, Stored DEF Submitted
  <2>5. \A d \in Clients : req'[d].kind \in FormKinds =>
          d # c /\ req[d].kind \in FormKinds /\ Pair(d) \in Pairs /\ Pair(d) # Pair(c) /\ Pair(d)' = Pair(d)
    BY <2>1, <2>2, Target DEF Pair
  <2>6. FormsInv'
    BY <2>1, <2>3, <2>5 DEF FormsInv
  <2>7. req[c].kind = "submit" => Complete(req[c].form)
    BY DEF Shaped, Shape
  <2>8. ASSUME NEW p \in Pairs, Submitted(p)'
        PROVE  Complete(fe[p].form)'
    <3>1. CASE p = Pair(c)
      <4>1. fe'[p].submitted = (req[c].kind = "submit") /\ fe'[p].form = req[c].form
        BY <2>4, <3>1
      <4>2. Complete(req[c].form)
        BY <2>7, <2>8, <4>1 DEF Submitted
      <4>3. QED
        BY <4>1, <4>2 DEF Complete
    <3>2. CASE p # Pair(c)
      BY <2>3, <2>8, <3>2 DEF CompleteInv, SubmittedIsComplete, Submitted, Complete
    <3>3. QED
      BY <3>1, <3>2
  <2>9. QED
    BY <2>6, <2>8 DEF CompleteInv, SubmittedIsComplete
<1>3. ASSUME UNCHANGED fe, status' # "gone" => status # "gone",
             \A d \in Clients : req'[d].kind \in FormKinds => req'[d] = req[d]
      PROVE  FormsInv' /\ CompleteInv'
  BY <1>3 DEF FormsInv, CompleteInv, SubmittedIsComplete, Submitted, Complete, Pair
<1>4. ASSUME NEW c \in Clients,
             \/ CommitAddClick(c) \/ CommitDeleteClick(c) \/ CommitUpdate(c) \/ CommitAddVideo(c)
             \/ CommitAddJudge(c) \/ CommitRotate(c) \/ CommitRevoke(c) \/ Abort(c)
      PROVE  FormsInv' /\ CompleteInv'
  <2>1. Ends(c) /\ UNCHANGED fe /\ (status' # "gone" => status # "gone")
    BY <1>4 DEF CommitAddClick, CommitDeleteClick, CommitUpdate, CommitAddVideo, CommitAddJudge,
                CommitRotate, CommitRevoke, Abort, entry, marks
  <2>2. QED
    BY <1>3, <2>1, Ended
<1>5. ASSUME NEW c \in Clients, CommitDeleteEntry(c)
      PROVE  FormsInv' /\ CompleteInv'
  BY <1>5, NoScoreIsNoRow
  DEF CommitDeleteEntry, FormsInv, CompleteInv, SubmittedIsComplete, Submitted
<1>6. CASE (\E j \in Judges : Expire(j)) \/ ReadScores \/ ReadClicks \/ UNCHANGED vars
  <2>1. UNCHANGED <<status, fe, req>>
    BY <1>6 DEF Expire, ReadScores, ReadClicks, vars, entry, marks
  <2>2. QED
    BY <1>3, <2>1
<1>7. QED
  BY <1>1, <1>2, <1>4, <1>5, <1>6 DEF Next, Commit

-----------------------------------------------------------------------------
(* What a step writes to the marks of a pair, and who writes it.           *)

\* A click is written by a request of its pair that is in flight.
ClickInFlight(p) == \E c \in Clients : Writing(c, p) /\ req[c].kind \in ClickKinds

FormInFlight(p) == \E c \in Clients : Writing(c, p) /\ req[c].kind \in FormKinds

\* A request of the pair that is in flight after a step was so before, or it has
\* just been admitted, and then the pair was open.
LEMMA InFlightStep ==
  ASSUME TypeOK, Shaped, [Next]_vars, NEW p \in Pairs, NEW c \in Clients, Writing(c, p)'
  PROVE  \/ Writing(c, p) /\ req'[c] = req[c]
         \/ Open(p)
<1> USE DEF AllKinds, AdminKinds, JudgeKinds
<1>1. ASSUME NEW d \in Clients, JudgeRequest(d) \/ AdminRequest(d)
      PROVE  (Writing(c, p) /\ req'[c] = req[c]) \/ Open(p)
  <2>1. PICK r \in Request : Admit(d, r) /\ Shape(r) /\ Admissible(r)
    BY <1>1, Admitted DEF Admits
  <2>2. req'[d] = r /\ \A e \in Clients \ {d} : req'[e] = req[e]
    BY <2>1, Replaced DEF Admit
  <2>3. CASE c = d
    BY <2>1, <2>2, <2>3 DEF Writing, Pair, Admissible
  <2>4. CASE c # d
    BY <2>2, <2>4 DEF Writing, Pair
  <2>5. QED
    BY <2>3, <2>4
<1>2. ASSUME NEW d \in Clients, Ends(d)
      PROVE  Writing(c, p) /\ req'[c] = req[c]
  BY <1>2, Ended DEF Writing, Pair
<1>3. ASSUME NEW d \in Clients, Commit(d) \/ Abort(d)
      PROVE  Ends(d)
  BY <1>3 DEF Commit, Abort, CommitForm, CommitAddClick, CommitDeleteClick, CommitUpdate,
              CommitAddVideo, CommitAddJudge, CommitRotate, CommitRevoke, CommitDeleteEntry
<1>4. CASE (\E j \in Judges : Expire(j)) \/ ReadScores \/ ReadClicks \/ UNCHANGED vars
  <2>1. UNCHANGED req
    BY <1>4 DEF Expire, ReadScores, ReadClicks, vars
  <2>2. QED
    BY <2>1 DEF Writing, Pair
<1>5. QED
  BY <1>1, <1>2, <1>3, <1>4 DEF Next

LEMMA MarksStep ==
  ASSUME TypeOK, Shaped, [Next]_vars, status' # "gone", NEW p \in Pairs
  PROVE  /\ status # "gone"
         /\ clicks'[p] = clicks[p] \/ ClickInFlight(p)
         /\ fe'[p] = fe[p] \/ FormInFlight(p)
         /\ Submitted(p) => Submitted(p)'
<1> USE DEF AllKinds, AdminKinds, JudgeKinds, FormKinds, ClickKinds
<1>1. ASSUME NEW c \in Clients, CommitForm(c)
      PROVE  /\ status # "gone" /\ UNCHANGED clicks
             /\ fe'[p] = fe[p] \/ FormInFlight(p)
             /\ Submitted(p) => Submitted(p)'
  BY <1>1, Stored DEF CommitForm, FormInFlight, Writing, Submitted, entry
<1>2. ASSUME NEW c \in Clients, CommitAddClick(c) \/ CommitDeleteClick(c)
      PROVE  /\ UNCHANGED <<status, fe>>
             /\ clicks'[p] = clicks[p] \/ ClickInFlight(p)
  <2>1. Pair(c) \in Pairs /\ req[c].kind \in ClickKinds
    BY <1>2, Target DEF CommitAddClick, CommitDeleteClick
  <2>2. p # Pair(c) => clicks'[p] = clicks[p]
    BY <1>2, <2>1 DEF CommitAddClick, CommitDeleteClick, TypeOK
  <2>3. QED
    BY <1>2, <2>1, <2>2 DEF CommitAddClick, CommitDeleteClick, ClickInFlight, Writing, entry
<1>3. ASSUME UNCHANGED marks, status' # "gone" => status # "gone"
      PROVE  /\ status # "gone" /\ clicks'[p] = clicks[p] /\ fe'[p] = fe[p]
             /\ Submitted(p) => Submitted(p)'
  BY <1>3 DEF marks, Submitted
<1>4. ASSUME NEW c \in Clients, JudgeRequest(c) \/ AdminRequest(c)
      PROVE  UNCHANGED marks /\ UNCHANGED status
  BY <1>4, Admitted DEF Admits, Admit, entry
<1>5. ASSUME NEW c \in Clients,
             CommitUpdate(c) \/ CommitAddVideo(c) \/ CommitAddJudge(c) \/ CommitRotate(c)
               \/ CommitRevoke(c) \/ Abort(c)
      PROVE  UNCHANGED marks /\ (status' # "gone" => status # "gone")
  BY <1>5 DEF CommitUpdate, CommitAddVideo, CommitAddJudge, CommitRotate, CommitRevoke, Abort, entry
<1>6. CASE (\E j \in Judges : Expire(j)) \/ ReadScores \/ ReadClicks \/ UNCHANGED vars
  <2>1. UNCHANGED marks /\ UNCHANGED status
    BY <1>6 DEF Expire, ReadScores, ReadClicks, vars, entry, marks
  <2>2. QED
    BY <1>3, <2>1
<1>7. ASSUME NEW c \in Clients, CommitDeleteEntry(c)
      PROVE  FALSE
  BY <1>7 DEF CommitDeleteEntry
<1>8. QED
  BY <1>1, <1>2, <1>3, <1>4, <1>5, <1>6, <1>7 DEF Next, Commit, Submitted

-----------------------------------------------------------------------------
(* The results.                                                            *)

LEMMA ResultsStep == TypeOK /\ Shaped /\ ResultsInv /\ [Next]_vars => ResultsInv'
<1> SUFFICES ASSUME TypeOK, Shaped, ResultsInv, [Next]_vars, status' # "gone"
             PROVE  ResultsInv'
  BY DEF ResultsInv
<1> USE DEF ClickKinds
<1>1. CASE ReadScores
  <2>1. /\ results'.fe = fe
        /\ results'.pc = "clicks"
        /\ results'.late = {p \in Pairs : ClickInFlight(p)}
        /\ UNCHANGED <<fe, req>>
    BY <1>1 DEF ReadScores, NoResults, ClickInFlight, marks
  <2>2. QED
    BY <2>1 DEF ResultsInv, ClickInFlight, Submitted, Writing, Pair
<1>2. CASE ReadClicks
  <2>1. /\ results'.fe = results.fe /\ results'.late = results.late
        /\ results'.clicks = clicks
        /\ results.pc = "clicks"
        /\ UNCHANGED <<status, fe, clicks, req>>
    BY <1>2 DEF ReadClicks, entry, marks, TypeOK, Results
  <2>2. QED
    BY <2>1 DEF ResultsInv, Submitted, Writing, Pair
<1>3. CASE UNCHANGED results
  <2> SUFFICES ASSUME results.pc # "idle", NEW p \in Pairs, results.fe[p].submitted,
                      p \notin results.late
               PROVE  /\ Submitted(p)'
                      /\ \A c \in Clients : Writing(c, p)' => req'[c].kind \notin ClickKinds
                      /\ results.pc = "done" => results.clicks[p] = clicks'[p]
    BY <1>3 DEF ResultsInv
  <2>1. status # "gone"
    BY MarksStep
  <2>2. Submitted(p) /\ ~ClickInFlight(p) /\ (results.pc = "done" => results.clicks[p] = clicks[p])
    BY <2>1 DEF ResultsInv, ClickInFlight
  <2>3. Submitted(p)' /\ clicks'[p] = clicks[p]
    BY <2>2, MarksStep
  <2>4. \A c \in Clients : Writing(c, p)' => req'[c].kind \notin ClickKinds
    BY <2>2, InFlightStep DEF Open, ClickInFlight
  <2>5. QED
    BY <2>2, <2>3, <2>4
<1>4. UNCHANGED results \/ ReadScores \/ ReadClicks
  <2>1. ASSUME NEW c \in Clients, JudgeRequest(c) \/ AdminRequest(c)
        PROVE  UNCHANGED results
    BY <2>1, Admitted DEF Admits, Admit
  <2>2. ASSUME NEW c \in Clients, Commit(c) \/ Abort(c)
        PROVE  UNCHANGED results
    BY <2>2 DEF Commit, Abort, CommitForm, CommitAddClick, CommitDeleteClick, CommitUpdate,
                CommitAddVideo, CommitAddJudge, CommitRotate, CommitRevoke, CommitDeleteEntry
  <2>3. QED
    BY <2>1, <2>2 DEF Next, Expire, vars
<1>5. QED
  BY <1>1, <1>2, <1>3, <1>4

-----------------------------------------------------------------------------
LEMMA Start == Init => IInv
<1> SUFFICES ASSUME Init PROVE IInv
  OBVIOUS
<1>1. \A c \in Clients : req[c] = Idle /\ req[c].kind = None
  BY DEF Init, Idle
<1>2. None \notin AllKinds
  BY NoneAssumption
<1>3. \A p \in Pairs : ~Submitted(p)
  BY NoScoreIsNoRow DEF Init, Submitted
<1>4. TypeOK
  <2>1. results \in Results
    BY DEF Init, NoResults, Results
  <2>2. QED
    BY <2>1, IdleRequest DEF Init, TypeOK, Status, Invite
<1>5. Shaped
  BY <1>1, IdleRequest DEF Shaped
<1>6. InviteInv /\ FormsInv
  BY <1>1, <1>2 DEF Init, InviteInv, FormsInv, AllKinds, AdminKinds, JudgeKinds, FormKinds
<1>7. CompleteInv /\ ResultsInv
  BY <1>3 DEF Init, CompleteInv, SubmittedIsComplete, ResultsInv, NoResults
<1>8. QED
  BY <1>4, <1>5, <1>6, <1>7 DEF IInv

LEMMA Inductive == Spec => []IInv
<1>1. IInv /\ [Next]_vars => IInv'
  BY TypeStep, InviteStep, FormsStep, ResultsStep DEF IInv
<1>2. QED
  BY <1>1, Start, PTL DEF Spec

\* The rows of the entry and its requests are well typed (models/judging.py).
THEOREM TypeCorrect == Spec => []TypeOK
<1>1. IInv => TypeOK
  BY DEF IInv
<1>2. QED
  BY <1>1, Inductive, PTL

\* What compute_entry_results reports of a judge who counts is final, although
\* it reads the scores and the clicks one after the other.
THEOREM ResultsAreFinal == Spec => []ResultsFinal
<1>1. IInv => ResultsFinal
  <2> SUFFICES ASSUME IInv, results.pc = "done", status # "gone",
                      NEW v \in Videos, NEW j \in Panel, j \in Included(v),
                      <<j, v>> \notin results.late
               PROVE  results.clicks[<<j, v>>] = clicks[<<j, v>>]
    BY DEF ResultsFinal
  <2>1. <<j, v>> \in Pairs
    BY PanelAssumption DEF Pairs
  <2>2. results.fe[<<j, v>>].submitted
    BY DEF Included
  <2>3. QED
    BY <2>1, <2>2 DEF IInv, ResultsInv
<1>2. QED
  BY <1>1, Inductive, PTL

\* From one page for each judge, a submitted row has a mark in every category
\* (submit_judge_fe).
THEOREM SubmissionIsComplete ==
  ASSUME OneForm
  PROVE  Spec => []SubmittedIsComplete
<1>1. IInv => SubmittedIsComplete
  BY DEF IInv, CompleteInv
<1>2. QED
  BY <1>1, Inductive, PTL

\* No request but the deletion of the entry takes a submission back
\* (upsert_judge_fe, submit_judge_fe).
THEOREM SubmissionStays == Spec => NeverUnsubmitted
<1>1. IInv /\ [Next]_vars =>
        \A p \in Pairs : Submitted(p) /\ status' # "gone" => Submitted(p)'
  BY MarksStep DEF IInv
<1>2. QED
  BY <1>1, Inductive, PTL DEF Spec, NeverUnsubmitted

\* A pair that is closed and has no request in flight keeps its marks and its
\* clicks (_assert_entry_writable, _assert_video_score_open).
THEOREM ClosedStaysQuiet == Spec => QuietStays
<1>1. ASSUME IInv, [Next]_vars, NEW p \in Pairs, Quiet(p), ~Open(p)', status' # "gone"
      PROVE  Quiet(p)' /\ fe'[p] = fe[p] /\ clicks'[p] = clicks[p]
  <2>1. ~FormInFlight(p) /\ ~ClickInFlight(p) /\ ~Open(p)
    BY <1>1 DEF Quiet, FormInFlight, ClickInFlight
  <2>2. fe'[p] = fe[p] /\ clicks'[p] = clicks[p]
    BY <1>1, <2>1, MarksStep DEF IInv
  <2>3. \A c \in Clients : ~Writing(c, p)'
    BY <1>1, <2>1, InFlightStep DEF IInv, Quiet
  <2>4. QED
    BY <1>1, <2>2, <2>3 DEF Quiet
<1>2. IInv /\ [Next]_vars =>
        \A p \in Pairs :
          Quiet(p) /\ ~Open(p)' /\ status' # "gone"
            => Quiet(p)' /\ fe'[p] = fe[p] /\ clicks'[p] = clicks[p]
  BY <1>1
<1>3. QED
  BY <1>2, Inductive, PTL DEF Spec, QuietStays

\* From one page for each judge, the marks of a submitted row never change.
THEOREM SubmittedMarksStay ==
  ASSUME OneForm
  PROVE  Spec => MarksFinal
<1>1. ASSUME IInv, [Next]_vars, NEW p \in Pairs, Submitted(p), status' # "gone"
      PROVE  fe'[p] = fe[p]
  <2>1. status # "gone" /\ (fe'[p] = fe[p] \/ FormInFlight(p))
    BY <1>1, MarksStep DEF IInv
  <2>2. ~FormInFlight(p)
    BY <1>1, <2>1 DEF IInv, FormsInv, FormInFlight, Writing, Submitted
  <2>3. QED
    BY <2>1, <2>2
<1>2. IInv /\ [Next]_vars => \A p \in Pairs : Submitted(p) /\ status' # "gone" => fe'[p] = fe[p]
  BY <1>1
<1>3. QED
  BY <1>2, Inductive, PTL DEF Spec, MarksFinal

\* Only a rotation that was asked for when the revocation was there to be seen
\* takes it back (rotate_judge_token, revoke_judge).
THEOREM RevocationStays == Spec => RevocationHolds
<1>1. ASSUME IInv, [Next]_vars, NEW j \in Judges, invite[j].revoked, ~invite'[j].revoked,
             status' # "gone"
      PROVE  \E c \in Clients : req[c].kind = "rotate" /\ req[c].judge = j /\ req[c].revoked
  <2>0. TypeOK /\ Shaped /\ InviteInv
    BY <1>1 DEF IInv
  <2>1. UNCHANGED invite \/ (\E c \in Clients : Commit(c)) \/ (\E i \in Judges : Expire(i))
    <3>1. ASSUME NEW c \in Clients, JudgeRequest(c) \/ AdminRequest(c)
          PROVE  UNCHANGED invite
      BY <2>0, <3>1, Admitted DEF Admits, Admit, entry
    <3>2. QED
      BY <1>1, <3>1 DEF Next, vars, Abort, ReadScores, ReadClicks, entry
  <2>2. ASSUME NEW c \in Clients, Commit(c)
        PROVE  CommitAddJudge(c) \/ CommitRotate(c) \/ CommitRevoke(c) \/ UNCHANGED invite
    BY <1>1, <2>2 DEF Commit, CommitForm, CommitAddClick, CommitDeleteClick, CommitUpdate,
                      CommitAddVideo, CommitDeleteEntry, entry
  <2>3. ASSUME NEW c \in Clients, CommitAddJudge(c)
        PROVE  FALSE
    <3>1. invite[req[c].judge].link = "none" /\ req[c].judge \in Judges
      BY <2>0, <2>3 DEF CommitAddJudge, InviteInv, Shaped, Shape
    <3>2. QED
      BY <1>1, <2>0, <2>3, <3>1 DEF CommitAddJudge, InviteInv, TypeOK
  <2>4. ASSUME NEW c \in Clients, CommitRotate(c)
        PROVE  req[c].kind = "rotate" /\ req[c].judge = j /\ req[c].revoked
    <3>1. invite[j] \in Invite /\ req[c].revoked \in BOOLEAN
      BY <1>1, <2>0 DEF TypeOK, Request
    <3>2. QED
      BY <1>1, <2>0, <2>4, <3>1 DEF CommitRotate, TypeOK, Invite
  <2>5. ASSUME NEW c \in Clients, CommitRevoke(c)
        PROVE  FALSE
    BY <1>1, <2>0, <2>5 DEF CommitRevoke, TypeOK, Invite
  <2>6. ASSUME NEW i \in Judges, Expire(i)
        PROVE  FALSE
    BY <1>1, <2>0, <2>6 DEF Expire, TypeOK, Invite
  <2>7. QED
    BY <1>1, <2>1, <2>2, <2>3, <2>4, <2>5, <2>6
<1>2. IInv /\ [Next]_vars =>
        \A j \in Judges :
          invite[j].revoked /\ ~invite'[j].revoked /\ status' # "gone"
            => \E c \in Clients : req[c].kind = "rotate" /\ req[c].judge = j /\ req[c].revoked
  BY <1>1
<1>3. QED
  BY <1>2, Inductive, PTL DEF Spec, RevocationHolds

-----------------------------------------------------------------------------
(* The limit on requests with a judge's link: it holds, and nobody is      *)
(* refused but for their own requests, for any number of clients, tokens   *)
(* and processes, any limits and any window.                               *)

LEMMA LimiterSize ==
  ASSUME NEW S
  PROVE  Limiter!Cardinality(S) = Cardinality(S)
BY DEF Limiter!Cardinality, Cardinality

\* The limits are counts (a setting, and two constants of the code).
LimitCounts == ClickLimit \in Nat /\ Limit \in Nat /\ Window \in Nat /\ MaxTime \in Nat

\* What a bucket knows of the requests let in: those it has dropped are too old
\* to count, and limit requests in a row are spread over more than a window.
Agrees(times, bucket, limit, t) ==
  LET gone == Len(times) - Len(bucket)
  IN
  /\ \A i, j \in 1 .. Len(times) : i <= j => times[i] <= times[j]
  /\ gone >= 0
  /\ Len(bucket) <= limit
  /\ \A i \in 1 .. Len(bucket) : bucket[i] = times[gone + i]
  /\ \A i \in 1 .. gone : t - times[i] > Window
  /\ \A i \in 1 .. Len(times) : i > limit => times[i] - times[i - limit] > Window

BucketOK(s, k) == Agrees(admitted[s][k], buckets[s][k], Limiter!LimitOf(k), now)

LimiterInv ==
  /\ Limiter!TypeOK
  /\ \A s \in Servers, k \in Limiter!Keys : BucketOK(s, k)
  /\ Limiter!RefusedForCause

-----------------------------------------------------------------------------
(* Sequences of times.                                                     *)

LEMMA Least ==
  ASSUME NEW T \in SUBSET Nat, T # {}
  PROVE  \E m \in T : \A n \in T : m <= n
<1> DEFINE R == {p \in Nat \X Nat : p[1] < p[2]}
<1>1. R = OpToRel(<, Nat)
  BY DEF OpToRel
<1>2. IsWellFoundedOn(R, Nat)
  BY <1>1, NatLessThanWellFounded DEF OpToRel
<1>3. \A a, b \in Nat : a < b => <<a, b>> \in R
  OBVIOUS
<1> HIDE DEF R
<1>4. PICK m \in T : \A n \in T : ~ (<<n, m>> \in R)
  BY <1>2, WFMin
<1>5. ASSUME NEW n \in T
      PROVE  m <= n
  <2>1. m \in Nat /\ n \in Nat
    OBVIOUS
  <2>2. ~ (n < m)
    BY <1>3, <1>4, <2>1
  <2>3. QED
    BY <2>1, <2>2
<1>6. QED
  BY <1>5

\* The loop of check_judge_rate_limit stops.
LEMMA LoopStops ==
  ASSUME Window \in Nat, NEW t \in Nat, NEW bucket \in Seq(Nat)
  PROVE  \E n \in 0 .. Len(bucket) :
           /\ \A i \in 1 .. n : t - bucket[i] > Window
           /\ n < Len(bucket) => t - bucket[n + 1] <= Window
<1>0. Len(bucket) \in Nat /\ \A i \in 1 .. Len(bucket) : bucket[i] \in Nat
  BY LenProperties, ElementOfSeq
<1> DEFINE T == {i \in 1 .. Len(bucket) : t - bucket[i] <= Window}
<1>1. CASE T = {}
  <2>1. \A i \in 1 .. Len(bucket) : t - bucket[i] > Window
    BY <1>0, <1>1
  <2>2. QED
    BY <1>0, <2>1
<1>2. CASE T # {}
  <2>1. T \in SUBSET Nat
    BY <1>0
  <2>2. PICK m \in T : \A n \in T : m <= n
    BY <1>2, <2>1, Least
  <2>3. m \in 1 .. Len(bucket) /\ t - bucket[m] <= Window
    OBVIOUS
  <2>4. ASSUME NEW i \in 1 .. m - 1
        PROVE  t - bucket[i] > Window
    <3>1. i \in 1 .. Len(bucket) /\ ~ (m <= i)
      BY <1>0, <2>3
    <3>2. i \notin T /\ bucket[i] \in Nat
      BY <1>0, <2>2, <3>1
    <3>3. QED
      BY <3>1, <3>2
  <2>5. m - 1 \in 0 .. Len(bucket) /\ (m - 1) + 1 = m
    BY <1>0, <2>3
  <2>6. QED
    BY <2>3, <2>4, <2>5
<1>3. QED
  BY <1>1, <1>2

LEMMA Purged ==
  ASSUME Window \in Nat, NEW t \in Nat, NEW bucket \in Seq(0 .. t)
  PROVE  /\ Limiter!Recent(bucket, t) \in Seq(0 .. t)
         /\ \E n \in 0 .. Len(bucket) :
              /\ Len(Limiter!Recent(bucket, t)) = Len(bucket) - n
              /\ \A i \in 1 .. Len(bucket) - n : Limiter!Recent(bucket, t)[i] = bucket[n + i]
              /\ \A i \in 1 .. n : t - bucket[i] > Window
              /\ n < Len(bucket) => t - Limiter!Recent(bucket, t)[1] <= Window
<1>0. Len(bucket) \in Nat /\ \A i \in 1 .. Len(bucket) : bucket[i] \in 0 .. t
  BY LenProperties, ElementOfSeq
<1>1. bucket \in Seq(Nat)
  BY SeqMonotonic
<1>2. PICK n \in 0 .. Len(bucket) :
        /\ n = Limiter!Popped(bucket, t)
        /\ \A i \in 1 .. n : t - bucket[i] > Window
        /\ n < Len(bucket) => t - bucket[n + 1] <= Window
  BY <1>1, LoopStops DEF Limiter!Popped
<1>3. Limiter!Recent(bucket, t) = SubSeq(bucket, n + 1, Len(bucket))
  BY <1>2 DEF Limiter!Recent
<1> DEFINE r == SubSeq(bucket, n + 1, Len(bucket))
<1>4. /\ r \in Seq(0 .. t)
      /\ Len(r) = IF n + 1 <= Len(bucket) THEN Len(bucket) - (n + 1) + 1 ELSE 0
      /\ \A i \in 1 .. Len(bucket) - (n + 1) + 1 : r[i] = bucket[(n + 1) + i - 1]
  <2>1. \A i \in n + 1 .. Len(bucket) : bucket[i] \in 0 .. t
    BY <1>0
  <2>2. n + 1 \in Int /\ Len(bucket) \in Int
    BY <1>0
  <2>3. QED
    BY <2>1, <2>2, SubSeqProperties
<1> HIDE DEF r
<1>5. /\ Len(r) = Len(bucket) - n
      /\ \A i \in 1 .. Len(bucket) - n : r[i] = bucket[n + i]
  BY <1>0, <1>4
<1>6. n < Len(bucket) => t - r[1] <= Window
  BY <1>0, <1>2, <1>5
<1>7. QED
  BY <1>2, <1>3, <1>4, <1>5, <1>6 DEF r

\* A purge drops only what no longer counts.
LEMMA PurgeAgrees ==
  ASSUME Window \in Nat, NEW t \in Nat, NEW limit \in Nat, NEW times \in Seq(0 .. t),
         NEW bucket \in Seq(0 .. t), Agrees(times, bucket, limit, t)
  PROVE  Agrees(times, Limiter!Recent(bucket, t), limit, t)
<1> DEFINE r == Limiter!Recent(bucket, t)
<1>0. /\ Len(times) \in Nat /\ Len(bucket) \in Nat
      /\ \A i \in 1 .. Len(times) : times[i] \in 0 .. t
  BY LenProperties, ElementOfSeq
<1>1. PICK n \in 0 .. Len(bucket) :
        /\ Len(r) = Len(bucket) - n
        /\ \A i \in 1 .. Len(bucket) - n : r[i] = bucket[n + i]
        /\ \A i \in 1 .. n : t - bucket[i] > Window
  BY Purged
<1> HIDE DEF r
<1> DEFINE gone == Len(times) - Len(bucket)
<1>2. /\ gone \in Nat /\ Len(bucket) <= limit
      /\ \A i \in 1 .. Len(bucket) : bucket[i] = times[gone + i]
      /\ \A i \in 1 .. gone : t - times[i] > Window
  BY <1>0 DEF Agrees
<1>3. Len(times) - Len(r) = gone + n
  BY <1>0, <1>1
<1>4. \A i \in 1 .. Len(r) : r[i] = times[(gone + n) + i]
  <2> SUFFICES ASSUME NEW i \in 1 .. Len(bucket) - n
               PROVE  r[i] = times[(gone + n) + i]
    BY <1>1
  <2>1. n + i \in 1 .. Len(bucket) /\ gone + (n + i) = (gone + n) + i
    BY <1>0, <1>2
  <2>2. QED
    BY <1>1, <1>2, <2>1
<1>5. ASSUME NEW i \in 1 .. gone + n
      PROVE  t - times[i] > Window
  <2>1. CASE i <= gone
    BY <1>2, <2>1
  <2>2. CASE i > gone
    <3>1. i - gone \in 1 .. n /\ i - gone \in 1 .. Len(bucket) /\ gone + (i - gone) = i
      BY <1>0, <1>2, <2>2, SMTT(30)
    <3>2. bucket[i - gone] = times[i]
      BY <1>2, <3>1
    <3>3. QED
      BY <1>1, <3>1, <3>2
  <2>3. QED
    BY <1>2, <2>1, <2>2
<1> HIDE DEF gone
<1>6. gone + n >= 0 /\ Len(r) <= limit
  BY <1>0, <1>1, <1>2
<1>7. Agrees(times, r, limit, t)
  BY <1>3, <1>4, <1>5, <1>6 DEF Agrees
<1>8. QED
  BY <1>7 DEF r

\* One more is let in while there is room.
LEMMA AdmitAgrees ==
  ASSUME Window \in Nat, NEW t \in Nat, NEW limit \in Nat, NEW times \in Seq(0 .. t),
         NEW bucket \in Seq(0 .. t), Agrees(times, bucket, limit, t), Len(bucket) < limit
  PROVE  Agrees(Append(times, t), Append(bucket, t), limit, t)
<1> DEFINE times2 == Append(times, t)
           bucket2 == Append(bucket, t)
           gone == Len(times) - Len(bucket)
<1>0. /\ Len(times) \in Nat /\ Len(bucket) \in Nat
      /\ \A i \in 1 .. Len(times) : times[i] \in 0 .. t
  BY LenProperties, ElementOfSeq
<1>1. /\ Len(times2) = Len(times) + 1 /\ times2[Len(times) + 1] = t
      /\ \A i \in 1 .. Len(times) : times2[i] = times[i]
      /\ Len(bucket2) = Len(bucket) + 1 /\ bucket2[Len(bucket) + 1] = t
      /\ \A i \in 1 .. Len(bucket) : bucket2[i] = bucket[i]
  <2>1. t \in 0 .. t
    OBVIOUS
  <2>2. QED
    BY <2>1, AppendProperties
<1> HIDE DEF times2, bucket2
<1>2. /\ \A i, j \in 1 .. Len(times) : i <= j => times[i] <= times[j]
      /\ gone \in Nat /\ Len(bucket) <= limit
      /\ \A i \in 1 .. Len(bucket) : bucket[i] = times[gone + i]
      /\ \A i \in 1 .. gone : t - times[i] > Window
      /\ \A i \in 1 .. Len(times) : i > limit => times[i] - times[i - limit] > Window
  BY <1>0 DEF Agrees
<1>3. Len(times2) - Len(bucket2) = gone
  BY <1>0, <1>1
<1>4. ASSUME NEW i \in 1 .. Len(times) + 1, NEW j \in 1 .. Len(times) + 1, i <= j
      PROVE  times2[i] <= times2[j]
  <2>1. CASE j = Len(times) + 1
    <3>1. CASE i = j
      BY <1>0, <1>1, <2>1, <3>1
    <3>2. CASE i # j
      <4>1. i \in 1 .. Len(times)
        BY <1>0, <1>4, <2>1, <3>2
      <4>2. times2[i] \in 0 .. t /\ times2[j] = t
        BY <1>0, <1>1, <2>1, <4>1
      <4>3. QED
        BY <4>2
    <3>3. QED
      BY <3>1, <3>2
  <2>2. CASE j # Len(times) + 1
    <3>1. i \in 1 .. Len(times) /\ j \in 1 .. Len(times)
      BY <1>0, <1>4, <2>2
    <3>2. QED
      BY <1>1, <1>2, <1>4, <3>1
  <2>3. QED
    BY <2>1, <2>2
<1>5. ASSUME NEW i \in 1 .. Len(bucket) + 1
      PROVE  bucket2[i] = times2[gone + i]
  <2>1. CASE i = Len(bucket) + 1
    BY <1>0, <1>1, <2>1
  <2>2. CASE i # Len(bucket) + 1
    <3>1. i \in 1 .. Len(bucket) /\ gone + i \in 1 .. Len(times)
      BY <1>0, <1>2, <2>2
    <3>2. QED
      BY <1>1, <1>2, <3>1
  <2>3. QED
    BY <2>1, <2>2
<1>6. \A i \in 1 .. gone : t - times2[i] > Window
  <2> SUFFICES ASSUME NEW i \in 1 .. gone
               PROVE  t - times2[i] > Window
    OBVIOUS
  <2>1. i \in 1 .. Len(times)
    BY <1>0
  <2>2. QED
    BY <1>1, <1>2, <2>1
<1>7. ASSUME NEW i \in 1 .. Len(times) + 1, i > limit
      PROVE  times2[i] - times2[i - limit] > Window
  <2>1. CASE i = Len(times) + 1
    <3>1. i - limit \in 1 .. gone /\ i - limit \in 1 .. Len(times)
      BY <1>0, <1>2, <1>7, <2>1
    <3>2. QED
      BY <1>1, <1>2, <2>1, <3>1
  <2>2. CASE i # Len(times) + 1
    <3>1. i \in 1 .. Len(times) /\ i - limit \in 1 .. Len(times)
      BY <1>0, <1>7, <2>2, SMTT(30)
    <3>2. QED
      BY <1>1, <1>2, <1>7, <3>1
  <2>3. QED
    BY <2>1, <2>2
<1> HIDE DEF gone
<1>8. gone >= 0 /\ Len(bucket2) <= limit
  BY <1>0, <1>1, <1>2
<1>9. Agrees(times2, bucket2, limit, t)
  BY <1>1, <1>3, <1>4, <1>5, <1>6, <1>7, <1>8 DEF Agrees
<1>10. QED
  BY <1>9 DEF times2, bucket2

\* What is too old stays too old.
LEMMA LaterAgrees ==
  ASSUME Window \in Nat, NEW t \in Nat, NEW limit \in Nat, NEW times \in Seq(0 .. t),
         NEW bucket \in Seq(0 .. t), Agrees(times, bucket, limit, t)
  PROVE  Agrees(times, bucket, limit, t + 1)
<1>1. /\ Len(times) \in Nat /\ Len(bucket) \in Nat
      /\ \A i \in 1 .. Len(times) : times[i] \in 0 .. t
  BY LenProperties, ElementOfSeq
<1>2. \A i \in 1 .. Len(times) - Len(bucket) : t + 1 - times[i] > Window
  <2> SUFFICES ASSUME NEW i \in 1 .. Len(times) - Len(bucket)
               PROVE  t + 1 - times[i] > Window
    OBVIOUS
  <2>1. i \in 1 .. Len(times) /\ t - times[i] > Window
    BY <1>1 DEF Agrees
  <2>2. QED
    BY <1>1, <2>1
<1>3. QED
  BY <1>2, SMTT(30) DEF Agrees

\* Every window holds at most the limit, wherever it starts.
LEMMA WithinLimit ==
  ASSUME Window \in Nat, NEW t \in Nat, NEW limit \in Nat, NEW times \in Seq(0 .. t),
         NEW bucket, Agrees(times, bucket, limit, t), NEW from \in Nat
  PROVE  Cardinality(Limiter!Within(times, from)) <= limit
<1> DEFINE T == Limiter!Within(times, from)
<1>0. /\ Len(times) \in Nat /\ DOMAIN times = 1 .. Len(times)
      /\ \A i \in 1 .. Len(times) : times[i] \in 0 .. t
  BY LenProperties, ElementOfSeq
<1>1. T = {i \in 1 .. Len(times) : from <= times[i] /\ times[i] <= from + Window}
  BY <1>0 DEF Limiter!Within
<1> HIDE DEF T
<1>2. CASE T = {}
  BY <1>2, FS_EmptySet DEF T
<1>3. CASE T # {}
  <2>1. T \in SUBSET Nat
    BY <1>0, <1>1
  <2>2. PICK m \in T : \A n \in T : m <= n
    BY <1>3, <2>1, Least
  <2>3. m \in 1 .. Len(times) /\ from <= times[m]
    BY <1>1
  <2>4. ASSUME NEW n \in T
        PROVE  n \in m .. m + limit - 1
    <3>1. n \in 1 .. Len(times) /\ m <= n /\ times[n] <= from + Window
      BY <1>1, <2>2
    <3>2. CASE n >= m + limit
      <4>1. n - limit \in 1 .. Len(times) /\ m <= n - limit /\ (n > limit)
        BY <1>0, <2>3, <3>1, <3>2
      <4>2. times[n] - times[n - limit] > Window
        BY <3>1, <4>1 DEF Agrees
      <4>3. times[m] <= times[n - limit]
        BY <2>3, <4>1 DEF Agrees
      <4>4. PICK a \in Nat, b \in Nat, c \in Nat :
              a = times[m] /\ b = times[n - limit] /\ c = times[n]
        BY <1>0, <2>3, <3>1, <4>1
      <4>5. from <= a /\ a <= b /\ c - b > Window /\ c <= from + Window
        BY <2>3, <3>1, <4>2, <4>3, <4>4
      <4>6. FALSE
        BY <4>5
      <4>7. QED
        BY <4>6
    <3>3. CASE ~ (n >= m + limit)
      BY <1>0, <2>3, <3>1, <3>3
    <3>4. QED
      BY <3>2, <3>3
  <2>5. m \in Int /\ m + limit - 1 \in Int
    BY <2>3
  <2>6. IsFiniteSet(m .. m + limit - 1) /\ Cardinality(m .. m + limit - 1) = limit
    <3>1. /\ IsFiniteSet(m .. m + limit - 1)
          /\ Cardinality(m .. m + limit - 1)
               = IF m > m + limit - 1 THEN 0 ELSE (m + limit - 1) - m + 1
      BY <2>5, FS_Interval
    <3>2. (IF m > m + limit - 1 THEN 0 ELSE (m + limit - 1) - m + 1) = limit
      BY <2>5
    <3>3. QED
      BY <3>1, <3>2
  <2>7. T \subseteq m .. m + limit - 1
    BY <2>4
  <2>8. Cardinality(T) <= Cardinality(m .. m + limit - 1)
    BY <2>6, <2>7, FS_Subset
  <2>9. QED
    BY <2>6, <2>8 DEF T
<1>4. QED
  BY <1>2, <1>3

\* A full bucket holds the requests of the last window, all of them and no other.
LEMMA FullBucket ==
  ASSUME Window \in Nat, NEW t \in Nat, NEW limit \in Nat, NEW times \in Seq(0 .. t),
         NEW bucket \in Seq(0 .. t), Agrees(times, bucket, limit, t), Len(bucket) >= limit,
         Len(bucket) > 0 => t - bucket[1] <= Window
  PROVE  Cardinality({i \in DOMAIN times : t - times[i] <= Window}) = limit
<1> DEFINE gone == Len(times) - limit
           T == {i \in DOMAIN times : t - times[i] <= Window}
<1>0. /\ Len(times) \in Nat /\ DOMAIN times = 1 .. Len(times)
      /\ \A i \in 1 .. Len(times) : times[i] \in 0 .. t
  BY LenProperties, ElementOfSeq
<1>1. Len(bucket) = limit /\ gone \in Nat
  <2>1. Len(bucket) \in Nat
    BY LenProperties
  <2>2. QED
    BY <1>0, <2>1 DEF Agrees
<1>2. /\ \A i \in 1 .. limit : bucket[i] = times[gone + i]
      /\ \A i \in 1 .. gone : t - times[i] > Window
      /\ \A i, j \in 1 .. Len(times) : i <= j => times[i] <= times[j]
  BY <1>1 DEF Agrees
<1>3. ASSUME NEW i \in 1 .. Len(times)
      PROVE  t - times[i] <= Window <=> i >= gone + 1
  <2>1. CASE i >= gone + 1
    <3>1. gone + 1 \in 1 .. Len(times) /\ 1 \in 1 .. limit /\ limit > 0
      BY <1>0, <1>1, <2>1
    <3>2. t - times[gone + 1] <= Window
      BY <1>1, <1>2, <3>1
    <3>3. times[gone + 1] <= times[i]
      BY <1>2, <2>1, <3>1
    <3>4. PICK a \in Nat, b \in Nat : a = times[gone + 1] /\ b = times[i]
      BY <1>0, <3>1
    <3>a. t - a <= Window /\ a <= b
      BY ONLY <3>2, <3>3, <3>4
    <3>5. t - b <= Window
      BY ONLY <3>a, Window \in Nat, t \in Nat, a \in Nat, b \in Nat
    <3>6. QED
      BY <2>1, <3>4, <3>5
  <2>2. CASE ~ (i >= gone + 1)
    <3>1. i \in 1 .. gone
      BY <1>0, <1>1, <2>2
    <3>2. t - times[i] > Window /\ times[i] \in Nat
      BY <1>0, <1>2, <3>1
    <3>3. QED
      BY <2>2, <3>2
  <2>3. QED
    BY <2>1, <2>2
<1>4. T = gone + 1 .. Len(times)
  <2>1. \A i \in gone + 1 .. Len(times) : i \in 1 .. Len(times)
    BY <1>0, <1>1
  <2>2. \A i \in 1 .. Len(times) : i >= gone + 1 => i \in gone + 1 .. Len(times)
    BY <1>0, <1>1
  <2> HIDE DEF gone
  <2>3. T = {i \in 1 .. Len(times) : t - times[i] <= Window}
    BY <1>0
  <2>4. T = {i \in 1 .. Len(times) : i >= gone + 1}
    BY <1>3, <2>3
  <2>5. \A i \in gone + 1 .. Len(times) : i >= gone + 1
    BY <1>0, <1>1
  <2>6. QED
    BY <2>1, <2>2, <2>4, <2>5
<1>5. Cardinality(gone + 1 .. Len(times)) = limit
  <2>1. Cardinality(gone + 1 .. Len(times))
          = IF gone + 1 > Len(times) THEN 0 ELSE Len(times) - (gone + 1) + 1
    <3> HIDE DEF gone
    <3>1. gone + 1 \in Int /\ Len(times) \in Int
      BY <1>0, <1>1
    <3>2. QED
      BY <3>1, FS_Interval
  <2>2. (IF gone + 1 > Len(times) THEN 0 ELSE Len(times) - (gone + 1) + 1) = limit
    BY <1>0, <1>1
  <2>3. QED
    BY <2>1, <2>2
<1> HIDE DEF gone, T
<1>6. Cardinality(T) = limit
  BY <1>4, <1>5
<1>7. QED
  BY <1>6 DEF T

-----------------------------------------------------------------------------
(* The steps.                                                              *)

LEMMA LimitsAreCounts ==
  ASSUME LimitCounts, NEW k \in Limiter!Keys
  PROVE  Limiter!LimitOf(k) \in Nat
BY DEF Limiter!LimitOf, LimitCounts

LEMMA LimiterBegins ==
  ASSUME LimitCounts, Limiter!Init
  PROVE  LimiterInv
<1>1. now = 0 /\ refusal = <<>>
      /\ \A s \in Servers, k \in Limiter!Keys : buckets[s][k] = <<>> /\ admitted[s][k] = <<>>
  BY DEF Limiter!Init, Limiter!Empty
<1>2. Limiter!TypeOK
  <2>1. <<>> \in Seq(0 .. now)
    OBVIOUS
  <2>2. Limiter!Empty \in [Limiter!Keys -> Seq(0 .. now)]
    BY <2>1 DEF Limiter!Empty
  <2>3. QED
    BY <1>1, <2>2 DEF Limiter!TypeOK, Limiter!Init, LimitCounts
<1>3. ASSUME NEW s \in Servers, NEW k \in Limiter!Keys
      PROVE  BucketOK(s, k)
  <2>1. Limiter!LimitOf(k) \in Nat
    BY LimitsAreCounts
  <2>2. Len(<<>>) = 0
    OBVIOUS
  <2>3. Agrees(<<>>, <<>>, Limiter!LimitOf(k), now)
    BY <2>1, <2>2 DEF Agrees
  <2>4. QED
    BY <1>1, <2>3 DEF BucketOK
<1>4. Limiter!RefusedForCause
  BY <1>1 DEF Limiter!RefusedForCause
<1>5. QED
  BY <1>2, <1>3, <1>4 DEF LimiterInv

\* What a request finds: its bucket, purged.
LEMMA RequestFinds ==
  ASSUME LimitCounts, LimiterInv, NEW s \in Servers, NEW key \in Limiter!Keys
  PROVE  /\ now \in Nat /\ Limiter!LimitOf(key) \in Nat
         /\ admitted[s][key] \in Seq(0 .. now)
         /\ Limiter!Recent(buckets[s][key], now) \in Seq(0 .. now)
         /\ Agrees(admitted[s][key], Limiter!Recent(buckets[s][key], now), Limiter!LimitOf(key), now)
         /\ Len(Limiter!Recent(buckets[s][key], now)) > 0
              => now - Limiter!Recent(buckets[s][key], now)[1] <= Window
<1>1. now \in Nat /\ Limiter!LimitOf(key) \in Nat /\ Window \in Nat
  BY LimitsAreCounts DEF LimiterInv, Limiter!TypeOK, LimitCounts
<1>2. buckets[s] \in [Limiter!Keys -> Seq(0 .. now)] /\ admitted[s] \in [Limiter!Keys -> Seq(0 .. now)]
  BY DEF LimiterInv, Limiter!TypeOK
<1>3. buckets[s][key] \in Seq(0 .. now) /\ admitted[s][key] \in Seq(0 .. now)
  BY <1>2
<1>4. Agrees(admitted[s][key], buckets[s][key], Limiter!LimitOf(key), now)
  BY DEF LimiterInv, BucketOK
<1>5. Agrees(admitted[s][key], Limiter!Recent(buckets[s][key], now), Limiter!LimitOf(key), now)
  BY <1>1, <1>3, <1>4, PurgeAgrees
<1> DEFINE b == buckets[s][key]
           r == Limiter!Recent(buckets[s][key], now)
<1>6. /\ r \in Seq(0 .. now)
      /\ \E n \in 0 .. Len(b) :
           /\ Len(r) = Len(b) - n
           /\ n < Len(b) => now - r[1] <= Window
  BY <1>1, <1>3, Purged
<1>7. Len(b) \in Nat
  BY <1>3, LenProperties
<1>8. Len(r) > 0 => now - r[1] <= Window
  <2> HIDE DEF b, r
  <2> QED BY <1>6, <1>7
<1>9. QED
  BY <1>1, <1>3, <1>5, <1>6, <1>8

LEMMA RequestKeeps ==
  ASSUME LimitCounts, LimiterInv, NEW s \in Servers, NEW key \in Limiter!Keys, Limiter!Request(s, key)
  PROVE  LimiterInv'
<1> DEFINE r == Limiter!Recent(buckets[s][key], now)
<1>1. /\ now \in Nat /\ Limiter!LimitOf(key) \in Nat /\ Window \in Nat
      /\ admitted[s][key] \in Seq(0 .. now) /\ r \in Seq(0 .. now)
      /\ Agrees(admitted[s][key], r, Limiter!LimitOf(key), now)
      /\ Len(r) > 0 => now - r[1] <= Window
  BY RequestFinds DEF LimitCounts
<1>2. /\ buckets \in [Servers -> [Limiter!Keys -> Seq(0 .. now)]]
      /\ admitted \in [Servers -> [Limiter!Keys -> Seq(0 .. now)]]
      /\ now \in 0 .. MaxTime /\ refusal \in {<<>>} \cup (Servers \X Limiter!Keys)
  BY DEF LimiterInv, Limiter!TypeOK
<1>3. \A p \in Servers, k \in Limiter!Keys : Agrees(admitted[p][k], buckets[p][k], Limiter!LimitOf(k), now)
  BY DEF LimiterInv, BucketOK
<1>4. CASE Len(r) >= Limiter!LimitOf(key)
  <2>1. /\ buckets' = [buckets EXCEPT ![s][key] = r]
        /\ refusal' = <<s, key>> /\ now' = now /\ admitted' = admitted
    BY <1>4 DEF Limiter!Request
  <2> HIDE DEF r
  <2>2. Limiter!TypeOK'
    BY <1>1, <1>2, <2>1 DEF Limiter!TypeOK
  <2>3. ASSUME NEW p \in Servers, NEW k \in Limiter!Keys
        PROVE  BucketOK(p, k)'
    <3>1. CASE p = s /\ k = key
      <4>1. buckets'[p][k] = r
        BY <1>2, <2>1, <3>1
      <4>2. QED
        BY <1>1, <2>1, <3>1, <4>1 DEF BucketOK
    <3>2. CASE ~ (p = s /\ k = key)
      <4>1. buckets'[p][k] = buckets[p][k]
        BY <1>2, <2>1, <3>2
      <4>2. QED
        BY <1>3, <2>1, <4>1 DEF BucketOK
    <3>3. QED
      BY <3>1, <3>2
  <2>4. Limiter!RefusedForCause'
    <3> DEFINE T == {i \in DOMAIN admitted[s][key] : now - admitted[s][key][i] <= Window}
    <3>1. Limiter!Cardinality(T) = Limiter!LimitOf(key)
      <4>1. Cardinality(T) = Limiter!LimitOf(key)
        BY <1>1, <1>4, FullBucket
      <4>2. QED
        BY <4>1, LimiterSize
    <3>2. refusal'[1] = s /\ refusal'[2] = key
      BY <2>1
    <3>3. QED
      BY <2>1, <3>1, <3>2 DEF Limiter!RefusedForCause
  <2>5. QED
    BY <2>2, <2>3, <2>4 DEF LimiterInv
<1>5. CASE ~ (Len(r) >= Limiter!LimitOf(key))
  <2>1. /\ buckets' = [buckets EXCEPT ![s][key] = Append(r, now)]
        /\ admitted' = [admitted EXCEPT ![s][key] = Append(admitted[s][key], now)]
        /\ refusal' = <<>> /\ now' = now
    BY <1>5 DEF Limiter!Request
  <2> HIDE DEF r
  <2>2. now \in 0 .. now /\ Len(r) \in Nat
    BY <1>1, LenProperties
  <2>3. Append(r, now) \in Seq(0 .. now) /\ Append(admitted[s][key], now) \in Seq(0 .. now)
    BY <1>1, <2>2, AppendProperties
  <2>4. Limiter!TypeOK'
    BY <1>2, <2>1, <2>3 DEF Limiter!TypeOK
  <2>5. Agrees(Append(admitted[s][key], now), Append(r, now), Limiter!LimitOf(key), now)
    <3>1. Len(r) < Limiter!LimitOf(key)
      BY <1>1, <1>5, <2>2
    <3>2. QED
      BY <1>1, <3>1, AdmitAgrees
  <2>6. ASSUME NEW p \in Servers, NEW k \in Limiter!Keys
        PROVE  BucketOK(p, k)'
    <3>1. CASE p = s /\ k = key
      <4>1. buckets'[p][k] = Append(r, now) /\ admitted'[p][k] = Append(admitted[s][key], now)
        BY <1>2, <2>1, <3>1
      <4>2. QED
        BY <2>1, <2>5, <3>1, <4>1 DEF BucketOK
    <3>2. CASE ~ (p = s /\ k = key)
      <4>1. buckets'[p][k] = buckets[p][k] /\ admitted'[p][k] = admitted[p][k]
        BY <1>2, <2>1, <3>2
      <4>2. QED
        BY <1>3, <2>1, <4>1 DEF BucketOK
    <3>3. QED
      BY <3>1, <3>2
  <2>7. Limiter!RefusedForCause'
    BY <2>1 DEF Limiter!RefusedForCause
  <2>8. QED
    BY <2>4, <2>6, <2>7 DEF LimiterInv
<1>6. QED
  BY <1>4, <1>5

LEMMA TickKeeps ==
  ASSUME LimitCounts, LimiterInv, Limiter!Tick
  PROVE  LimiterInv'
<1>1. /\ now \in Nat /\ now < MaxTime /\ now' = now + 1 /\ refusal' = <<>>
      /\ buckets' = buckets /\ admitted' = admitted
  BY DEF LimiterInv, Limiter!TypeOK, Limiter!Tick, LimitCounts
<1>2. /\ buckets \in [Servers -> [Limiter!Keys -> Seq(0 .. now)]]
      /\ admitted \in [Servers -> [Limiter!Keys -> Seq(0 .. now)]]
  BY DEF LimiterInv, Limiter!TypeOK
<1>3. Seq(0 .. now) \subseteq Seq(0 .. now + 1)
  <2>1. 0 .. now \subseteq 0 .. now + 1
    BY <1>1
  <2>2. QED
    BY <2>1, SeqMonotonic
<1>4. Limiter!TypeOK'
  <2>1. now' \in 0 .. MaxTime
    BY <1>1 DEF LimitCounts
  <2>2. [Limiter!Keys -> Seq(0 .. now)] \subseteq [Limiter!Keys -> Seq(0 .. now + 1)]
    BY <1>3
  <2>3. /\ buckets \in [Servers -> [Limiter!Keys -> Seq(0 .. now + 1)]]
        /\ admitted \in [Servers -> [Limiter!Keys -> Seq(0 .. now + 1)]]
    BY <1>2, <2>2
  <2>4. QED
    BY <1>1, <2>1, <2>3 DEF Limiter!TypeOK
<1>5. ASSUME NEW p \in Servers, NEW k \in Limiter!Keys
      PROVE  BucketOK(p, k)'
  <2>1. buckets[p] \in [Limiter!Keys -> Seq(0 .. now)] /\ admitted[p] \in [Limiter!Keys -> Seq(0 .. now)]
    BY <1>2
  <2>2. buckets[p][k] \in Seq(0 .. now) /\ admitted[p][k] \in Seq(0 .. now)
    BY <2>1
  <2>3. Limiter!LimitOf(k) \in Nat /\ Window \in Nat
    BY LimitsAreCounts DEF LimitCounts
  <2>4. Agrees(admitted[p][k], buckets[p][k], Limiter!LimitOf(k), now)
    BY DEF LimiterInv, BucketOK
  <2>5. Agrees(admitted[p][k], buckets[p][k], Limiter!LimitOf(k), now + 1)
    BY <1>1, <2>2, <2>3, <2>4, LaterAgrees
  <2>6. QED
    BY <1>1, <2>5 DEF BucketOK
<1>6. Limiter!RefusedForCause'
  BY <1>1 DEF Limiter!RefusedForCause
<1>7. QED
  BY <1>4, <1>5, <1>6 DEF LimiterInv

LEMMA RestartKeeps ==
  ASSUME LimitCounts, LimiterInv, NEW s \in Servers, Limiter!Restart(s)
  PROVE  LimiterInv'
<1>1. /\ buckets' = [buckets EXCEPT ![s] = Limiter!Empty] /\ admitted' = [admitted EXCEPT ![s] = Limiter!Empty]
      /\ refusal' = <<>> /\ now' = now
  BY DEF Limiter!Restart
<1>2. /\ buckets \in [Servers -> [Limiter!Keys -> Seq(0 .. now)]]
      /\ admitted \in [Servers -> [Limiter!Keys -> Seq(0 .. now)]]
      /\ now \in 0 .. MaxTime
  BY DEF LimiterInv, Limiter!TypeOK
<1>3. Limiter!Empty \in [Limiter!Keys -> Seq(0 .. now)]
  <2>1. <<>> \in Seq(0 .. now)
    OBVIOUS
  <2>2. QED
    BY <2>1 DEF Limiter!Empty
<1>4. Limiter!TypeOK'
  BY <1>1, <1>2, <1>3 DEF Limiter!TypeOK
<1>5. ASSUME NEW p \in Servers, NEW k \in Limiter!Keys
      PROVE  BucketOK(p, k)'
  <2>1. CASE p = s
    <3>1. buckets'[p][k] = <<>> /\ admitted'[p][k] = <<>>
      BY <1>1, <1>2, <2>1 DEF Limiter!Empty
    <3>2. Limiter!LimitOf(k) \in Nat /\ Len(<<>>) = 0
      BY LimitsAreCounts
    <3>3. Agrees(<<>>, <<>>, Limiter!LimitOf(k), now)
      BY <3>2 DEF Agrees
    <3>4. QED
      BY <1>1, <3>1, <3>3 DEF BucketOK
  <2>2. CASE p # s
    <3>1. buckets'[p][k] = buckets[p][k] /\ admitted'[p][k] = admitted[p][k]
      BY <1>1, <1>2, <2>2
    <3>2. Agrees(admitted[p][k], buckets[p][k], Limiter!LimitOf(k), now)
      BY DEF LimiterInv, BucketOK
    <3>3. QED
      BY <1>1, <3>1, <3>2 DEF BucketOK
  <2>3. QED
    BY <2>1, <2>2
<1>6. Limiter!RefusedForCause'
  BY <1>1 DEF Limiter!RefusedForCause
<1>7. QED
  BY <1>4, <1>5, <1>6 DEF LimiterInv

LEMMA LimiterKeeps ==
  ASSUME LimitCounts, LimiterInv, [Limiter!Next]_(Limiter!vars)
  PROVE  LimiterInv'
<1>1. CASE UNCHANGED Limiter!vars
  <2>1. now' = now /\ buckets' = buckets /\ admitted' = admitted /\ refusal' = refusal
    BY <1>1 DEF Limiter!vars
  <2>2. Limiter!TypeOK' /\ Limiter!RefusedForCause'
    BY <2>1 DEF LimiterInv, Limiter!TypeOK, Limiter!RefusedForCause
  <2>3. \A s \in Servers, k \in Limiter!Keys : BucketOK(s, k)'
    BY <2>1 DEF LimiterInv, BucketOK
  <2>4. QED
    BY <2>2, <2>3 DEF LimiterInv
<1>2. ASSUME NEW s \in Servers, NEW k \in Limiter!Keys, Limiter!Request(s, k)
      PROVE  LimiterInv'
  BY <1>2, RequestKeeps
<1>3. CASE Limiter!Tick
  BY <1>3, TickKeeps
<1>4. ASSUME NEW s \in Servers, Limiter!Restart(s)
      PROVE  LimiterInv'
  BY <1>4, RestartKeeps
<1>5. QED
  BY <1>1, <1>2, <1>3, <1>4 DEF Limiter!Next

\* The invariant is what the property says.
LEMMA LimiterInvIsFair ==
  ASSUME LimitCounts, LimiterInv
  PROVE  Limiter!LimiterIsFair
<1>1. ASSUME NEW s \in Servers, NEW k \in Limiter!Keys, NEW t \in 0 .. now
      PROVE  Limiter!Cardinality(Limiter!Within(admitted[s][k], t)) <= Limiter!LimitOf(k)
  <2>1. now \in Nat /\ Limiter!LimitOf(k) \in Nat /\ Window \in Nat
    BY LimitsAreCounts DEF LimiterInv, Limiter!TypeOK, LimitCounts
  <2>2. buckets[s] \in [Limiter!Keys -> Seq(0 .. now)] /\ admitted[s] \in [Limiter!Keys -> Seq(0 .. now)]
    BY DEF LimiterInv, Limiter!TypeOK
  <2>3. buckets[s][k] \in Seq(0 .. now) /\ admitted[s][k] \in Seq(0 .. now)
    BY <2>2
  <2>4. Agrees(admitted[s][k], buckets[s][k], Limiter!LimitOf(k), now)
    BY DEF LimiterInv, BucketOK
  <2>5. t \in Nat
    BY <2>1
  <2>6. QED
    BY <2>1, <2>3, <2>4, <2>5, WithinLimit, LimiterSize
<1>2. Limiter!LimitHolds
  BY <1>1 DEF Limiter!LimitHolds
<1>3. QED
  BY <1>2 DEF LimiterInv, Limiter!LimiterIsFair

-----------------------------------------------------------------------------
(* The theorems.                                                           *)

\* The clock, the buckets and the history are of their types, and every bucket
\* agrees with the requests let in (_buckets of judge_rate_limit.py).
THEOREM BucketsAgree ==
  ASSUME LimitCounts
  PROVE  Limiter!Spec => []LimiterInv
<1>1. Limiter!Init => LimiterInv
  BY LimiterBegins
<1>2. LimiterInv /\ [Limiter!Next]_(Limiter!vars) => LimiterInv'
  BY LimiterKeeps
<1>3. QED
  BY <1>1, <1>2, PTL DEF Limiter!Spec

\* No window holds more requests of a client than its limit, and nobody is
\* refused but for a whole limit of their own requests in the last window
\* (check_judge_rate_limit).
THEOREM LimiterFair ==
  ASSUME LimitCounts
  PROVE  Limiter!Spec => []Limiter!LimiterIsFair
<1>1. LimiterInv => Limiter!LimiterIsFair
  BY LimiterInvIsFair
<1>2. QED
  BY <1>1, BucketsAgree, PTL
=============================================================================
