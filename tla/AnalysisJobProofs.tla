-------------------------- MODULE AnalysisJobProofs --------------------------
(***************************************************************************)
(* Theorems about AnalysisJob for every number of jobs, worker processes,  *)
(* stages, retries and faults: type correctness, cancellation, deletion,   *)
(* and how often a job can fail; and, for a broker that delivers each      *)
(* message once, one holder of a job, frozen submissions and the           *)
(* refinement of JobLifecycle.                                             *)
(***************************************************************************)
EXTENDS AnalysisJob, FiniteSetTheorems, TLAPS

-----------------------------------------------------------------------------
(* Type correctness.                                                       *)

LEMMA NullRecords ==
  NoRow \in Row /\ NewRow \in Row /\ Idle \in Run
<1>1. NoRow \in Row
  BY NumStagesAssumption DEF NoRow, Row, Status, Queued, Done
<1>2. NewRow \in Row
  BY <1>1 DEF NewRow, Row, Status
<1>3. Idle \in Run
  BY NumStagesAssumption, MaxRetriesAssumption DEF Idle, Run, PC
<1>4. QED
  BY <1>1, <1>2, <1>3

LEMMA Codes ==
  /\ Preprocessing \in Queued .. Done
  /\ Done \in Queued .. Done
  /\ \A k \in 1 .. NumStages : StageCode(k) \in Queued .. Done
<1>1. Preprocessing \in Queued .. Done
  BY NumStagesAssumption DEF Preprocessing, Queued, Done
<1>2. Done \in Queued .. Done
  BY NumStagesAssumption DEF Queued, Done
<1>3. ASSUME NEW k \in 1 .. NumStages
      PROVE  StageCode(k) \in Queued .. Done
  BY NumStagesAssumption DEF StageCode, Queued, Done
<1>4. QED
  BY <1>1, <1>2, <1>3

\* The record of a row, or of a run, after the updates the actions make.
LEMMA RowUpdates ==
  ASSUME TypeOK, NEW j \in Jobs, NEW s \in Status, NEW c \in Queued .. Done
  PROVE  /\ [row[j] EXCEPT !.status = s, !.stage = c] \in Row
         /\ [row[j] EXCEPT !.status = s, !.stage = c, !.results = "model"] \in Row
         /\ [row[j] EXCEPT !.status = s, !.retryCount = @ + 1] \in Row
         /\ [row[j] EXCEPT !.stage = c] \in Row
<1>1. row[j] \in Row
  BY DEF TypeOK
<1>2. row[j].retryCount + 1 \in Nat
  BY <1>1 DEF Row
<1>3. [row[j] EXCEPT !.status = s, !.retryCount = row[j].retryCount + 1] \in Row
  BY <1>1, <1>2 DEF Row
<1>4. QED
  BY <1>1, <1>3 DEF Row

LEMMA RunUpdates ==
  ASSUME TypeOK, NEW w \in Workers, NEW pc \in PC, NEW b \in BOOLEAN,
         NEW k \in 1 .. NumStages
  PROVE  /\ [run[w] EXCEPT !.pc = pc, !.cancelAtStart = b, !.cancelEvent = b] \in Run
         /\ [run[w] EXCEPT !.late = {}, !.pc = pc] \in Run
         /\ [run[w] EXCEPT !.late = @ \cup {run[w].at}, !.at = k, !.pc = pc] \in Run
         /\ [run[w] EXCEPT !.late = @ \ {k}] \in Run
<1>1. run[w] \in Run
  BY DEF TypeOK
<1>2. QED
  BY <1>1 DEF Run

LEMMA SetStatusType ==
  ASSUME TypeOK, NEW j \in Jobs, NEW s \in Status, SetStatus(j, s)
  PROVE  row' \in [Jobs -> Row]
<1>1. CASE Exists(j)
  <2>1. [row[j] EXCEPT !.status = s] \in Row
    BY ZenonT(60) DEF TypeOK, Row
  <2>2. row' = [row EXCEPT ![j] = [row[j] EXCEPT !.status = s]]
    BY <1>1 DEF SetStatus, TypeOK
  <2>3. QED
    BY <2>1, <2>2 DEF TypeOK
<1>2. CASE ~Exists(j)
  BY <1>2 DEF TypeOK, SetStatus
<1>3. QED
  BY <1>1, <1>2

LEMMA GotoType ==
  ASSUME TypeOK, NEW w \in Workers, NEW pc \in PC, Goto(w, pc)
  PROVE  run' \in [Workers -> Run]
  BY ZenonT(60) DEF TypeOK, Goto, Run

\* A copy of a message more, or one less.
LEMMA QueueType ==
  ASSUME TypeOK, NEW j \in Jobs, NEW r \in 0 .. MaxRetries
  PROVE  /\ [queue EXCEPT ![j][r] = @ + 1] \in [Jobs -> [0 .. MaxRetries -> Nat]]
         /\ queue[j][r] > 0 =>
              [queue EXCEPT ![j][r] = @ - 1] \in [Jobs -> [0 .. MaxRetries -> Nat]]
<1>1. queue[j][r] \in Nat
  BY DEF TypeOK
<1>2. [queue EXCEPT ![j][r] = @ + 1] \in [Jobs -> [0 .. MaxRetries -> Nat]]
  BY <1>1 DEF TypeOK
<1>3. ASSUME queue[j][r] > 0
      PROVE  [queue EXCEPT ![j][r] = @ - 1] \in [Jobs -> [0 .. MaxRetries -> Nat]]
  BY <1>1, <1>3 DEF TypeOK
<1>4. QED
  BY <1>2, <1>3

LEMMA UserType ==
  ASSUME TypeOK, NEW j \in Jobs, User(j)
  PROVE  TypeOK'
<1> USE NullRecords, MaxRetriesAssumption DEF TypeOK
<1>1. CASE Dispatch(j)
  BY <1>1 DEF Dispatch
<1>2. CASE AdmitCancel(j)
  BY <1>2 DEF AdmitCancel, Admit, Requests
<1>3. CASE AdmitDelete(j)
  BY <1>3 DEF AdmitDelete, Admit, Requests
<1>4. CASE RemoveVideo(j)
  BY <1>4 DEF RemoveVideo
<1>5. CASE AdmitEdit(j)
  BY <1>5 DEF AdmitEdit, Admit, Requests
<1>6. CASE AdmitSubmit(j)
  BY <1>6 DEF AdmitSubmit, Admit, Requests
<1>7. CASE AdmitReopen(j)
  BY <1>7 DEF AdmitReopen, Admit, Requests
<1>8. QED
  BY <1>1, <1>2, <1>3, <1>4, <1>5, <1>6, <1>7 DEF User

\* A request that commits a row of the right type.
LEMMA CommitType ==
  ASSUME TypeOK, NEW j \in Jobs, NEW kind, NEW new \in Row, Commit(j, kind, new)
  PROVE  TypeOK'
  BY DEF TypeOK, Commit

LEMMA ServerType ==
  ASSUME TypeOK, NEW j \in Jobs, Server(j)
  PROVE  TypeOK'
<1>0. row[j] \in Row /\ NoRow \in Row
  BY NullRecords DEF TypeOK
<1>1. CASE CommitCreate(j) \/ AbortCreate(j)
  BY <1>1, NullRecords DEF TypeOK, CommitCreate, AbortCreate
<1>2. CASE AbortRequest(j)
  BY <1>2 DEF TypeOK, AbortRequest
<1>3. /\ [row[j] EXCEPT !.cancelRequested = TRUE] \in Row
      /\ [row[j] EXCEPT !.results = "human"] \in Row
      /\ \A x \in {"draft", "submitted"} : [row[j] EXCEPT !.review = x] \in Row
  BY <1>0, ZenonT(60) DEF Row
<1>4. CASE \/ CommitCancel(j) \/ CommitDelete(j) \/ CommitEdit(j)
           \/ CommitSubmit(j) \/ CommitReopen(j)
  BY <1>0, <1>3, <1>4, CommitType
  DEF CommitCancel, CommitDelete, CommitEdit, CommitSubmit, CommitReopen
<1>5. QED
  BY <1>1, <1>2, <1>4 DEF Server

\* A busy worker has a job, which indexes the job's row; a retry that is about
\* to be published has a next retry header.
RunShape ==
  \A w \in Workers :
    /\ run[w].pc # "idle" => run[w].job \in Jobs
    /\ run[w].pc = "retry" => run[w].retries < MaxRetries

LEMMA TaskType ==
  ASSUME TypeOK, RunShape, NEW w \in Workers, Task(w)
  PROVE  TypeOK'
<1> USE DEF TypeOK
<1>1. CASE \E j \in Jobs, r \in 0 .. MaxRetries : Take(w, j, r)
  <2> SUFFICES ASSUME NEW j \in Jobs, NEW r \in 0 .. MaxRetries, Take(w, j, r)
               PROVE  TypeOK'
    BY <1>1
  <2>1. queue' \in [Jobs -> [0 .. MaxRetries -> Nat]]
    BY QueueType DEF Take
  <2>2. [Idle EXCEPT !.pc = "start", !.job = j, !.retries = r] \in Run
    BY NullRecords DEF Run, PC
  <2>3. run' \in [Workers -> Run]
    BY <2>2 DEF Take
  <2>4. QED
    BY <2>1, <2>3 DEF Take
<1>2. CASE Start(w)
  <2>1. CASE ~Exists(run[w].job)
    BY <1>2, <2>1, GotoType DEF Start, PC
  <2>2. CASE Exists(run[w].job)
    <3>1. run[w].job \in Jobs
      BY <1>2 DEF Start, RunShape
    <3>2. row' \in [Jobs -> Row]
      <4>1. [row[run[w].job] EXCEPT !.status = "running", !.stage = Preprocessing] \in Row
        BY <3>1, Codes, RowUpdates DEF Status
      <4>2. row' = [row EXCEPT ![run[w].job] =
                      [row[run[w].job] EXCEPT !.status = "running", !.stage = Preprocessing]]
        BY <1>2, <2>2 DEF Start
      <4>3. QED
        BY <3>1, <4>1, <4>2
    <3>3. row[run[w].job].cancelRequested \in BOOLEAN
      BY <3>1 DEF Row
    <3>4. run' \in [Workers -> Run]
      <4> DEFINE asked == row[run[w].job].cancelRequested
      <4>1. [run[w] EXCEPT !.pc = "fetch", !.cancelAtStart = asked, !.cancelEvent = asked] \in Run
        <5>1. "fetch" \in PC /\ 1 \in 1 .. NumStages
          BY NumStagesAssumption DEF PC
        <5>2. QED
          BY <3>3, <5>1, RunUpdates
      <4>2. run' = [run EXCEPT ![w] = [run[w] EXCEPT !.pc = "fetch",
                                                     !.cancelAtStart = asked,
                                                     !.cancelEvent = asked]]
        BY <1>2, <2>2 DEF Start
      <4>3. QED
        BY <4>1, <4>2
    <3>5. QED
      BY <1>2, <3>2, <3>4 DEF Start
  <2>3. QED
    BY <2>1, <2>2
<1>3. CASE Fetch(w)
  BY <1>3, GotoType DEF Fetch, PC, Outcomes
<1>4. CASE Setup(w)
  BY <1>4, GotoType DEF Setup, PC
<1>5. CASE CheckPasses(w)
  BY <1>5, GotoType DEF CheckPasses, PC
<1>6. CASE CheckCancels(w)
  BY <1>6, GotoType DEF CheckCancels, PC, Outcomes
<1>7. CASE CheckTimesOut(w)
  BY <1>7, GotoType DEF CheckTimesOut, PC, Outcomes
<1>8. CASE StageDone(w)
  <2>1. run[w].at \in 1 .. NumStages
    BY DEF Run
  <2>2. (IF run[w].at = NumStages THEN run[w].at ELSE run[w].at + 1) \in 1 .. NumStages
    BY <2>1, NumStagesAssumption
  <2>3. run' \in [Workers -> Run]
    <3> DEFINE k == IF run[w].at = NumStages THEN run[w].at ELSE run[w].at + 1
               pc == IF run[w].at = NumStages THEN "success" ELSE "boundary"
    <3>1. pc \in PC
      BY DEF PC, Outcomes
    <3>2. [run[w] EXCEPT !.late = @ \cup {run[w].at}, !.at = k, !.pc = pc] \in Run
      <4> HIDE DEF k, pc
      <4> QED
        BY <2>2, <3>1, RunUpdates DEF k
    <3>3. run' = [run EXCEPT ![w] = [run[w] EXCEPT !.late = @ \cup {run[w].at},
                                                   !.at = k, !.pc = pc]]
      <4>1. run[w] \in Run
        OBVIOUS
      <4>2. QED
        BY <1>8, <4>1 DEF StageDone
    <3>4. QED
      BY <3>2, <3>3
  <2>4. QED
    BY <1>8, <2>3 DEF StageDone
<1>9. CASE StageRaises(w)
  BY <1>9, GotoType DEF StageRaises, PC, Outcomes
<1>10. CASE Finish(w)
  <2>1. run[w].job \in Jobs
    BY <1>10 DEF Finish, RunShape
  <2>2. row' \in [Jobs -> Row]
    <3>1. CASE Exists(run[w].job)
      <4>1. [row[run[w].job] EXCEPT !.status = "completed", !.stage = Done,
                                    !.results = "model"] \in Row
        BY <2>1, Codes, RowUpdates DEF Status, Terminal
      <4>2. row' = [row EXCEPT ![run[w].job] =
                      [row[run[w].job] EXCEPT !.status = "completed", !.stage = Done,
                                              !.results = "model"]]
        BY <1>10, <3>1 DEF Finish
      <4>3. QED
        BY <2>1, <4>1, <4>2
    <3>2. CASE ~Exists(run[w].job)
      BY <1>10, <3>2 DEF Finish
    <3>3. QED
      BY <3>1, <3>2
  <2>3. QED
    BY <1>10, <2>2, GotoType DEF Finish, PC
<1>11. CASE FinishHidden(w)
  BY <1>11, GotoType DEF FinishHidden, PC
<1>12. CASE MarkStopped(w)
  <2>1. run[w].job \in Jobs /\ run[w].pc \in Status
    BY <1>12 DEF MarkStopped, RunShape, Status, Terminal
  <2>2. QED
    BY <1>12, <2>1, GotoType, SetStatusType DEF MarkStopped, PC
<1>13. CASE MarkTransient(w)
  <2>1. run[w].job \in Jobs
    BY <1>13 DEF MarkTransient, RunShape
  <2>2. [row[run[w].job] EXCEPT !.status = "pending", !.retryCount = @ + 1] \in Row
    BY <2>1, NumStagesAssumption, Codes, RowUpdates DEF Status
  <2>3. row' \in [Jobs -> Row]
    <3>1. CASE Exists(run[w].job)
      <4>1. row' = [row EXCEPT ![run[w].job] =
                      [row[run[w].job] EXCEPT !.status = "pending", !.retryCount = @ + 1]]
        BY <1>13, <3>1 DEF MarkTransient
      <4>2. QED
        BY <2>1, <2>2, <4>1
    <3>2. CASE ~Exists(run[w].job)
      BY <1>13, <3>2 DEF MarkTransient
    <3>3. QED
      BY <3>1, <3>2
  <2>4. AfterTransient(w) \in PC
    BY DEF AfterTransient, PC
  <2>5. run' \in [Workers -> Run]
    <3>1. [run[w] EXCEPT !.late = {}, !.pc = AfterTransient(w)] \in Run
      <4>1. 1 \in 1 .. NumStages /\ TRUE \in BOOLEAN
        BY NumStagesAssumption
      <4>2. QED
        BY <2>4, <4>1, RunUpdates
    <3>2. run' = [run EXCEPT ![w] = [run[w] EXCEPT !.late = {}, !.pc = AfterTransient(w)]]
      BY <1>13 DEF MarkTransient
    <3>3. QED
      BY <3>1, <3>2
  <2>6. QED
    BY <1>13, <2>3, <2>5 DEF MarkTransient
<1>14. CASE MarkExhausted(w)
  <2>1. run[w].job \in Jobs /\ "failed" \in Status
    BY <1>14 DEF MarkExhausted, RunShape, Status, Terminal
  <2>2. QED
    BY <1>14, <2>1, GotoType, SetStatusType DEF MarkExhausted, PC
<1>15. CASE PublishRetry(w)
  <2>1. run[w].job \in Jobs
    BY <1>15 DEF PublishRetry, RunShape
  <2>2. run[w].retries + 1 \in 0 .. MaxRetries
    BY <1>15, MaxRetriesAssumption DEF PublishRetry, RunShape, Run
  <2>3. queue' \in [Jobs -> [0 .. MaxRetries -> Nat]]
    BY <1>15, <2>1, <2>2, QueueType DEF PublishRetry
  <2>4. QED
    BY <1>15, <2>3, GotoType DEF PublishRetry, PC
<1>16. CASE Ack(w)
  BY <1>16, NullRecords DEF Ack
<1>17. QED
  BY <1>1, <1>2, <1>3, <1>4, <1>5, <1>6, <1>7, <1>8, <1>9, <1>10, <1>11,
     <1>12, <1>13, <1>14, <1>15, <1>16 DEF Task

LEMMA BackgroundType ==
  ASSUME TypeOK, RunShape, NEW w \in Workers, Background(w)
  PROVE  TypeOK'
<1> USE DEF TypeOK
<1>1. CASE \E k \in 1 .. NumStages : Persist(w, k)
  <2> SUFFICES ASSUME NEW k \in 1 .. NumStages, Persist(w, k)
               PROVE  TypeOK'
    BY <1>1
  <2>1. row' \in [Jobs -> Row]
    <3>1. CASE Exists(run[w].job)
      <4>1. CASE run[w].job \in Jobs
        <5>1. [row[run[w].job] EXCEPT !.stage = StageCode(k)] \in Row
          BY <4>1, Codes, RowUpdates DEF Status
        <5>2. QED
          BY <3>1, <4>1, <5>1 DEF Persist
      <4>2. CASE run[w].job \notin Jobs
        BY <3>1, <4>2 DEF Persist
      <4>3. QED
        BY <4>1, <4>2
    <3>2. CASE ~Exists(run[w].job)
      BY <3>2 DEF Persist
    <3>3. QED
      BY <3>1, <3>2
  <2>2. run' \in [Workers -> Run]
    BY ZenonT(60) DEF Persist, Run
  <2>3. QED
    BY <2>1, <2>2 DEF Persist
<1>2. CASE Poll(w)
  <2>1. [run[w] EXCEPT !.cancelEvent = TRUE] \in Run
    <3>1. run[w] \in Run
      OBVIOUS
    <3>2. QED
      BY ONLY <3>1 DEF Run
  <2>2. run' = [run EXCEPT ![w] = [run[w] EXCEPT !.cancelEvent = TRUE]]
    BY <1>2 DEF Poll
  <2>3. run' \in [Workers -> Run]
    BY <2>1, <2>2
  <2>4. QED
    BY <1>2, <2>3 DEF Poll
<1>3. QED
  BY <1>1, <1>2 DEF Background

LEMMA FaultType ==
  ASSUME TypeOK, RunShape, NEW w \in Workers, Fault(w)
  PROVE  TypeOK'
<1> USE NullRecords DEF TypeOK
<1>1. ASSUME CountRedelivery
      PROVE  faults' \in [redelivered : 0 .. MaxRedeliver, errors : 0 .. MaxErrors]
  BY <1>1, FaultBoundsAssumption DEF CountRedelivery
<1>2. ASSUME CountError
      PROVE  faults' \in [redelivered : 0 .. MaxRedeliver, errors : 0 .. MaxErrors]
  BY <1>2, FaultBoundsAssumption DEF CountError
<1>3. ASSUME run[w].pc # "idle", ReturnMessage(w)
      PROVE  queue' \in [Jobs -> [0 .. MaxRetries -> Nat]]
  BY <1>3, QueueType DEF ReturnMessage, RunShape, Run
<1>4. CASE Redeliver(w)
  BY <1>1, <1>3, <1>4 DEF Redeliver
<1>5. CASE HostLost(w)
  BY <1>1, <1>3, <1>5 DEF HostLost
<1>6. CASE ProcessLost(w)
  BY <1>2, <1>6 DEF ProcessLost
<1>7. CASE TaskError(w)
  BY <1>2, <1>7, GotoType DEF TaskError, PC
<1>8. CASE PollFails(w)
  BY <1>2, <1>8 DEF PollFails, Run
<1>9. QED
  BY <1>4, <1>5, <1>6, <1>7, <1>8 DEF Fault

LEMMA RunShapeStep ==
  ASSUME TypeOK, RunShape, [Next]_vars
  PROVE  RunShape'
<1> USE DEF RunShape
<1>1. ASSUME NEW j \in Jobs, User(j) \/ Server(j)
      PROVE  RunShape'
  BY <1>1 DEF User, Server, Dispatch, AdmitCancel, AdmitDelete, Admit, RemoveVideo,
     AdmitEdit,
     AdmitSubmit, AdmitReopen, CommitCreate, AbortCreate, CommitCancel, CommitDelete, CommitEdit,
     CommitSubmit, CommitReopen, Commit, AbortRequest
<1>2. ASSUME NEW w \in Workers, Task(w)
      PROVE  RunShape'
  <2>1. CASE \E j \in Jobs, r \in 0 .. MaxRetries : Take(w, j, r)
    BY <2>1 DEF Take, TypeOK, Idle
  <2>2. CASE Start(w)
    <3>1. run[w].pc # "idle" /\ run'[w].job = run[w].job /\ run'[w].pc # "retry"
      <4>1. run[w] \in Run /\ run[w].pc # "idle"
        BY <2>2 DEF Start, TypeOK
      <4>2. CASE Exists(run[w].job)
        <5> DEFINE asked == row[run[w].job].cancelRequested
        <5>1. run' = [run EXCEPT ![w] = [run[w] EXCEPT !.pc = "fetch",
                                                       !.cancelAtStart = asked,
                                                       !.cancelEvent = asked]]
          BY <2>2, <4>2 DEF Start
        <5>2. run'[w] = [run[w] EXCEPT !.pc = "fetch", !.cancelAtStart = asked,
                                       !.cancelEvent = asked]
          BY <5>1 DEF TypeOK
        <5>3. QED
          BY <4>1, <5>2 DEF Run
      <4>3. CASE ~Exists(run[w].job)
        BY <2>2, <4>1, <4>3 DEF Start, Goto, TypeOK, Run
      <4>4. QED
        BY <4>2, <4>3
    <3>2. \A v \in Workers \ {w} : run'[v] = run[v]
      BY <2>2 DEF Start, TypeOK, Goto
    <3>3. QED
      BY <3>1, <3>2
  <2>3. CASE StageDone(w)
    BY <2>3 DEF StageDone, TypeOK, Run
  <2>4. CASE MarkTransient(w)
    BY <2>4, MaxRetriesAssumption DEF MarkTransient, AfterTransient, TypeOK, Run
  <2>5. CASE Ack(w)
    BY <2>5 DEF Ack, Idle, TypeOK
  <2>6. CASE \/ Fetch(w) \/ Setup(w) \/ CheckPasses(w) \/ CheckCancels(w)
             \/ CheckTimesOut(w) \/ StageRaises(w) \/ Finish(w) \/ FinishHidden(w)
             \/ MarkStopped(w) \/ MarkExhausted(w) \/ PublishRetry(w)
    <3>1. ASSUME NEW pc \in PC \ {"idle", "retry"}, run[w].pc # "idle", Goto(w, pc)
          PROVE  RunShape'
      BY <3>1 DEF Goto, TypeOK, Run
    <3>2. CASE Fetch(w)
      BY <3>1, <3>2 DEF Fetch, PC, Outcomes
    <3>3. CASE Setup(w) \/ CheckPasses(w)
      BY <3>1, <3>3 DEF Setup, CheckPasses, PC
    <3>4. CASE CheckCancels(w) \/ CheckTimesOut(w) \/ StageRaises(w)
      BY <3>1, <3>4 DEF CheckCancels, CheckTimesOut, StageRaises, PC, Outcomes
    <3>5. CASE Finish(w)
      BY <3>1, <3>5 DEF Finish, PC
    <3>6. CASE FinishHidden(w) \/ MarkStopped(w)
      BY <3>1, <3>6 DEF FinishHidden, MarkStopped, PC
    <3>7. CASE MarkExhausted(w) \/ PublishRetry(w)
      BY <3>1, <3>7 DEF MarkExhausted, PublishRetry, PC
    <3>8. QED
      BY <2>6, <3>2, <3>3, <3>4, <3>5, <3>6, <3>7
  <2>7. QED
    BY <1>2, <2>1, <2>2, <2>3, <2>4, <2>5, <2>6 DEF Task
<1>3. ASSUME NEW w \in Workers, Background(w) \/ Fault(w)
      PROVE  RunShape'
  <2>1. CASE \E k \in 1 .. NumStages : Persist(w, k)
    BY <2>1 DEF Persist, TypeOK, Run
  <2>2. CASE Poll(w) \/ PollFails(w)
    <3>1. run'[w].job = run[w].job /\ run'[w].pc = run[w].pc
          /\ run'[w].retries = run[w].retries
      BY <2>2 DEF Poll, PollFails, TypeOK, Run
    <3>2. \A v \in Workers \ {w} : run'[v] = run[v]
      BY <2>2 DEF Poll, PollFails, TypeOK
    <3>3. QED
      BY <3>1, <3>2
  <2>3. CASE Redeliver(w)
    BY <2>3 DEF Redeliver
  <2>4. CASE HostLost(w) \/ ProcessLost(w)
    BY <2>4 DEF HostLost, ProcessLost, Idle, TypeOK
  <2>5. CASE TaskError(w)
    <3>1. run[w].pc # "idle" /\ run' = [run EXCEPT ![w].pc = "closing"]
      BY <2>5 DEF TaskError, Goto, Outcomes
    <3>2. QED
      BY <3>1 DEF TypeOK, Run
  <2>6. QED
    BY <1>3, <2>1, <2>2, <2>3, <2>4, <2>5 DEF Background, Fault
<1>4. CASE UNCHANGED vars
  BY <1>4 DEF vars
<1>5. QED
  BY <1>1, <1>2, <1>3, <1>4 DEF Next

LEMMA InitType == Init => TypeOK /\ RunShape
<1> SUFFICES ASSUME Init
             PROVE  TypeOK /\ RunShape
  OBVIOUS
<1>1. row \in [Jobs -> Row] /\ run \in [Workers -> Run]
  BY NullRecords DEF Init
<1>2. queue \in [Jobs -> [0 .. MaxRetries -> Nat]]
  BY DEF Init
<1>3. faults \in [redelivered : 0 .. MaxRedeliver, errors : 0 .. MaxErrors]
  BY FaultBoundsAssumption DEF Init
<1>4. tx \in [Jobs -> {"new", "open", "closed"}] /\ request \in [Jobs -> SUBSET Requests]
  BY DEF Init
<1>5. RunShape
  BY DEF Init, RunShape, Idle
<1>6. QED
  BY <1>1, <1>2, <1>3, <1>4, <1>5 DEF TypeOK

LEMMA TypeStep ==
  ASSUME TypeOK, RunShape, [Next]_vars
  PROVE  TypeOK' /\ RunShape'
<1>1. CASE Next
  BY <1>1, RunShapeStep, UserType, ServerType, TaskType, BackgroundType, FaultType DEF Next
<1>2. CASE UNCHANGED vars
  BY <1>2, RunShapeStep DEF vars, TypeOK
<1>3. QED
  BY <1>1, <1>2

\* Every variable keeps its type, and every busy worker its job.
THEOREM TypeCorrect == Spec => [](TypeOK /\ RunShape)
  BY InitType, TypeStep, PTL DEF Spec

-----------------------------------------------------------------------------
(* Cancellation and deletion: a request is never lost on its way from the  *)
(* row to the pipeline thread, nor made up on its way back, and no late    *)
(* write brings a deleted row back.                                        *)

\* A row appears when its creating transaction closes, and goes without trace.
RowOK(j) ==
  /\ Exists(j) => tx[j] = "closed"
  /\ ~Exists(j) => row[j] = NoRow
  /\ row[j].status = "cancelled" => row[j].cancelRequested

\* The flag on its way: the thread's event is set only for a job whose row, if
\* it is still there, has the request; an attempt that began with the request
\* never gets past a boundary; the outcome "cancelled" comes from the event.
FlagOK(w) ==
  /\ run[w].cancelEvent =>
       /\ run[w].pc # "idle"
       /\ tx[run[w].job] = "closed"
       /\ Exists(run[w].job) => row[run[w].job].cancelRequested
  /\ run[w].pc = "cancelled" => run[w].cancelEvent
  /\ run[w].cancelAtStart =>
       /\ run[w].cancelEvent
       /\ run[w].pc \notin {"stage", "success"}

CancelInv ==
  /\ TypeOK
  /\ RunShape
  /\ \A j \in Jobs : RowOK(j)
  /\ \A w \in Workers : FlagOK(w)

-----------------------------------------------------------------------------
(* What a step does to the rows that have been created.                    *)

\* A row that is gone stays gone, and a request on a row stays on it.
KeepsRow(j) ==
  tx[j] = "closed" =>
    /\ tx'[j] = "closed"
    /\ Exists(j)' => Exists(j) /\ (row[j].cancelRequested => row'[j].cancelRequested)

\* The worker's writes leave every other field of an existing row alone.
WorkerWrite(j) ==
  \/ row'[j] = row[j]
  \/ /\ Exists(j) /\ Exists(j)'
     /\ row'[j].cancelRequested = row[j].cancelRequested
     /\ row'[j].status = "cancelled" =>
          row[j].status = "cancelled" \/ row[j].cancelRequested

LEMMA WorkerWriteKeeps ==
  ASSUME NEW j \in Jobs, WorkerWrite(j), UNCHANGED tx
  PROVE  KeepsRow(j) /\ (RowOK(j) => RowOK(j)')
  BY DEF WorkerWrite, KeepsRow, RowOK, Exists

LEMMA RequestStep ==
  ASSUME TypeOK, NEW j \in Jobs, User(j) \/ Server(j), \A i \in Jobs : RowOK(i)
  PROVE  \A i \in Jobs : KeepsRow(i) /\ RowOK(i)'
<1> SUFFICES ASSUME NEW i \in Jobs
             PROVE  KeepsRow(i) /\ RowOK(i)'
  OBVIOUS
<1>0. NoRow.status = "absent" /\ NewRow.status = "pending"
  BY DEF NoRow, NewRow
<1>1. CASE Dispatch(j)
  BY <1>1 DEF Dispatch, TypeOK, KeepsRow, RowOK, Exists
<1>2. CASE UNCHANGED <<row, tx>>
  BY <1>2 DEF KeepsRow, RowOK, Exists
<1>3. CASE RemoveVideo(j) \/ CommitDelete(j)
  BY <1>0, <1>3 DEF RemoveVideo, CommitDelete, Commit, TypeOK, KeepsRow, RowOK, Exists
<1>4. CASE CommitEdit(j)
  BY <1>4 DEF CommitEdit, Commit, TypeOK, Row, KeepsRow, RowOK, Exists
<1>5. CASE CommitSubmit(j)
  BY <1>5 DEF CommitSubmit, Commit, TypeOK, Row, KeepsRow, RowOK, Exists
<1>6. CASE CommitReopen(j)
  BY <1>6 DEF CommitReopen, Commit, TypeOK, Row, KeepsRow, RowOK, Exists
<1>7. CASE CommitCreate(j)
  BY <1>0, <1>7 DEF CommitCreate, TypeOK, KeepsRow, RowOK, Exists
<1>8. CASE AbortCreate(j)
  BY <1>8 DEF AbortCreate, TypeOK, KeepsRow, RowOK, Exists
<1>9. CASE CommitCancel(j)
  BY <1>9 DEF CommitCancel, Commit, TypeOK, Row, KeepsRow, RowOK, Exists
<1>10. QED
  BY <1>1, <1>2, <1>3, <1>4, <1>5, <1>6, <1>7, <1>8, <1>9
  DEF User, Server, AdmitCancel, AdmitDelete, AdmitEdit, AdmitSubmit, AdmitReopen, Admit,
      AbortRequest

-----------------------------------------------------------------------------
(* What a worker's step does.                                              *)

\* A write to one existing row that leaves the request alone.
LEMMA WriteOneRow ==
  ASSUME TypeOK, NEW j \in Jobs, NEW r \in Row,
         row' = [row EXCEPT ![j] = r], Exists(j), r.status # "absent",
         r.cancelRequested = row[j].cancelRequested,
         r.status = "cancelled" => row[j].status = "cancelled" \/ row[j].cancelRequested
  PROVE  \A i \in Jobs : WorkerWrite(i)
  BY DEF TypeOK, WorkerWrite, Exists

LEMMA WorkerStepRows ==
  ASSUME TypeOK, RunShape, NEW w \in Workers, FlagOK(w), Task(w) \/ Background(w) \/ Fault(w)
  PROVE  UNCHANGED tx /\ \A i \in Jobs : WorkerWrite(i)
<1>1. CASE UNCHANGED <<row, tx>>
  BY <1>1 DEF WorkerWrite
<1>2. CASE Start(w) /\ Exists(run[w].job)
  <2> DEFINE r == [row[run[w].job] EXCEPT !.status = "running", !.stage = Preprocessing]
  <2>1. run[w].job \in Jobs
    BY <1>2 DEF Start, RunShape
  <2>2. r \in Row
    BY <2>1, Codes, RowUpdates DEF Status
  <2>3. row' = [row EXCEPT ![run[w].job] = r] /\ UNCHANGED tx
    BY <1>2 DEF Start
  <2>4. r.status = "running" /\ r.cancelRequested = row[run[w].job].cancelRequested
    BY <2>1 DEF TypeOK, Row
  <2>5. QED
    BY <1>2, <2>1, <2>2, <2>3, <2>4, WriteOneRow
<1>3. CASE Finish(w) /\ Exists(run[w].job)
  <2> DEFINE r == [row[run[w].job] EXCEPT !.status = "completed", !.stage = Done,
                                          !.results = "model"]
  <2>1. run[w].job \in Jobs
    BY <1>3 DEF Finish, RunShape
  <2>2. r \in Row
    BY <2>1, Codes, RowUpdates DEF Status, Terminal
  <2>3. row' = [row EXCEPT ![run[w].job] = r] /\ UNCHANGED tx
    BY <1>3 DEF Finish
  <2>4. r.status = "completed" /\ r.cancelRequested = row[run[w].job].cancelRequested
    BY <2>1 DEF TypeOK, Row
  <2>5. QED
    BY <1>3, <2>1, <2>2, <2>3, <2>4, WriteOneRow
<1>4. CASE MarkTransient(w) /\ Exists(run[w].job)
  <2> DEFINE r == [row[run[w].job] EXCEPT !.status = "pending", !.retryCount = @ + 1]
  <2>1. run[w].job \in Jobs
    BY <1>4 DEF MarkTransient, RunShape
  <2>2. r \in Row
    BY <2>1, Codes, RowUpdates DEF Status
  <2>3. row' = [row EXCEPT ![run[w].job] = r] /\ UNCHANGED tx
    BY <1>4 DEF MarkTransient
  <2>4. r.status = "pending" /\ r.cancelRequested = row[run[w].job].cancelRequested
    BY <2>1 DEF TypeOK, Row
  <2>5. QED
    BY <1>4, <2>1, <2>2, <2>3, <2>4, WriteOneRow
<1>5. CASE (MarkStopped(w) \/ MarkExhausted(w)) /\ Exists(run[w].job)
  <2> DEFINE s == IF MarkStopped(w) THEN run[w].pc ELSE "failed"
             r == [row[run[w].job] EXCEPT !.status = s]
  <2>1. run[w].job \in Jobs
    BY <1>5 DEF MarkStopped, MarkExhausted, RunShape
  <2>2. s \in {"cancelled", "failed"}
    BY <1>5 DEF MarkStopped
  <2>3. row' = [row EXCEPT ![run[w].job] = r] /\ UNCHANGED tx
    BY <1>5, <2>1 DEF MarkStopped, MarkExhausted, SetStatus, TypeOK
  <2>4. s = "cancelled" => row[run[w].job].cancelRequested
    BY <1>5 DEF FlagOK, MarkStopped
  <2> HIDE DEF s
  <2>5. r.status = s /\ r.cancelRequested = row[run[w].job].cancelRequested /\ r \in Row
    <3>1. row[run[w].job] \in Row /\ s \in Status
      BY <2>1, <2>2 DEF TypeOK, Status, Terminal
    <3>2. QED
      BY <3>1 DEF Row
  <2>6. QED
    BY <1>5, <2>1, <2>2, <2>3, <2>4, <2>5, WriteOneRow
<1>6. CASE (\E k \in 1 .. NumStages : Persist(w, k)) /\ Exists(run[w].job)
  <2>1. PICK k \in 1 .. NumStages : Persist(w, k)
    BY <1>6
  <2>2. CASE run[w].job \in Jobs
    <3> DEFINE r == [row[run[w].job] EXCEPT !.stage = StageCode(k)]
    <3>1. r \in Row
      BY <2>2, Codes, RowUpdates DEF Status
    <3>2. row' = [row EXCEPT ![run[w].job] = r] /\ UNCHANGED tx
      BY <1>6, <2>1 DEF Persist
    <3>3. r.status = row[run[w].job].status
          /\ r.cancelRequested = row[run[w].job].cancelRequested
      BY <2>2 DEF TypeOK, Row
    <3>4. QED
      BY <1>6, <2>2, <3>1, <3>2, <3>3, WriteOneRow DEF Exists
  <2>3. CASE run[w].job \notin Jobs
    BY <2>1, <2>3 DEF Persist, TypeOK, WorkerWrite
  <2>4. QED
    BY <2>2, <2>3
<1>7. CASE \/ Start(w) /\ ~Exists(run[w].job)
           \/ Finish(w) /\ ~Exists(run[w].job)
           \/ MarkTransient(w) /\ ~Exists(run[w].job)
           \/ (MarkStopped(w) \/ MarkExhausted(w)) /\ ~Exists(run[w].job)
           \/ (\E k \in 1 .. NumStages : Persist(w, k)) /\ ~Exists(run[w].job)
  BY <1>1, <1>7 DEF Start, Finish, MarkTransient, MarkStopped, MarkExhausted, SetStatus,
     Persist
<1>8. CASE Fault(w)
  BY <1>1, <1>8 DEF Fault, Redeliver, HostLost, ProcessLost, TaskError, PollFails
<1>9. CASE Background(w)
  BY <1>1, <1>6, <1>7, <1>9 DEF Background, Poll
<1>10. CASE Task(w)
  BY <1>1, <1>2, <1>3, <1>4, <1>5, <1>7, <1>10 DEF Task, Take, Fetch, Setup, CheckPasses,
     CheckCancels, CheckTimesOut, StageDone, StageRaises, FinishHidden, PublishRetry, Ack
<1>11. QED
  BY <1>8, <1>9, <1>10

LEMMA NextRows ==
  ASSUME CancelInv, [Next]_vars
  PROVE  \A i \in Jobs : KeepsRow(i) /\ RowOK(i)'
<1> USE DEF CancelInv
<1>1. ASSUME NEW j \in Jobs, User(j) \/ Server(j)
      PROVE  \A i \in Jobs : KeepsRow(i) /\ RowOK(i)'
  BY <1>1, RequestStep
<1>2. ASSUME NEW w \in Workers, Task(w) \/ Background(w) \/ Fault(w)
      PROVE  \A i \in Jobs : KeepsRow(i) /\ RowOK(i)'
  <2>1. UNCHANGED tx /\ \A i \in Jobs : WorkerWrite(i)
    BY <1>2, WorkerStepRows
  <2>2. QED
    BY <2>1, WorkerWriteKeeps
<1>3. CASE UNCHANGED vars
  BY <1>3 DEF vars, KeepsRow, RowOK, Exists
<1>4. QED
  BY <1>1, <1>2, <1>3 DEF Next

\* A worker whose run has not changed still carries its flag rightly.
LEMMA OtherFlags ==
  ASSUME CancelInv, \A i \in Jobs : KeepsRow(i), NEW v \in Workers, run'[v] = run[v]
  PROVE  FlagOK(v)'
  BY DEF CancelInv, RunShape, FlagOK, KeepsRow, Exists

\* The flag of a worker that goes on with its job, having learnt nothing new.
LEMMA SameFlag ==
  ASSUME CancelInv, \A i \in Jobs : KeepsRow(i), NEW v \in Workers, NEW pc \in PC,
         run[v].pc # "idle", pc # "idle",
         run'[v].pc = pc, run'[v].job = run[v].job,
         run'[v].cancelAtStart = run[v].cancelAtStart,
         run'[v].cancelEvent = run[v].cancelEvent,
         pc = "cancelled" => run[v].cancelEvent,
         pc \in {"stage", "success"} => run[v].pc \in {"stage", "success"} \/ ~run[v].cancelEvent
  PROVE  FlagOK(v)'
  BY DEF CancelInv, RunShape, FlagOK, KeepsRow, Exists

LEMMA GotoFlag ==
  ASSUME CancelInv, \A i \in Jobs : KeepsRow(i), NEW w \in Workers, NEW pc \in PC,
         run[w].pc # "idle", pc # "idle", Goto(w, pc),
         pc = "cancelled" => run[w].cancelEvent,
         pc \in {"stage", "success"} => ~run[w].cancelEvent
  PROVE  \A v \in Workers : FlagOK(v)'
<1>1. /\ run'[w].pc = pc
      /\ run'[w].job = run[w].job
      /\ run'[w].cancelAtStart = run[w].cancelAtStart
      /\ run'[w].cancelEvent = run[w].cancelEvent
  BY DEF Goto, CancelInv, TypeOK, Run
<1>2. FlagOK(w)'
  BY <1>1, SameFlag
<1>3. \A v \in Workers \ {w} : run'[v] = run[v]
  BY DEF Goto, CancelInv, TypeOK
<1>4. QED
  BY <1>2, <1>3, OtherFlags

LEMMA IdleFlag ==
  ASSUME CancelInv, \A i \in Jobs : KeepsRow(i), NEW w \in Workers,
         run' = [run EXCEPT ![w] = Idle]
  PROVE  \A v \in Workers : FlagOK(v)'
<1>1. run'[w] = Idle /\ \A v \in Workers \ {w} : run'[v] = run[v]
  BY DEF CancelInv, TypeOK
<1>2. FlagOK(w)'
  BY <1>1 DEF FlagOK, Idle
<1>3. QED
  BY <1>1, <1>2, OtherFlags

LEMMA WorkerStepFlags ==
  ASSUME CancelInv, \A i \in Jobs : KeepsRow(i), NEW w \in Workers,
         Task(w) \/ Background(w) \/ Fault(w)
  PROVE  \A v \in Workers : FlagOK(v)'
<1>0. run \in [Workers -> Run] /\ run[w] \in Run
  BY DEF CancelInv, TypeOK
<1>1. CASE \E j \in Jobs, r \in 0 .. MaxRetries : Take(w, j, r)
  <2>1. PICK j \in Jobs, r \in 0 .. MaxRetries : Take(w, j, r)
    BY <1>1
  <2>2. /\ run'[w] = [Idle EXCEPT !.pc = "start", !.job = j, !.retries = r]
        /\ \A v \in Workers \ {w} : run'[v] = run[v]
    BY <1>0, <2>1 DEF Take
  <2>3. FlagOK(w)'
    BY <2>2 DEF FlagOK, Idle
  <2>4. QED
    BY <2>2, <2>3, OtherFlags
<1>2. CASE Start(w) /\ Exists(run[w].job)
  <2> DEFINE asked == row[run[w].job].cancelRequested
  <2>1. run' = [run EXCEPT ![w] = [run[w] EXCEPT !.pc = "fetch", !.cancelAtStart = asked,
                                                 !.cancelEvent = asked]]
    BY <1>2 DEF Start
  <2>2. /\ run'[w] = [run[w] EXCEPT !.pc = "fetch", !.cancelAtStart = asked,
                                    !.cancelEvent = asked]
        /\ \A v \in Workers \ {w} : run'[v] = run[v]
    BY <1>0, <2>1
  <2>3. run'[w].pc = "fetch" /\ run'[w].job = run[w].job
        /\ run'[w].cancelAtStart = asked /\ run'[w].cancelEvent = asked
    BY <1>0, <2>2 DEF Run
  <2>4. run[w].job \in Jobs /\ tx[run[w].job] = "closed"
    BY <1>2 DEF Start, CancelInv, RunShape, RowOK
  <2>5. FlagOK(w)'
    BY <2>3, <2>4 DEF FlagOK, KeepsRow, Exists
  <2>6. QED
    BY <2>2, <2>5, OtherFlags
<1>3. CASE Start(w) /\ ~Exists(run[w].job)
  BY <1>3, GotoFlag DEF Start, PC
<1>4. CASE Fetch(w)
  BY <1>4, GotoFlag DEF Fetch, PC, Outcomes
<1>5. CASE Setup(w) \/ CheckPasses(w)
  BY <1>5, GotoFlag DEF Setup, CheckPasses, PC
<1>6. CASE CheckCancels(w) \/ CheckTimesOut(w) \/ StageRaises(w)
  BY <1>6, GotoFlag DEF CheckCancels, CheckTimesOut, StageRaises, PC, Outcomes
<1>7. CASE Finish(w) \/ FinishHidden(w) \/ MarkStopped(w)
  BY <1>7, GotoFlag DEF Finish, FinishHidden, MarkStopped, PC
<1>8. CASE MarkExhausted(w) \/ PublishRetry(w)
  BY <1>8, GotoFlag DEF MarkExhausted, PublishRetry, PC
<1>9. CASE TaskError(w)
  BY <1>9, GotoFlag DEF TaskError, PC, Outcomes
<1>10. CASE StageDone(w)
  <2> DEFINE k == IF run[w].at = NumStages THEN run[w].at ELSE run[w].at + 1
             pc == IF run[w].at = NumStages THEN "success" ELSE "boundary"
  <2>1. run' = [run EXCEPT ![w] = [run[w] EXCEPT !.late = @ \cup {run[w].at},
                                                 !.at = k, !.pc = pc]]
    BY <1>10 DEF StageDone
  <2>2. run[w].pc = "stage"
    BY <1>10 DEF StageDone
  <2>3. pc \in {"success", "boundary"}
    OBVIOUS
  <2> HIDE DEF k, pc
  <2>4. /\ run'[w] = [run[w] EXCEPT !.late = @ \cup {run[w].at}, !.at = k, !.pc = pc]
        /\ \A v \in Workers \ {w} : run'[v] = run[v]
    BY <1>0, <2>1
  <2>5. run'[w].pc = pc /\ run'[w].job = run[w].job
        /\ run'[w].cancelAtStart = run[w].cancelAtStart
        /\ run'[w].cancelEvent = run[w].cancelEvent
    BY <1>0, <2>4 DEF Run
  <2>6. FlagOK(w)'
    BY <2>2, <2>3, <2>5, SameFlag DEF PC, Outcomes
  <2>7. QED
    BY <2>4, <2>6, OtherFlags
<1>11. CASE MarkTransient(w)
  <2> DEFINE pc == AfterTransient(w)
  <2>1. run' = [run EXCEPT ![w] = [run[w] EXCEPT !.late = {}, !.pc = pc]]
    BY <1>11 DEF MarkTransient
  <2>2. pc \in {"closing", "exhausted", "retry"} /\ run[w].pc = "transient"
    BY <1>11 DEF MarkTransient, AfterTransient
  <2> HIDE DEF pc
  <2>3. /\ run'[w] = [run[w] EXCEPT !.late = {}, !.pc = pc]
        /\ \A v \in Workers \ {w} : run'[v] = run[v]
    BY <1>0, <2>1
  <2>4. run'[w].pc = pc /\ run'[w].job = run[w].job
        /\ run'[w].cancelAtStart = run[w].cancelAtStart
        /\ run'[w].cancelEvent = run[w].cancelEvent
    BY <1>0, <2>3 DEF Run
  <2>5. FlagOK(w)'
    BY <2>2, <2>4, SameFlag DEF PC
  <2>6. QED
    BY <2>3, <2>5, OtherFlags
<1>12. CASE Ack(w) \/ HostLost(w) \/ ProcessLost(w)
  BY <1>12, IdleFlag DEF Ack, HostLost, ProcessLost
<1>13. CASE Redeliver(w)
  BY <1>13, OtherFlags DEF Redeliver
<1>14. CASE (\E k \in 1 .. NumStages : Persist(w, k)) \/ PollFails(w)
  <2>1. /\ run'[w].pc = run[w].pc /\ run'[w].job = run[w].job
        /\ run'[w].cancelAtStart = run[w].cancelAtStart
        /\ run'[w].cancelEvent = run[w].cancelEvent
        /\ \A v \in Workers \ {w} : run'[v] = run[v]
    BY <1>0, <1>14 DEF Persist, PollFails, Run
  <2>2. FlagOK(w)'
    BY <2>1 DEF CancelInv, RunShape, FlagOK, KeepsRow, Exists
  <2>3. QED
    BY <2>1, <2>2, OtherFlags
<1>15. CASE Poll(w)
  <2>1. /\ run'[w].pc = run[w].pc /\ run'[w].job = run[w].job
        /\ run'[w].cancelAtStart = run[w].cancelAtStart
        /\ \A v \in Workers \ {w} : run'[v] = run[v]
    BY <1>0, <1>15 DEF Poll, Run
  <2>2. run[w].pc # "idle" /\ run[w].job \in Jobs
    BY <1>15 DEF Poll, Polling, Outcomes, CancelInv, RunShape
  <2>3. Exists(run[w].job) /\ tx[run[w].job] = "closed"
    BY <1>15, <2>2 DEF Poll, CancelInv, RowOK, NoRow
  <2>4. FlagOK(w)'
    BY <1>15, <2>1, <2>2, <2>3 DEF Poll, CancelInv, FlagOK, KeepsRow, Exists
  <2>5. QED
    BY <2>1, <2>4, OtherFlags
<1>16. QED
  BY <1>1, <1>2, <1>3, <1>4, <1>5, <1>6, <1>7, <1>8, <1>9, <1>10, <1>11, <1>12, <1>13,
     <1>14, <1>15 DEF Task, Background, Fault

-----------------------------------------------------------------------------
(* The theorems.                                                           *)

THEOREM CancelInvariant == Spec => []CancelInv
<1>1. Init => CancelInv
  <2> SUFFICES ASSUME Init
               PROVE  CancelInv
    OBVIOUS
  <2>1. TypeOK /\ RunShape
    BY InitType
  <2>2. \A j \in Jobs : RowOK(j)
    BY DEF Init, RowOK, Exists, NoRow
  <2>3. \A w \in Workers : FlagOK(w)
    BY DEF Init, FlagOK, Idle
  <2>4. QED
    BY <2>1, <2>2, <2>3 DEF CancelInv
<1>2. CancelInv /\ [Next]_vars => CancelInv'
  <2> SUFFICES ASSUME CancelInv, [Next]_vars
               PROVE  CancelInv'
    OBVIOUS
  <2>1. TypeOK' /\ RunShape'
    BY TypeStep DEF CancelInv
  <2>2. \A i \in Jobs : KeepsRow(i) /\ RowOK(i)'
    BY NextRows
  <2>3. \A w \in Workers : FlagOK(w)'
    <3>1. CASE \E j \in Jobs : User(j) \/ Server(j)
      <4>1. UNCHANGED run
        BY <3>1 DEF User, Server, Dispatch, AdmitCancel, AdmitDelete, Admit, RemoveVideo,
           AdmitEdit,
     AdmitSubmit, AdmitReopen, CommitCreate, AbortCreate, CommitCancel, CommitDelete, CommitEdit,
     CommitSubmit, CommitReopen, Commit, AbortRequest
      <4>2. QED
        BY <2>2, <4>1, OtherFlags
    <3>2. CASE \E w \in Workers : Task(w) \/ Background(w) \/ Fault(w)
      BY <2>2, <3>2, WorkerStepFlags
    <3>3. CASE UNCHANGED vars
      BY <2>2, <3>3, OtherFlags DEF vars
    <3>4. QED
      BY <3>1, <3>2, <3>3 DEF Next
  <2>4. QED
    BY <2>1, <2>2, <2>3 DEF CancelInv
<1>3. QED
  BY <1>1, <1>2, PTL DEF Spec

\* A job whose status is `cancelled` is one that a client asked to cancel: the
\* poller, the event, the exception and the last UPDATE invent no request.
THEOREM CancelIsHonest == Spec => []CancelledOnlyIfAsked
<1>1. CancelInv => CancelledOnlyIfAsked
  BY DEF CancelInv, RowOK, CancelledOnlyIfAsked
<1>2. QED
  BY <1>1, CancelInvariant, PTL

\* An attempt that starts with the request already on its row stops at its first
\* stage boundary, at the latest, and completes nothing.
THEOREM PresetCancelStops == Spec => []PresetCancelNeverCompletes
<1>1. CancelInv => PresetCancelNeverCompletes
  BY DEF CancelInv, FlagOK, PresetCancelNeverCompletes
<1>2. QED
  BY <1>1, CancelInvariant, PTL

\* Every UPDATE of a worker, and every late request, leaves a deleted row deleted.
THEOREM DeletedForGood == Spec => DeletedStaysDeleted
<1>1. CancelInv /\ [Next]_vars =>
        [\A j \in Jobs : tx[j] = "closed" /\ ~Exists(j) => ~Exists(j)']_vars
  BY NextRows DEF KeepsRow
<1>2. QED
  BY <1>1, CancelInvariant, PTL DEF Spec, DeletedStaysDeleted

-----------------------------------------------------------------------------
(* How often a job can fail.                                               *)
(*                                                                         *)
(* Each message and each attempt can still fail a number of times that its *)
(* retry header fixes, and what matters is the sum over all of them.  The  *)
(* sum is taken as the size of a set with one token for each failure to    *)
(* come: sending, taking, failing and retrying move tokens or spend them,  *)
(* and only a repeated delivery brings new ones.                           *)

\* The failures to come of one message or one attempt.
Units(kind, x, n, left) == {<<kind, x, n, k>> : k \in 1 .. left}

\* Failures the attempt of w and its retries can still have.
Left(w) ==
  IF run[w].pc \in {"idle", "closing"} THEN 0
  ELSE IF run[w].pc \in {"retry", "exhausted"} THEN MaxRetries - run[w].retries
  ELSE MaxRetries + 1 - run[w].retries

\* A message that is not sent yet, the copies in the broker, the attempts.
Tokens(j) ==
  (IF tx[j] = "new" THEN Units("new", 0, 0, MaxRetries + 1) ELSE {})
  \cup (UNION {UNION {Units("message", r, n, MaxRetries + 1 - r) : n \in 1 .. queue[j][r]} :
                 r \in 0 .. MaxRetries})
  \cup (UNION {Units("attempt", w, 0, Left(w)) : w \in {v \in Workers : run[v].job = j}})

Budget == (MaxRetries + 1) * (1 + faults.redelivered)

\* The failures counted on the row, and those that are still to come.
WithinBudget(j) ==
  IsFiniteSet(Tokens(j)) /\ row[j].retryCount + Cardinality(Tokens(j)) <= Budget

RetryInv == TypeOK /\ RunShape /\ \A j \in Jobs : WithinBudget(j)

LEMMA UnitsCount ==
  ASSUME NEW kind, NEW x, NEW n, NEW left \in Nat
  PROVE  IsFiniteSet(Units(kind, x, n, left)) /\ Cardinality(Units(kind, x, n, left)) = left
<1> DEFINE S == 1 .. left
           T == Units(kind, x, n, left)
           f == [k \in S |-> <<kind, x, n, k>>]
<1>1. IsFiniteSet(S) /\ Cardinality(S) = left
  BY FS_Interval
<1>2. f \in Bijection(S, T)
  <2>1. f \in [S -> T] /\ \A t \in T : \E k \in S : f[k] = t
    BY DEF Units
  <2>2. \A i, k \in S : f[i] = f[k] => i = k
    OBVIOUS
  <2>3. QED
    BY <2>1, <2>2 DEF Bijection, Injection, Surjection, IsInjective
<1>3. ExistsBijection(S, T)
  BY <1>2 DEF ExistsBijection
<1> HIDE DEF S, T, f
<1>4. IsFiniteSet(T) /\ Cardinality(T) = Cardinality(S)
  BY <1>1, <1>3, FS_Bijection
<1>5. QED
  BY <1>1, <1>4 DEF T

LEMMA UnitsOfNone ==
  ASSUME NEW kind, NEW x, NEW n
  PROVE  Units(kind, x, n, 0) = {}
  BY DEF Units

LEMMA LeftType ==
  ASSUME TypeOK, RunShape, NEW w \in Workers
  PROVE  Left(w) \in Nat
<1>1. run[w] \in Run
  BY DEF TypeOK
<1>2. run[w].retries \in 0 .. MaxRetries
  BY <1>1 DEF Run
<1>3. QED
  BY <1>2, MaxRetriesAssumption DEF Left

LEMMA TokenIn ==
  ASSUME NEW j, NEW t
  PROVE  t \in Tokens(j) <=>
           \/ tx[j] = "new" /\ t \in Units("new", 0, 0, MaxRetries + 1)
           \/ \E r \in 0 .. MaxRetries : \E n \in 1 .. queue[j][r] :
                t \in Units("message", r, n, MaxRetries + 1 - r)
           \/ \E w \in Workers : run[w].job = j /\ t \in Units("attempt", w, 0, Left(w))
  BY DEF Tokens

\* Tokens are taken from one place and put in another; some may be lost.
LEMMA Swap ==
  ASSUME NEW S, NEW T, IsFiniteSet(S), NEW U \in SUBSET S, NEW V, IsFiniteSet(V),
         T \subseteq (S \ U) \cup V
  PROVE  IsFiniteSet(T) /\ Cardinality(T) + Cardinality(U) <= Cardinality(S) + Cardinality(V)
<1>1. IsFiniteSet(U) /\ IsFiniteSet(S \ U)
  BY FS_Subset
<1>2. /\ IsFiniteSet((S \ U) \cup V)
      /\ Cardinality((S \ U) \cup V)
           = Cardinality(S \ U) + Cardinality(V) - Cardinality((S \ U) \cap V)
  BY <1>1, FS_Union
<1>3. IsFiniteSet((S \ U) \cap V)
  BY <1>1, FS_Intersection
<1>4. IsFiniteSet(T) /\ Cardinality(T) <= Cardinality((S \ U) \cup V)
  BY <1>2, FS_Subset
<1>5. Cardinality(S) = Cardinality(S \ U) + Cardinality(U)
  <2>1. /\ Cardinality((S \ U) \cup U)
             = Cardinality(S \ U) + Cardinality(U) - Cardinality((S \ U) \cap U)
    BY <1>1, FS_Union
  <2>2. (S \ U) \cup U = S /\ (S \ U) \cap U = {}
    OBVIOUS
  <2>3. Cardinality(S \ U) \in Nat /\ Cardinality(U) \in Nat /\ Cardinality({}) = 0
    BY <1>1, FS_CardinalityType, FS_EmptySet
  <2>4. Cardinality((S \ U) \cup U) = Cardinality(S) /\ Cardinality((S \ U) \cap U) = 0
    BY <2>2, <2>3
  <2>5. QED
    BY <2>1, <2>3, <2>4
<1>6. /\ Cardinality(S \ U) \in Nat /\ Cardinality(U) \in Nat /\ Cardinality(V) \in Nat
      /\ Cardinality(T) \in Nat /\ Cardinality((S \ U) \cap V) \in Nat
  BY <1>1, <1>3, <1>4, FS_CardinalityType
<1> DEFINE s == Cardinality(S)
           su == Cardinality(S \ U)
           u == Cardinality(U)
           v == Cardinality(V)
           t == Cardinality(T)
           i == Cardinality((S \ U) \cap V)
           all == Cardinality((S \ U) \cup V)
<1>7. t <= all /\ all = su + v - i /\ s = su + u
  BY <1>2, <1>4, <1>5
<1>8. su \in Nat /\ u \in Nat /\ v \in Nat /\ t \in Nat /\ i \in Nat
  BY <1>6
<1> HIDE DEF s, su, u, v, t, i, all
<1>9. t + u <= s + v
  BY <1>7, <1>8
<1>10. QED
  BY <1>4, <1>9 DEF t, u, s, v

LEMMA Distributes ==
  ASSUME NEW m \in Nat, NEW d \in Nat
  PROVE  m * (1 + d) \in Nat /\ m * (1 + (d + 1)) = m * (1 + d) + m
<1>1. m * (1 + d) \in Nat
  OBVIOUS
<1>2. m * (1 + (d + 1)) = m * (1 + d) + m
  OBVIOUS
<1>3. QED
  BY <1>1, <1>2

\* One more repeated delivery pays for one more chain.
LEMMA BudgetGrows ==
  ASSUME TypeOK, TypeOK'
  PROVE  /\ Budget \in Nat /\ Budget' \in Nat
         /\ faults'.redelivered = faults.redelivered => Budget' = Budget
         /\ faults'.redelivered = faults.redelivered + 1 => Budget' = Budget + (MaxRetries + 1)
<1> DEFINE m == MaxRetries + 1
           d == faults.redelivered
<1>1. m \in Nat /\ d \in Nat /\ d' \in Nat
  BY MaxRetriesAssumption, FaultBoundsAssumption DEF TypeOK
<1>2. Budget = m * (1 + d) /\ Budget' = m * (1 + d')
  BY DEF Budget
<1> HIDE DEF m, d
<1>3. m * (1 + d) \in Nat /\ m * (1 + d') \in Nat /\ m * (1 + (d + 1)) = m * (1 + d) + m
  BY <1>1, Distributes
<1>4. QED
  BY <1>2, <1>3 DEF m, d

\* How a step may change what one job's failures amount to.
LEMMA Spend ==
  ASSUME TypeOK, TypeOK', NEW j \in Jobs, WithinBudget(j),
         NEW kind, NEW x, NEW n, NEW a \in Nat,
         NEW kind2, NEW x2, NEW n2, NEW b \in Nat,
         Units(kind, x, n, a) \subseteq Tokens(j),
         Tokens(j)' \subseteq (Tokens(j) \ Units(kind, x, n, a)) \cup Units(kind2, x2, n2, b),
         \/ Budget' = Budget /\ row'[j].retryCount + b <= row[j].retryCount + a
         \/ /\ Budget' = Budget + (MaxRetries + 1) /\ b <= MaxRetries + 1
            /\ row'[j].retryCount <= row[j].retryCount
  PROVE  WithinBudget(j)'
<1> DEFINE S == Tokens(j)
           T == Tokens(j)'
           U == Units(kind, x, n, a)
           V == Units(kind2, x2, n2, b)
<1>1. IsFiniteSet(U) /\ Cardinality(U) = a /\ IsFiniteSet(V) /\ Cardinality(V) = b
  BY UnitsCount
<1>2. IsFiniteSet(S) /\ row[j].retryCount + Cardinality(S) <= Budget
  BY DEF WithinBudget
<1>3. U \in SUBSET S /\ T \subseteq (S \ U) \cup V
  OBVIOUS
<1> HIDE DEF S, T, U, V
<1>4. IsFiniteSet(T) /\ Cardinality(T) + a <= Cardinality(S) + b
  <2>1. IsFiniteSet(T) /\ Cardinality(T) + Cardinality(U) <= Cardinality(S) + Cardinality(V)
    BY <1>1, <1>2, <1>3, Swap
  <2>2. QED
    BY <1>1, <2>1
<1>5. Cardinality(S) \in Nat /\ Cardinality(T) \in Nat
  BY <1>2, <1>4, FS_CardinalityType
<1>6. row[j].retryCount \in Nat /\ row'[j].retryCount \in Nat
  BY DEF TypeOK, Row
<1>7. row'[j].retryCount + Cardinality(T) <= Budget'
  BY <1>2, <1>4, <1>5, <1>6, BudgetGrows, MaxRetriesAssumption
<1>8. QED
  BY <1>4, <1>7 DEF WithinBudget, T

\* No token more, no failure more.
LEMMA Stay ==
  ASSUME TypeOK, TypeOK', NEW j \in Jobs, WithinBudget(j),
         Tokens(j)' \subseteq Tokens(j), Budget' = Budget,
         row'[j].retryCount <= row[j].retryCount
  PROVE  WithinBudget(j)'
<1>1. Units("new", 0, 0, 0) = {}
  BY UnitsOfNone
<1>2. row[j].retryCount \in Nat /\ row'[j].retryCount \in Nat
  BY DEF TypeOK, Row
<1>3. row'[j].retryCount + 0 <= row[j].retryCount + 0
  BY <1>2
<1>4. QED
  BY <1>1, <1>3, Spend

LEMMA LeftTypeNext ==
  ASSUME TypeOK', RunShape', NEW w \in Workers
  PROVE  Left(w)' \in Nat
<1>1. run'[w] \in Run
  BY DEF TypeOK
<1>2. run'[w].retries \in 0 .. MaxRetries
  BY <1>1 DEF Run
<1>3. QED
  BY <1>2, MaxRetriesAssumption DEF Left

LEMMA TokenInNext ==
  ASSUME NEW j, NEW t
  PROVE  t \in Tokens(j)' <=>
           \/ tx'[j] = "new" /\ t \in Units("new", 0, 0, MaxRetries + 1)
           \/ \E r \in 0 .. MaxRetries : \E n \in 1 .. queue'[j][r] :
                t \in Units("message", r, n, MaxRetries + 1 - r)
           \/ \E w \in Workers : run'[w].job = j /\ t \in Units("attempt", w, 0, Left(w)')
  BY DEF Tokens

LEMMA FewerUnits ==
  ASSUME NEW kind, NEW x, NEW n, NEW a \in Nat, NEW b \in Nat, a <= b
  PROVE  Units(kind, x, n, a) \subseteq Units(kind, x, n, b)
  BY DEF Units

\* Every attempt but that of w stays as it is.
OnlyRun(w) == \A v \in Workers \ {w} : run'[v] = run[v] /\ Left(v)' = Left(v)

LEMMA OthersRun ==
  ASSUME NEW w \in Workers, \A v \in Workers \ {w} : run'[v] = run[v]
  PROVE  OnlyRun(w)
  BY DEF OnlyRun, Left

\* An attempt goes on, or ends.
LEMMA AttemptGoesOn ==
  ASSUME TypeOK, RunShape, TypeOK', RunShape',
         NEW w \in Workers, NEW i \in Jobs, WithinBudget(i),
         OnlyRun(w), tx' = tx, queue' = queue,
         Left(w)' = 0 \/ (run'[w].job = run[w].job /\ Left(w)' <= Left(w)),
         row'[i].retryCount <= row[i].retryCount,
         faults'.redelivered = faults.redelivered
  PROVE  WithinBudget(i)'
<1>1. Left(w) \in Nat /\ Left(w)' \in Nat
  BY LeftType, LeftTypeNext
<1>2. ASSUME NEW t \in Tokens(i)'
      PROVE  t \in Tokens(i)
  <2>1. CASE \E v \in Workers : run'[v].job = i /\ t \in Units("attempt", v, 0, Left(v)')
    <3>1. PICK v \in Workers : run'[v].job = i /\ t \in Units("attempt", v, 0, Left(v)')
      BY <2>1
    <3>2. CASE v = w
      <4>1. run'[w].job = run[w].job /\ Left(w)' <= Left(w)
        BY <3>1, <3>2, UnitsOfNone
      <4>2. t \in Units("attempt", w, 0, Left(w))
        BY <1>1, <3>1, <3>2, <4>1, FewerUnits
      <4>3. QED
        BY <3>1, <3>2, <4>1, <4>2, TokenIn
    <3>3. CASE v # w
      BY <3>1, <3>3, TokenIn DEF OnlyRun
    <3>4. QED
      BY <3>2, <3>3
  <2>2. QED
    BY <1>2, <2>1, TokenIn, TokenInNext
<1>3. QED
  BY <1>2, Stay, BudgetGrows

\* The requests: a message is sent, or nothing that counts changes.
LEMMA RequestRetry ==
  ASSUME TypeOK, TypeOK', NEW j \in Jobs, User(j) \/ Server(j),
         NEW i \in Jobs, WithinBudget(i)
  PROVE  WithinBudget(i)'
<1>0. /\ MaxRetries + 1 \in Nat /\ run' = run /\ faults' = faults /\ Budget' = Budget
      /\ \A w \in Workers : Left(w)' = Left(w)
  <2>1. run' = run /\ faults' = faults
    BY DEF User, Server, Dispatch, AdmitCancel, AdmitDelete, Admit, RemoveVideo, AdmitEdit,
     AdmitSubmit, AdmitReopen, CommitCreate, AbortCreate, CommitCancel, CommitDelete, CommitEdit,
     CommitSubmit, CommitReopen, Commit, AbortRequest
  <2>2. QED
    BY <2>1, MaxRetriesAssumption DEF Budget, Left
<1>1. CASE Dispatch(j) /\ i = j
  <2>1. PICK q \in Nat : q = queue[j][0]
    BY MaxRetriesAssumption DEF TypeOK
  <2> DEFINE U == Units("new", 0, 0, MaxRetries + 1)
             V == Units("message", 0, q + 1, MaxRetries + 1)
  <2>2. /\ tx[j] = "new" /\ tx'[j] = "open" /\ row' = row
        /\ queue'[j] = [queue[j] EXCEPT ![0] = q + 1]
    BY <1>1, <2>1 DEF Dispatch, TypeOK
  <2>3. /\ \A r \in 0 .. MaxRetries : queue[j][r] \in Nat
        /\ \A r \in 0 .. MaxRetries : queue'[j][r] = IF r = 0 THEN q + 1 ELSE queue[j][r]
    <3>1. queue[j] \in [0 .. MaxRetries -> Nat]
      BY DEF TypeOK
    <3>2. QED
      BY <2>2, <3>1
  <2>4. U \subseteq Tokens(j)
    BY <2>2, TokenIn
  <2>5. ASSUME NEW t \in Tokens(j)'
        PROVE  t \in (Tokens(j) \ U) \cup V
    <3>1. CASE \E r \in 0 .. MaxRetries : \E n \in 1 .. queue'[j][r] :
                 t \in Units("message", r, n, MaxRetries + 1 - r)
      <4>0. PICK r \in 0 .. MaxRetries : \E n \in 1 .. queue'[j][r] :
                   t \in Units("message", r, n, MaxRetries + 1 - r)
        BY <3>1
      <4>1. PICK n \in 1 .. queue'[j][r] : t \in Units("message", r, n, MaxRetries + 1 - r)
        BY <4>0
      <4>2. t \notin U
        BY <4>1 DEF Units
      <4>3. CASE r = 0 /\ n = q + 1
        BY <4>1, <4>3, MaxRetriesAssumption
      <4>4. CASE ~(r = 0 /\ n = q + 1)
        <5>1. n \in 1 .. queue[j][r]
          BY <2>1, <2>3, <4>1, <4>4
        <5>2. QED
          BY <4>1, <4>2, <5>1, TokenIn
      <4>5. QED
        BY <4>3, <4>4
    <3>2. CASE \E w \in Workers : run'[w].job = j /\ t \in Units("attempt", w, 0, Left(w)')
      <4>1. t \in Tokens(j)
        BY <1>0, <3>2, TokenIn
      <4>2. t \notin U
        BY <3>2 DEF Units
      <4>3. QED
        BY <4>1, <4>2
    <3>3. QED
      BY <2>2, <2>5, <3>1, <3>2, TokenInNext, ZenonT(60)
  <2> HIDE DEF U, V
  <2>6. Tokens(j)' \subseteq (Tokens(j) \ U) \cup V
    BY <2>5
  <2>7. row'[j].retryCount + (MaxRetries + 1) <= row[j].retryCount + (MaxRetries + 1)
    <3>1. PICK n \in Nat : n = row[j].retryCount
      BY DEF TypeOK, Row
    <3>2. QED
      BY <2>2, <3>1, MaxRetriesAssumption
  <2>8. QED
    BY <1>0, <1>1, <2>4, <2>6, <2>7, Spend DEF U, V
<1>2. CASE ~(Dispatch(j) /\ i = j)
  <2>1. queue'[i] = queue[i] /\ (tx'[i] = "new" => tx[i] = "new")
    BY <1>2 DEF User, Server, Dispatch, AdmitCancel, AdmitDelete, Admit, RemoveVideo, AdmitEdit,
     AdmitSubmit, AdmitReopen, CommitCreate, AbortCreate, CommitCancel, CommitDelete, CommitEdit,
     CommitSubmit, CommitReopen, Commit, AbortRequest, TypeOK
  <2>2. row'[i].retryCount <= row[i].retryCount
    <3>1. row[i] \in Row /\ row[i].retryCount \in Nat /\ NoRow.retryCount = 0
          /\ NewRow.retryCount = 0
      BY DEF TypeOK, Row, NoRow, NewRow
    <3>2. \/ row'[i] = row[i] \/ row'[i] = NewRow \/ row'[i] = NoRow
          \/ row'[i] = [row[i] EXCEPT !.cancelRequested = TRUE]
          \/ row'[i] = [row[i] EXCEPT !.results = "human"]
          \/ \E x \in {"draft", "submitted"} : row'[i] = [row[i] EXCEPT !.review = x]
      <4>1. CASE CommitSubmit(j) \/ CommitReopen(j)
        BY <4>1 DEF CommitSubmit, CommitReopen, Commit, TypeOK
      <4>2. CASE CommitCancel(j)
        BY <4>2 DEF CommitCancel, Commit, TypeOK
      <4>3. CASE CommitEdit(j)
        BY <4>3 DEF CommitEdit, Commit, TypeOK
      <4>4. CASE RemoveVideo(j) \/ CommitDelete(j) \/ CommitCreate(j)
        BY <4>4 DEF RemoveVideo, CommitDelete, Commit, CommitCreate, TypeOK
      <4>5. CASE UNCHANGED row
        BY <4>5
      <4>6. QED
        BY <4>1, <4>2, <4>3, <4>4, <4>5
        DEF User, Server, Dispatch, AdmitCancel, AdmitDelete, AdmitEdit, AdmitSubmit, AdmitReopen,
            Admit, AbortCreate, AbortRequest
    <3>3. row'[i].retryCount = row[i].retryCount \/ row'[i].retryCount = 0
      BY <3>1, <3>2 DEF Row
    <3>4. QED
      BY <3>1, <3>3
  <2>3. Tokens(i)' \subseteq Tokens(i)
    BY <1>0, <2>1, TokenIn, TokenInNext
  <2>4. QED
    BY <1>0, <2>2, <2>3, Stay
<1>3. QED
  BY <1>1, <1>2

LEMMA LeftFalls ==
  ASSUME TypeOK, NEW w \in Workers,
         run'[w].job = run[w].job, run'[w].retries = run[w].retries,
         \/ run'[w].pc \in {"idle", "closing"}
         \/ run'[w].pc = run[w].pc
         \/ run[w].pc \notin {"idle", "closing", "retry", "exhausted"}
  PROVE  Left(w)' = 0 \/ (run'[w].job = run[w].job /\ Left(w)' <= Left(w))
<1>1. run[w].retries \in 0 .. MaxRetries
  BY DEF TypeOK, Run
<1>2. QED
  BY <1>1, MaxRetriesAssumption DEF Left

\* Steps of one attempt that neither fail it nor send anything.
LEMMA QuietAttempt ==
  ASSUME TypeOK, NEW w \in Workers,
         \/ Start(w) \/ Fetch(w) \/ Setup(w) \/ CheckPasses(w) \/ CheckCancels(w)
         \/ CheckTimesOut(w) \/ StageDone(w) \/ StageRaises(w) \/ Finish(w) \/ FinishHidden(w)
         \/ MarkStopped(w) \/ MarkExhausted(w) \/ Ack(w) \/ Background(w)
         \/ ProcessLost(w) \/ TaskError(w) \/ PollFails(w)
  PROVE  /\ \A v \in Workers \ {w} : run'[v] = run[v]
         /\ tx' = tx /\ queue' = queue /\ faults'.redelivered = faults.redelivered
         /\ Left(w)' = 0 \/ (run'[w].job = run[w].job /\ Left(w)' <= Left(w))
<1>0. run[w] \in Run /\ Idle.pc = "idle"
  BY DEF TypeOK, Idle
<1>1. CASE Ack(w) \/ ProcessLost(w)
  <2>1. /\ run'[w] = Idle /\ \A v \in Workers \ {w} : run'[v] = run[v]
        /\ tx' = tx /\ queue' = queue /\ faults'.redelivered = faults.redelivered
    BY <1>1 DEF Ack, ProcessLost, CountError, TypeOK
  <2>2. QED
    BY <1>0, <2>1 DEF Left
<1>2. CASE Fetch(w) \/ Setup(w) \/ CheckPasses(w) \/ CheckCancels(w) \/ CheckTimesOut(w)
           \/ StageRaises(w) \/ Finish(w) \/ FinishHidden(w) \/ MarkStopped(w)
           \/ MarkExhausted(w) \/ TaskError(w)
  <2>1. PICK pc : /\ Goto(w, pc)
                  /\ pc = "closing" \/ run[w].pc \notin {"idle", "closing", "retry", "exhausted"}
    BY <1>2 DEF Fetch, Setup, CheckPasses, CheckCancels, CheckTimesOut, StageRaises, Finish,
                FinishHidden, MarkStopped, MarkExhausted, TaskError, Outcomes
  <2>2. /\ run'[w] = [run[w] EXCEPT !.pc = pc] /\ \A v \in Workers \ {w} : run'[v] = run[v]
    BY <2>1 DEF Goto, TypeOK
  <2>3. run'[w].pc = pc /\ run'[w].job = run[w].job /\ run'[w].retries = run[w].retries
    BY <1>0, <2>2 DEF Run
  <2>4. tx' = tx /\ queue' = queue /\ faults'.redelivered = faults.redelivered
    BY <1>2 DEF Fetch, Setup, CheckPasses, CheckCancels, CheckTimesOut, StageRaises, Finish,
                FinishHidden, MarkStopped, MarkExhausted, TaskError, CountError, TypeOK
  <2>5. QED
    BY <2>1, <2>2, <2>3, <2>4, LeftFalls
<1>3. CASE Start(w)
  <2>1. /\ \A v \in Workers \ {w} : run'[v] = run[v]
        /\ run'[w].job = run[w].job /\ run'[w].retries = run[w].retries
    <3>1. CASE Goto(w, "closing")
      BY <1>0, <3>1 DEF Goto, TypeOK, Run
    <3>2. CASE run' = [run EXCEPT ![w] = [run[w] EXCEPT !.pc = "fetch",
                         !.cancelAtStart = row[run[w].job].cancelRequested,
                         !.cancelEvent = row[run[w].job].cancelRequested]]
      <4>1. /\ run'[w] = [run[w] EXCEPT !.pc = "fetch",
                            !.cancelAtStart = row[run[w].job].cancelRequested,
                            !.cancelEvent = row[run[w].job].cancelRequested]
            /\ \A v \in Workers \ {w} : run'[v] = run[v]
        BY <3>2 DEF TypeOK
      <4>2. QED
        BY <1>0, <4>1 DEF Run
    <3>3. QED
      BY <1>3, <3>1, <3>2 DEF Start
  <2>2. run[w].pc = "start" /\ tx' = tx /\ queue' = queue /\ faults' = faults
    BY <1>3 DEF Start
  <2>3. QED
    BY <2>1, <2>2, LeftFalls
<1>4. CASE StageDone(w)
  <2>1. /\ \A v \in Workers \ {w} : run'[v] = run[v]
        /\ run'[w].job = run[w].job /\ run'[w].retries = run[w].retries
    BY <1>0, <1>4 DEF StageDone, TypeOK, Run
  <2>2. run[w].pc = "stage" /\ tx' = tx /\ queue' = queue /\ faults' = faults
    BY <1>4 DEF StageDone
  <2>3. QED
    BY <2>1, <2>2, LeftFalls
<1>5. CASE Background(w) \/ PollFails(w)
  <2>1. /\ \A v \in Workers \ {w} : run'[v] = run[v]
        /\ run'[w].pc = run[w].pc
        /\ run'[w].job = run[w].job /\ run'[w].retries = run[w].retries
    BY <1>0, <1>5 DEF Background, Persist, Poll, PollFails, TypeOK, Run
  <2>2. tx' = tx /\ queue' = queue /\ faults'.redelivered = faults.redelivered
    BY <1>5 DEF Background, Persist, Poll, PollFails, CountError, TypeOK
  <2>3. QED
    BY <2>1, <2>2, LeftFalls
<1>6. QED
  BY <1>1, <1>2, <1>3, <1>4, <1>5

\* Only MarkTransient counts a failure.
LEMMA OneFailureAtMost ==
  ASSUME TypeOK, RunShape, NEW w \in Workers, Task(w) \/ Background(w) \/ Fault(w), NEW i \in Jobs
  PROVE  row'[i].retryCount <=
           IF MarkTransient(w) /\ i = run[w].job THEN row[i].retryCount + 1 ELSE row[i].retryCount
<1>0. row[i] \in Row /\ row[i].retryCount \in Nat
  BY DEF TypeOK, Row
<1>1. CASE UNCHANGED row
  BY <1>0, <1>1
<1>2. CASE Start(w) \/ Finish(w)
  <2>1. \/ row'[i] = row[i]
        \/ row'[i] = [row[i] EXCEPT !.status = "running", !.stage = Preprocessing]
        \/ row'[i] = [row[i] EXCEPT !.status = "completed", !.stage = Done, !.results = "model"]
    <3>1. CASE Start(w)
      BY <3>1 DEF Start, TypeOK
    <3>2. CASE Finish(w)
      BY <3>2 DEF Finish, TypeOK
    <3>3. QED
      BY <1>2, <3>1, <3>2
  <2>2. row'[i].retryCount = row[i].retryCount
    BY <1>0, <2>1 DEF Row
  <2>3. QED
    BY <1>0, <2>2
<1>4. CASE MarkStopped(w) \/ MarkExhausted(w)
  <2>1. PICK s : SetStatus(run[w].job, s)
    BY <1>4 DEF MarkStopped, MarkExhausted
  <2>2. row'[i] = row[i] \/ row'[i] = [row[i] EXCEPT !.status = s]
    BY <2>1 DEF SetStatus, TypeOK
  <2>3. row'[i].retryCount = row[i].retryCount
    BY <1>0, <2>2 DEF Row
  <2>4. QED
    BY <1>0, <2>3
<1>5. CASE MarkTransient(w)
  <2>1. \/ row'[i] = row[i]
        \/ /\ i = run[w].job
           /\ row'[i] = [row[i] EXCEPT !.status = "pending", !.retryCount = row[i].retryCount + 1]
    BY <1>5 DEF MarkTransient, TypeOK
  <2>2. \/ row'[i].retryCount = row[i].retryCount
        \/ i = run[w].job /\ row'[i].retryCount = row[i].retryCount + 1
    BY <1>0, <2>1 DEF Row
  <2>3. QED
    BY <1>0, <1>5, <2>2
<1>6. CASE Background(w)
  <2>1. row'[i] = row[i] \/ \E k : row'[i] = [row[i] EXCEPT !.stage = k]
    <3>1. CASE Poll(w)
      BY <3>1 DEF Poll
    <3>2. CASE \E k \in 1 .. NumStages : Persist(w, k)
      <4>1. PICK k \in 1 .. NumStages : Persist(w, k)
        BY <3>2
      <4>2. row' = row \/ row' = [row EXCEPT ![run[w].job].stage = StageCode(k)]
        BY <4>1 DEF Persist
      <4>3. row'[i] = row[i] \/ row'[i] = [row[i] EXCEPT !.stage = StageCode(k)]
        BY <4>2 DEF TypeOK
      <4>4. QED
        BY <4>3
    <3>3. QED
      BY <1>6, <3>1, <3>2 DEF Background
  <2>2. row'[i].retryCount = row[i].retryCount
    BY <1>0, <2>1 DEF Row
  <2>3. QED
    BY <1>0, <2>2
<1>7. QED
  BY <1>1, <1>2, <1>4, <1>5, <1>6
  DEF Task, Fault, Take, Fetch, Setup, CheckPasses, CheckCancels, CheckTimesOut, StageDone,
      StageRaises, FinishHidden, PublishRetry, Ack, Redeliver, HostLost, ProcessLost, TaskError,
      PollFails

LEMMA QueueCounts ==
  ASSUME TypeOK, NEW j \in Jobs, NEW r \in 0 .. MaxRetries
  PROVE  queue[j][r] \in Nat
<1>1. queue[j] \in [0 .. MaxRetries -> Nat]
  BY DEF TypeOK
<1>2. QED
  BY <1>1

\* Where the tokens come from when a copy of a message is added.
LEMMA CopyTokens ==
  ASSUME TypeOK, RunShape, TypeOK', RunShape', NEW w \in Workers, NEW j \in Jobs,
         NEW r \in 0 .. MaxRetries, OnlyRun(w), tx' = tx,
         \A h \in Jobs, s \in 0 .. MaxRetries :
           queue'[h][s] = IF h = j /\ s = r THEN queue[j][r] + 1 ELSE queue[h][s],
         Left(w)' = 0 \/ (run'[w].job = run[w].job /\ Left(w)' = Left(w)),
         NEW i \in Jobs, NEW t \in Tokens(i)'
  PROVE  \/ t \in Tokens(i) /\ (Left(w)' = 0 => t \notin Units("attempt", w, 0, Left(w)))
         \/ i = j /\ t \in Units("message", r, queue[j][r] + 1, MaxRetries + 1 - r)
<1>1. PICK q \in Nat : q = queue[j][r]
  BY QueueCounts
<1>2. \A s \in 0 .. MaxRetries : queue[i][s] \in Nat
  BY QueueCounts
<1>3. ASSUME NEW s \in 0 .. MaxRetries
      PROVE  queue'[i][s] = IF i = j /\ s = r THEN q + 1 ELSE queue[i][s]
  BY <1>1
<1>4. CASE tx'[i] = "new" /\ t \in Units("new", 0, 0, MaxRetries + 1)
  <2>1. t \in Tokens(i)
    BY <1>4, TokenIn
  <2>2. t \notin Units("attempt", w, 0, Left(w))
    BY <1>4 DEF Units
  <2>3. QED
    BY <2>1, <2>2
<1>5. CASE \E s \in 0 .. MaxRetries : \E n \in 1 .. queue'[i][s] :
             t \in Units("message", s, n, MaxRetries + 1 - s)
  <2>1. PICK s \in 0 .. MaxRetries : \E n \in 1 .. queue'[i][s] :
               t \in Units("message", s, n, MaxRetries + 1 - s)
    BY <1>5
  <2>2. PICK n \in 1 .. queue'[i][s] : t \in Units("message", s, n, MaxRetries + 1 - s)
    BY <2>1
  <2>3. CASE i = j /\ s = r /\ n = q + 1
    BY <1>1, <2>2, <2>3
  <2>4. CASE ~(i = j /\ s = r /\ n = q + 1)
    <3>1. n \in 1 .. queue[i][s]
      BY <1>1, <1>2, <1>3, <2>2, <2>4
    <3>2. t \in Tokens(i)
      BY <2>2, <3>1, TokenIn
    <3>3. t \notin Units("attempt", w, 0, Left(w))
      BY <2>2 DEF Units
    <3>4. QED
      BY <3>2, <3>3
  <2>5. QED
    BY <2>3, <2>4
<1>6. CASE \E v \in Workers : run'[v].job = i /\ t \in Units("attempt", v, 0, Left(v)')
  <2>1. PICK v \in Workers : run'[v].job = i /\ t \in Units("attempt", v, 0, Left(v)')
    BY <1>6
  <2>2. CASE v = w
    <3>1. run'[w].job = run[w].job /\ Left(w)' = Left(w) /\ Left(w)' # 0
      BY <2>1, <2>2, UnitsOfNone
    <3>2. QED
      BY <2>1, <2>2, <3>1, TokenIn
  <2>3. CASE v # w
    <3>1. t \in Tokens(i)
      BY <2>1, <2>3, TokenIn DEF OnlyRun
    <3>2. t \notin Units("attempt", w, 0, Left(w))
      BY <2>1, <2>3 DEF Units
    <3>3. QED
      BY <3>1, <3>2
  <2>4. QED
    BY <2>2, <2>3
<1>7. QED
  BY <1>4, <1>5, <1>6, TokenInNext

\* A worker that is busy, or starts, with a message has as many failures left.
LEMMA TakeRetry ==
  ASSUME TypeOK, RunShape, TypeOK', RunShape', NEW w \in Workers, NEW j \in Jobs,
         NEW r \in 0 .. MaxRetries, Take(w, j, r), NEW i \in Jobs, WithinBudget(i)
  PROVE  WithinBudget(i)'
<1>0. PICK q \in Nat : q = queue[j][r]
  BY QueueCounts
<1>1. /\ q > 0 /\ row' = row /\ tx' = tx /\ faults' = faults /\ Budget' = Budget
      /\ \A h \in Jobs, s \in 0 .. MaxRetries :
           queue'[h][s] = IF h = j /\ s = r THEN q - 1 ELSE queue[h][s]
      /\ \A h \in Jobs, s \in 0 .. MaxRetries : queue[h][s] \in Nat
  <2>1. q > 0 /\ row' = row /\ tx' = tx /\ faults' = faults /\ Budget' = Budget
    BY <1>0 DEF Take, Budget
  <2>2. /\ queue'[j] = [queue[j] EXCEPT ![r] = q - 1]
        /\ \A h \in Jobs \ {j} : queue'[h] = queue[h]
    BY <1>0 DEF Take, TypeOK
  <2>3. \A s \in 0 .. MaxRetries : queue'[j][s] = IF s = r THEN q - 1 ELSE queue[j][s]
    <3>1. queue[j] \in [0 .. MaxRetries -> Nat]
      BY DEF TypeOK
    <3>2. QED
      BY <2>2, <3>1
  <2>4. \A h \in Jobs, s \in 0 .. MaxRetries :
          queue'[h][s] = IF h = j /\ s = r THEN q - 1 ELSE queue[h][s]
    BY <2>2, <2>3
  <2>5. \A h \in Jobs, s \in 0 .. MaxRetries : queue[h][s] \in Nat
    BY QueueCounts
  <2>6. QED
    BY <2>1, <2>4, <2>5
<1>2. /\ Left(w) = 0 /\ run'[w].job = j /\ Left(w)' = MaxRetries + 1 - r /\ OnlyRun(w)
  <2>1. /\ run'[w] = [Idle EXCEPT !.pc = "start", !.job = j, !.retries = r]
        /\ \A v \in Workers \ {w} : run'[v] = run[v]
        /\ run[w].pc = "idle"
    BY DEF Take, TypeOK
  <2>2. run'[w].pc = "start" /\ run'[w].job = j /\ run'[w].retries = r
    BY <2>1 DEF Idle
  <2>3. QED
    BY <2>1, <2>2, OthersRun DEF Left
<1> DEFINE U == Units("message", r, q, MaxRetries + 1 - r)
           V == Units("attempt", w, 0, MaxRetries + 1 - r)
<1>3. MaxRetries + 1 - r \in Nat
  BY MaxRetriesAssumption
<1>4. ASSUME NEW t \in Tokens(i)'
      PROVE  IF i = j THEN t \in (Tokens(i) \ U) \cup V ELSE t \in Tokens(i)
  <2>1. CASE tx'[i] = "new" /\ t \in Units("new", 0, 0, MaxRetries + 1)
    BY <1>1, <2>1, TokenIn DEF Units
  <2>2. CASE \E s \in 0 .. MaxRetries : \E n \in 1 .. queue'[i][s] :
               t \in Units("message", s, n, MaxRetries + 1 - s)
    <3>1. PICK s \in 0 .. MaxRetries : \E n \in 1 .. queue'[i][s] :
                 t \in Units("message", s, n, MaxRetries + 1 - s)
      BY <2>2
    <3>2. PICK n \in 1 .. queue'[i][s] : t \in Units("message", s, n, MaxRetries + 1 - s)
      BY <3>1
    <3>3. n \in 1 .. queue[i][s] /\ (i = j /\ s = r => n < q)
      BY <1>0, <1>1
    <3>4. t \in Tokens(i)
      BY <3>2, <3>3, TokenIn
    <3>5. i = j => t \notin U
      BY <3>2, <3>3 DEF Units
    <3>6. QED
      BY <3>4, <3>5
  <2>3. CASE \E v \in Workers : run'[v].job = i /\ t \in Units("attempt", v, 0, Left(v)')
    <3>1. PICK v \in Workers : run'[v].job = i /\ t \in Units("attempt", v, 0, Left(v)')
      BY <2>3
    <3>2. CASE v = w
      BY <1>2, <3>1, <3>2
    <3>3. CASE v # w
      <4>1. t \in Tokens(i)
        BY <1>2, <3>1, <3>3, TokenIn DEF OnlyRun
      <4>2. t \notin U
        BY <3>1 DEF Units
      <4>3. QED
        BY <4>1, <4>2
    <3>4. QED
      BY <3>2, <3>3
  <2>4. QED
    BY <2>1, <2>2, <2>3, TokenInNext
<1>5. U \subseteq Tokens(j)
  <2>1. q \in 1 .. queue[j][r]
    BY <1>0, <1>1
  <2>2. QED
    BY <2>1, TokenIn
<1> HIDE DEF U, V
<1>6. row'[i].retryCount \in Nat /\ row'[i].retryCount = row[i].retryCount
  BY <1>1 DEF TypeOK, Row
<1>7. CASE i = j
  <2>1. Tokens(j)' \subseteq (Tokens(j) \ U) \cup V
    BY <1>4, <1>7
  <2>2. row'[j].retryCount + (MaxRetries + 1 - r) <= row[j].retryCount + (MaxRetries + 1 - r)
    BY <1>3, <1>6, <1>7
  <2>3. QED
    BY <1>1, <1>3, <1>5, <1>7, <2>1, <2>2, Spend DEF U, V
<1>8. CASE i # j
  <2>1. Tokens(i)' \subseteq Tokens(i)
    BY <1>4, <1>8
  <2>2. QED
    BY <1>1, <1>6, <2>1, Stay
<1>9. QED
  BY <1>7, <1>8

\* A failure is counted, and the attempt has one less to come.
LEMMA TransientRetry ==
  ASSUME TypeOK, RunShape, TypeOK', RunShape', NEW w \in Workers, MarkTransient(w),
         NEW i \in Jobs, WithinBudget(i)
  PROVE  WithinBudget(i)'
<1>1. /\ \A v \in Workers \ {w} : run'[v] = run[v]
      /\ run'[w] = [run[w] EXCEPT !.late = {}, !.pc = AfterTransient(w)]
      /\ run[w].pc = "transient" /\ tx' = tx /\ queue' = queue /\ faults' = faults
  BY DEF MarkTransient, TypeOK
<1>2. PICK a \in Nat, b \in Nat : a = Left(w) /\ b = Left(w)'
  BY LeftType, LeftTypeNext
<1>3. run'[w].job = run[w].job /\ b + 1 <= a
  <2>1. /\ run'[w].job = run[w].job /\ run'[w].retries = run[w].retries
        /\ run'[w].pc = AfterTransient(w)
    BY <1>1 DEF TypeOK, Run
  <2>2. AfterTransient(w) \in {"closing", "exhausted", "retry"}
    BY DEF AfterTransient
  <2>3. run[w].retries \in 0 .. MaxRetries
    BY DEF TypeOK, Run
  <2>4. a = MaxRetries + 1 - run[w].retries
    BY <1>1, <1>2 DEF Left
  <2>5. b = 0 \/ b = MaxRetries - run[w].retries
    BY <1>2, <2>1, <2>2 DEF Left
  <2>6. QED
    BY <2>1, <2>3, <2>4, <2>5, MaxRetriesAssumption
<1>4. OnlyRun(w) /\ Budget' = Budget
  BY <1>1, OthersRun DEF Budget
<1>5. CASE i = run[w].job
  <2> DEFINE U == Units("attempt", w, 0, a)
             V == Units("attempt", w, 0, b)
  <2>1. U \subseteq Tokens(i)
    BY <1>2, <1>5, TokenIn
  <2>2. ASSUME NEW t \in Tokens(i)'
        PROVE  t \in (Tokens(i) \ U) \cup V
    <3>1. CASE \E v \in Workers : run'[v].job = i /\ t \in Units("attempt", v, 0, Left(v)')
      <4>1. PICK v \in Workers : run'[v].job = i /\ t \in Units("attempt", v, 0, Left(v)')
        BY <3>1
      <4>2. CASE v = w
        BY <1>2, <4>1, <4>2
      <4>3. CASE v # w
        <5>1. t \in Tokens(i)
          BY <1>4, <4>1, <4>3, TokenIn DEF OnlyRun
        <5>2. t \notin U
          BY <4>1, <4>3 DEF Units
        <5>3. QED
          BY <5>1, <5>2
      <4>4. QED
        BY <4>2, <4>3
    <3>2. CASE ~ \E v \in Workers : run'[v].job = i /\ t \in Units("attempt", v, 0, Left(v)')
      <4>1. t \in Tokens(i)
        BY <1>1, <2>2, <3>2, TokenIn, TokenInNext
      <4>2. t \notin U
        BY <1>1, <2>2, <3>2, TokenInNext DEF Units
      <4>3. QED
        BY <4>1, <4>2
    <3>3. QED
      BY <3>1, <3>2
  <2> HIDE DEF U, V
  <2>3. Tokens(i)' \subseteq (Tokens(i) \ U) \cup V
    BY <2>2
  <2>4. row[i].retryCount \in Nat /\ row'[i].retryCount \in Nat
    BY DEF TypeOK, Row
  <2>5. row'[i].retryCount <= row[i].retryCount + 1
    BY <1>5, OneFailureAtMost DEF Task
  <2>6. row'[i].retryCount + b <= row[i].retryCount + a
    BY <1>3, <2>4, <2>5
  <2>7. QED
    BY <1>4, <2>1, <2>3, <2>6, Spend DEF U, V
<1>6. CASE i # run[w].job
  <2>1. row'[i].retryCount <= row[i].retryCount
    BY <1>6, OneFailureAtMost DEF Task
  <2>2. Left(w)' <= Left(w) /\ faults'.redelivered = faults.redelivered
    BY <1>1, <1>2, <1>3
  <2>3. QED
    BY <1>1, <1>3, <1>4, <2>1, <2>2, AttemptGoesOn
<1>7. QED
  BY <1>5, <1>6

\* The next attempt is sent with what is left of this one.
LEMMA PublishedRetry ==
  ASSUME TypeOK, RunShape, TypeOK', RunShape', NEW w \in Workers, PublishRetry(w),
         NEW i \in Jobs, WithinBudget(i)
  PROVE  WithinBudget(i)'
<1>1. PICK j \in Jobs, r \in 0 .. MaxRetries : j = run[w].job /\ r = run[w].retries + 1
  BY MaxRetriesAssumption DEF PublishRetry, RunShape, TypeOK, Run
<1>2. PICK q \in Nat : q = queue[j][r]
  BY QueueCounts
<1>3. \A h \in Jobs, s \in 0 .. MaxRetries :
        queue'[h][s] = IF h = j /\ s = r THEN q + 1 ELSE queue[h][s]
  <2>1. /\ queue'[j] = [queue[j] EXCEPT ![r] = q + 1]
        /\ \A h \in Jobs \ {j} : queue'[h] = queue[h]
    BY <1>1, <1>2 DEF PublishRetry, TypeOK
  <2>2. queue[j] \in [0 .. MaxRetries -> Nat]
    BY DEF TypeOK
  <2>3. \A s \in 0 .. MaxRetries : queue'[j][s] = IF s = r THEN q + 1 ELSE queue[j][s]
    BY <2>1, <2>2
  <2>4. QED
    BY <2>1, <2>3
<1>4. /\ run[w].pc = "retry" /\ run'[w].pc = "closing"
      /\ \A v \in Workers \ {w} : run'[v] = run[v]
      /\ row' = row /\ tx' = tx /\ faults' = faults /\ Budget' = Budget
  BY DEF PublishRetry, Goto, TypeOK, Budget, Run
<1>5. /\ OnlyRun(w) /\ Left(w)' = 0 /\ Left(w) = MaxRetries + 1 - r
      /\ MaxRetries + 1 - r \in Nat
  <2>1. OnlyRun(w) /\ Left(w)' = 0
    BY <1>4, OthersRun DEF Left
  <2>2. Left(w) = MaxRetries - run[w].retries /\ run[w].retries \in Nat
    BY <1>4 DEF Left, TypeOK, Run
  <2>3. QED
    BY <1>1, <2>1, <2>2, MaxRetriesAssumption
<1> DEFINE U == Units("attempt", w, 0, MaxRetries + 1 - r)
           V == Units("message", r, q + 1, MaxRetries + 1 - r)
<1>6. ASSUME NEW t \in Tokens(i)'
      PROVE  (t \in Tokens(i) /\ t \notin U) \/ (i = j /\ t \in V)
  BY <1>2, <1>3, <1>4, <1>5, CopyTokens
<1>7. U \subseteq Tokens(j)
  BY <1>1, <1>5, TokenIn
<1> HIDE DEF U, V
<1>8. row'[i].retryCount \in Nat /\ row'[i].retryCount = row[i].retryCount
  BY <1>4 DEF TypeOK, Row
<1>9. CASE i = j
  <2>1. Tokens(j)' \subseteq (Tokens(j) \ U) \cup V
    BY <1>6, <1>9
  <2>2. row'[j].retryCount + (MaxRetries + 1 - r) <= row[j].retryCount + (MaxRetries + 1 - r)
    BY <1>5, <1>8, <1>9
  <2>3. QED
    BY <1>4, <1>5, <1>7, <1>9, <2>1, <2>2, Spend DEF U, V
<1>10. CASE i # j
  <2>1. Tokens(i)' \subseteq Tokens(i)
    BY <1>6, <1>10
  <2>2. QED
    BY <1>4, <1>8, <2>1, Stay
<1>11. QED
  BY <1>9, <1>10

\* A delivery that is repeated brings a new chain, and the budget for it.
LEMMA RepeatedDelivery ==
  ASSUME TypeOK, RunShape, TypeOK', RunShape', NEW w \in Workers, Redeliver(w) \/ HostLost(w),
         NEW i \in Jobs, WithinBudget(i)
  PROVE  WithinBudget(i)'
<1>1. PICK j \in Jobs, r \in 0 .. MaxRetries : j = run[w].job /\ r = run[w].retries
  BY DEF Redeliver, HostLost, RunShape, TypeOK, Run
<1>2. PICK q \in Nat : q = queue[j][r]
  BY QueueCounts
<1>3. \A h \in Jobs, s \in 0 .. MaxRetries :
        queue'[h][s] = IF h = j /\ s = r THEN q + 1 ELSE queue[h][s]
  <2>1. /\ queue'[j] = [queue[j] EXCEPT ![r] = q + 1]
        /\ \A h \in Jobs \ {j} : queue'[h] = queue[h]
    BY <1>1, <1>2 DEF Redeliver, HostLost, ReturnMessage, TypeOK
  <2>2. queue[j] \in [0 .. MaxRetries -> Nat]
    BY DEF TypeOK
  <2>3. \A s \in 0 .. MaxRetries : queue'[j][s] = IF s = r THEN q + 1 ELSE queue[j][s]
    BY <2>1, <2>2
  <2>4. QED
    BY <2>1, <2>3
<1>4. /\ row' = row /\ tx' = tx /\ faults'.redelivered = faults.redelivered + 1
      /\ \A v \in Workers \ {w} : run'[v] = run[v]
      /\ run'[w] = run[w] \/ run'[w] = Idle
  BY DEF Redeliver, HostLost, CountRedelivery, TypeOK
<1>5. OnlyRun(w) /\ (Left(w)' = 0 \/ (run'[w].job = run[w].job /\ Left(w)' = Left(w)))
  BY <1>4, OthersRun DEF Left, Idle
<1> DEFINE V == Units("message", r, q + 1, MaxRetries + 1 - r)
<1>6. ASSUME NEW t \in Tokens(i)'
      PROVE  t \in Tokens(i) \/ t \in V
  BY <1>2, <1>3, <1>4, <1>5, CopyTokens
<1> HIDE DEF V
<1>7. Units("new", 0, 0, 0) = {}
  BY UnitsOfNone
<1>8. /\ Units("new", 0, 0, 0) \subseteq Tokens(i)
      /\ Tokens(i)' \subseteq (Tokens(i) \ Units("new", 0, 0, 0)) \cup V
  BY <1>6, <1>7
<1>9. /\ Budget' = Budget + (MaxRetries + 1)
      /\ MaxRetries + 1 - r \in Nat /\ MaxRetries + 1 - r <= MaxRetries + 1
      /\ row'[i].retryCount <= row[i].retryCount
  <2>1. row[i].retryCount \in Nat
    BY DEF TypeOK, Row
  <2>2. QED
    BY <1>4, <2>1, BudgetGrows, MaxRetriesAssumption
<1>10. QED
  BY <1>8, <1>9, Spend DEF V

LEMMA WorkerRetry ==
  ASSUME TypeOK, RunShape, TypeOK', RunShape', NEW w \in Workers,
         Task(w) \/ Background(w) \/ Fault(w), NEW i \in Jobs, WithinBudget(i)
  PROVE  WithinBudget(i)'
<1>1. CASE \E j \in Jobs, r \in 0 .. MaxRetries : Take(w, j, r)
  BY <1>1, TakeRetry
<1>2. CASE MarkTransient(w)
  BY <1>2, TransientRetry
<1>3. CASE PublishRetry(w)
  BY <1>3, PublishedRetry
<1>4. CASE Redeliver(w) \/ HostLost(w)
  BY <1>4, RepeatedDelivery
<1>5. CASE \/ Start(w) \/ Fetch(w) \/ Setup(w) \/ CheckPasses(w) \/ CheckCancels(w)
           \/ CheckTimesOut(w) \/ StageDone(w) \/ StageRaises(w) \/ Finish(w) \/ FinishHidden(w)
           \/ MarkStopped(w) \/ MarkExhausted(w) \/ Ack(w) \/ Background(w)
           \/ ProcessLost(w) \/ TaskError(w) \/ PollFails(w)
  <2>1. /\ \A v \in Workers \ {w} : run'[v] = run[v]
        /\ tx' = tx /\ queue' = queue /\ faults'.redelivered = faults.redelivered
        /\ Left(w)' = 0 \/ (run'[w].job = run[w].job /\ Left(w)' <= Left(w))
    BY <1>5, QuietAttempt
  <2>2. CASE MarkTransient(w)
    BY <2>2, TransientRetry
  <2>3. CASE ~MarkTransient(w)
    BY <2>1, <2>3, OthersRun, OneFailureAtMost, AttemptGoesOn
  <2>4. QED
    BY <2>2, <2>3
<1>6. QED
  BY <1>1, <1>2, <1>3, <1>4, <1>5 DEF Task, Fault

\* Before anything happens a job has the failures of the one chain it will start.
LEMMA RetryStart == Init => RetryInv
<1> SUFFICES ASSUME Init
             PROVE  RetryInv
  OBVIOUS
<1>1. TypeOK /\ RunShape
  BY InitType
<1>2. ASSUME NEW j \in Jobs
      PROVE  WithinBudget(j)
  <2>1. /\ tx[j] = "new" /\ row[j].retryCount = 0 /\ faults.redelivered = 0
        /\ \A r \in 0 .. MaxRetries : queue[j][r] = 0
        /\ \A w \in Workers : run[w].pc = "idle"
    BY DEF Init, NoRow, Idle
  <2>2. \A w \in Workers : Left(w) = 0
    BY <2>1 DEF Left
  <2>3. Tokens(j) = Units("new", 0, 0, MaxRetries + 1)
    <3>1. ASSUME NEW t \in Tokens(j)
          PROVE  t \in Units("new", 0, 0, MaxRetries + 1)
      BY <2>1, <2>2, <3>1, UnitsOfNone, TokenIn
    <3>2. QED
      BY <2>1, <3>1, TokenIn
  <2>4. IsFiniteSet(Tokens(j)) /\ Cardinality(Tokens(j)) = MaxRetries + 1
    BY <2>3, UnitsCount, MaxRetriesAssumption
  <2>5. Budget = MaxRetries + 1
    BY <2>1, MaxRetriesAssumption DEF Budget
  <2>6. QED
    BY <2>1, <2>4, <2>5, MaxRetriesAssumption DEF WithinBudget
<1>3. QED
  BY <1>1, <1>2 DEF RetryInv

LEMMA RetryStep == RetryInv /\ [Next]_vars => RetryInv'
<1> SUFFICES ASSUME RetryInv, [Next]_vars
             PROVE  RetryInv'
  OBVIOUS
<1>1. TypeOK /\ RunShape /\ TypeOK' /\ RunShape'
  BY TypeStep DEF RetryInv
<1>2. ASSUME NEW i \in Jobs
      PROVE  WithinBudget(i)'
  <2>1. WithinBudget(i)
    BY DEF RetryInv
  <2>2. CASE \E j \in Jobs : User(j) \/ Server(j)
    BY <1>1, <2>1, <2>2, RequestRetry
  <2>3. CASE \E w \in Workers : Task(w) \/ Background(w) \/ Fault(w)
    BY <1>1, <2>1, <2>3, WorkerRetry
  <2>4. CASE UNCHANGED vars
    BY <2>1, <2>4 DEF vars, WithinBudget, Tokens, Left, Budget
  <2>5. QED
    BY <2>2, <2>3, <2>4 DEF Next
<1>3. QED
  BY <1>1, <1>2 DEF RetryInv

THEOREM RetryInvariant == Spec => []RetryInv
  BY RetryStart, RetryStep, PTL DEF Spec

\* However often the broker repeats a delivery, retry_count stays within
\* (max_retries + 1) for each delivery: one chain of retries for the message, and
\* one for each repeated delivery.
THEOREM RetriesAreBounded == Spec => []RetryBound
<1>1. RetryInv => RetryBound
  <2> SUFFICES ASSUME RetryInv, NEW j \in Jobs
               PROVE  row[j].retryCount <= (MaxRetries + 1) * (1 + faults.redelivered)
    BY DEF RetryBound
  <2>1. WithinBudget(j)
    BY DEF RetryInv
  <2>2. Cardinality(Tokens(j)) \in Nat
    BY <2>1, FS_CardinalityType DEF WithinBudget
  <2>3. row[j].retryCount \in Nat /\ Budget \in Nat
    <3>1. row[j].retryCount \in Nat
      BY DEF RetryInv, TypeOK, Row
    <3>2. MaxRetries + 1 \in Nat /\ faults.redelivered \in Nat
      BY MaxRetriesAssumption, FaultBoundsAssumption DEF RetryInv, TypeOK
    <3>3. QED
      BY <3>1, <3>2, Distributes DEF Budget
  <2>4. row[j].retryCount <= Budget
    BY <2>1, <2>2, <2>3 DEF WithinBudget
  <2>5. QED
    BY <2>4 DEF Budget
<1>2. QED
  BY <1>1, RetryInvariant, PTL

-----------------------------------------------------------------------------
(* A broker that delivers each message once, for every number of jobs,     *)
(* worker processes, stages, retries and tasks that die: the right to run  *)
(* a job is one token, a message or an attempt, and the row agrees with    *)
(* whoever holds it.  From that no run replaces the rows a reviewer has    *)
(* submitted, and AnalysisJob implements JobLifecycle.                     *)

\* The row of a job that w is attempting: the attempt has been counted on it or
\* not, and a job with an attempt is not submitted.
HolderOK(w) ==
  LET j == run[w].job
      counted == run[w].pc \in {"exhausted", "retry"}
  IN
  Active(w) =>
    /\ tx[j] # "new"
    /\ tx[j] = "open" => run[w].pc = "start" /\ run[w].retries = 0
    /\ row[j].review = "draft"
    /\ Exists(j) =>
         /\ row[j].status = IF counted \/ run[w].pc = "start" THEN "pending" ELSE "running"
         /\ row[j].retryCount = IF counted THEN run[w].retries + 1 ELSE run[w].retries
    /\ run[w].pc = "exhausted" => run[w].retries = MaxRetries

\* The row of a job whose message waits with retry header r.
WaitingOK(j, r) ==
  /\ tx[j] # "new"
  /\ tx[j] = "open" => r = 0
  /\ row[j].review = "draft"
  /\ Exists(j) => row[j].status = "pending" /\ row[j].retryCount = r

Once ==
  /\ OneHolder
  /\ \A w \in Workers : HolderOK(w)
  /\ \A j \in Jobs, r \in 0 .. MaxRetries : queue[j][r] > 0 => WaitingOK(j, r)
  /\ \A j \in Jobs : row[j].retryCount <= MaxRetries + 1

\* A submission in flight is of a job that is completed, and so nobody's.
SubmitOK(j) ==
  "submit" \in request[j] => tx[j] = "closed" /\ (Exists(j) => row[j].status = "completed")

OnceInv == CancelInv /\ Once /\ \A j \in Jobs : SubmitOK(j)

-----------------------------------------------------------------------------
(* What a step leaves alone.                                               *)

\* What HolderOK and WaitingOK say of a row is not touched.
SameRow(i) ==
  /\ row'[i].status = row[i].status
  /\ row'[i].retryCount = row[i].retryCount
  /\ row'[i].review = row[i].review

SameRun(w) ==
  /\ run'[w].pc = run[w].pc
  /\ run'[w].job = run[w].job
  /\ run'[w].retries = run[w].retries

\* w goes on with the task it has.
GoesOn(w) ==
  /\ run'[w].job = run[w].job
  /\ run'[w].retries = run[w].retries
  /\ \A v \in Workers \ {w} : run'[v] = run[v]

LEMMA GotoGoesOn ==
  ASSUME TypeOK, NEW w \in Workers, NEW pc, Goto(w, pc)
  PROVE  GoesOn(w) /\ run'[w].pc = pc
  BY DEF TypeOK, Goto, Run, GoesOn

\* A step of a worker's attempt that leaves HolderOK true of the worker.
LEMMA AttemptStep ==
  ASSUME OnceInv, NEW w \in Workers, Active(w), GoesOn(w), UNCHANGED <<queue, tx>>,
         \A i \in Jobs \ {run[w].job} : SameRow(i),
         row'[run[w].job].retryCount <= MaxRetries + 1,
         HolderOK(w)'
  PROVE  Once'
<1> DEFINE j == run[w].job
<1>1. j \in Jobs
  BY DEF OnceInv, CancelInv, RunShape, Active
<1>2. \A r \in 0 .. MaxRetries : ~(queue[j][r] > 0)
  BY <1>1 DEF OnceInv, Once, OneHolder
<1>3. \A v \in Workers \ {w} : Active(v) => run[v].job # j
  BY <1>1 DEF OnceInv, Once, OneHolder
<1>4. \A v \in Workers \ {w} : run'[v] = run[v] /\ (Active(v)' <=> Active(v))
  BY DEF GoesOn, Active
<1>5. OneHolder'
  BY <1>2, <1>3, <1>4 DEF OnceInv, Once, OneHolder, GoesOn
<1>6. ASSUME NEW v \in Workers \ {w}
      PROVE  HolderOK(v)'
  <2>1. CASE Active(v)
    <3>1. run[v].job \in Jobs \ {j} /\ HolderOK(v)
      BY <1>3, <2>1 DEF OnceInv, Once, CancelInv, RunShape, Active
    <3>2. SameRow(run[v].job)
      BY <3>1
    <3>3. QED
      BY <1>4, <2>1, <3>1, <3>2 DEF HolderOK, SameRow, Exists
  <2>2. CASE ~Active(v)
    BY <1>4, <2>2 DEF HolderOK
  <2>3. QED
    BY <2>1, <2>2
<1>7. ASSUME NEW i \in Jobs, NEW r \in 0 .. MaxRetries, queue'[i][r] > 0
      PROVE  WaitingOK(i, r)'
  BY <1>2, <1>7 DEF OnceInv, Once, WaitingOK, SameRow, Exists
<1>8. \A i \in Jobs : row'[i].retryCount <= MaxRetries + 1
  BY <1>1 DEF OnceInv, Once, SameRow
<1>9. QED
  BY <1>5, <1>6, <1>7, <1>8 DEF Once

\* A step that writes nothing of what Once speaks of, or lets the token go.
LEMMA QuietStep ==
  ASSUME OnceInv, UNCHANGED <<queue, tx>>, \A i \in Jobs : SameRow(i),
         \A v \in Workers : SameRun(v) \/ ~Active(v)'
  PROVE  Once'
<1>1. \A v \in Workers : Active(v)' => Active(v) /\ SameRun(v)
  BY DEF Active, SameRun
<1>2. OneHolder'
  BY <1>1 DEF OnceInv, Once, OneHolder, SameRun
<1>3. ASSUME NEW v \in Workers, Active(v)'
      PROVE  HolderOK(v)'
  <2>1. Active(v) /\ SameRun(v) /\ HolderOK(v) /\ run[v].job \in Jobs
    BY <1>1, <1>3 DEF OnceInv, Once, CancelInv, RunShape, Active
  <2>2. SameRow(run[v].job)
    BY <2>1
  <2>3. QED
    BY <2>1, <2>2 DEF HolderOK, SameRow, SameRun, Exists
<1>4. \A v \in Workers : ~Active(v)' => HolderOK(v)'
  BY DEF HolderOK
<1>5. \A i \in Jobs, r \in 0 .. MaxRetries : queue'[i][r] > 0 => WaitingOK(i, r)'
  BY DEF OnceInv, Once, WaitingOK, SameRow, Exists
<1>6. \A i \in Jobs : row'[i].retryCount <= MaxRetries + 1
  BY DEF OnceInv, Once, SameRow
<1>7. QED
  BY <1>2, <1>3, <1>4, <1>5, <1>6 DEF Once

-----------------------------------------------------------------------------
(* The API.                                                                *)

LEMMA RequestOnce ==
  ASSUME OnceInv, NEW j \in Jobs, User(j) \/ Server(j)
  PROVE  Once'
<1>0. /\ TypeOK /\ RowOK(j) /\ \A i \in Jobs : row[i] \in Row
      /\ NoRow.status = "absent" /\ NoRow.review = "draft" /\ NoRow.retryCount = 0
      /\ NewRow.status = "pending" /\ NewRow.review = "draft" /\ NewRow.retryCount = 0
  BY DEF OnceInv, CancelInv, TypeOK, NoRow, NewRow
<1>1. CASE Dispatch(j)
  <2>1. /\ tx[j] = "new" /\ UNCHANGED <<row, run>>
        /\ tx'[j] = "open" /\ \A i \in Jobs \ {j} : tx'[i] = tx[i]
    BY <1>0, <1>1 DEF Dispatch, TypeOK
  <2>2. /\ ~Exists(j) /\ row[j].review = "draft"
        /\ \A r \in 0 .. MaxRetries : ~(queue[j][r] > 0) /\ queue[j][r] \in Nat
    <3>1. ~Exists(j) /\ row[j].review = "draft"
      BY <1>0, <2>1 DEF RowOK
    <3>2. \A r \in 0 .. MaxRetries : ~(queue[j][r] > 0)
      BY <2>1 DEF OnceInv, Once, WaitingOK
    <3>3. QED
      BY <1>0, <3>1, <3>2 DEF TypeOK
  <2>3. \A w \in Workers : Active(w) => run[w].job # j
    BY <2>1 DEF OnceInv, Once, HolderOK
  <2>4. \A i \in Jobs, r \in 0 .. MaxRetries :
          queue'[i][r] = IF i = j /\ r = 0 THEN 1 ELSE queue[i][r]
    BY <1>0, <1>1, <2>2, MaxRetriesAssumption DEF Dispatch, TypeOK
  <2>5. 0 \in 0 .. MaxRetries /\ queue[j][0] = 0
    BY <2>2, MaxRetriesAssumption
  <2>6. OneHolder'
    BY <2>1, <2>2, <2>3, <2>4 DEF OnceInv, Once, OneHolder, Active
  <2>7. \A w \in Workers : HolderOK(w)'
    BY <2>1, <2>3 DEF OnceInv, Once, HolderOK, CancelInv, RunShape, Active, Exists
  <2>8. \A i \in Jobs, r \in 0 .. MaxRetries : queue'[i][r] > 0 => WaitingOK(i, r)'
    BY <2>1, <2>2, <2>4 DEF OnceInv, Once, WaitingOK, Exists
  <2>9. QED
    BY <2>1, <2>6, <2>7, <2>8 DEF OnceInv, Once
<1>2. ASSUME UNCHANGED <<queue, run>>, \A i \in Jobs \ {j} : row'[i] = row[i] /\ tx'[i] = tx[i],
             row'[j].retryCount <= MaxRetries + 1,
             \A w \in Workers : Active(w) /\ run[w].job = j => HolderOK(w)',
             \A r \in 0 .. MaxRetries : queue[j][r] > 0 => WaitingOK(j, r)'
      PROVE  Once'
  <2>1. OneHolder'
    BY <1>2 DEF OnceInv, Once, OneHolder, Active
  <2>2. \A w \in Workers : HolderOK(w)'
    BY <1>2 DEF OnceInv, Once, HolderOK, CancelInv, RunShape, Active, Exists
  <2>3. \A i \in Jobs, r \in 0 .. MaxRetries : queue'[i][r] > 0 => WaitingOK(i, r)'
    BY <1>2 DEF OnceInv, Once, WaitingOK, Exists
  <2>4. QED
    BY <1>2, <2>1, <2>2, <2>3 DEF OnceInv, Once
<1>3. CASE CommitCreate(j)
  <2>1. /\ tx[j] = "open" /\ tx'[j] = "closed" /\ row'[j] = NewRow /\ UNCHANGED <<queue, run>>
        /\ \A i \in Jobs \ {j} : row'[i] = row[i] /\ tx'[i] = tx[i]
    BY <1>0, <1>3 DEF CommitCreate, TypeOK
  <2>2. \A w \in Workers : Active(w) /\ run[w].job = j => HolderOK(w)'
    BY <1>0, <2>1 DEF OnceInv, Once, HolderOK, Active, Exists
  <2>3. \A r \in 0 .. MaxRetries : queue[j][r] > 0 => WaitingOK(j, r)'
    BY <1>0, <2>1 DEF OnceInv, Once, WaitingOK, Exists
  <2>4. QED
    BY <1>0, <1>2, <2>1, <2>2, <2>3, MaxRetriesAssumption
<1>4. CASE AbortCreate(j)
  <2>1. /\ tx[j] = "open" /\ tx'[j] = "closed" /\ UNCHANGED <<row, queue, run>>
        /\ \A i \in Jobs \ {j} : tx'[i] = tx[i]
    BY <1>0, <1>4 DEF AbortCreate, TypeOK
  <2>2. ~Exists(j)
    BY <1>0, <2>1 DEF RowOK
  <2>3. \A w \in Workers : Active(w) /\ run[w].job = j => HolderOK(w)'
    BY <2>1, <2>2 DEF OnceInv, Once, HolderOK, Active, Exists
  <2>4. \A r \in 0 .. MaxRetries : queue[j][r] > 0 => WaitingOK(j, r)'
    BY <2>1, <2>2 DEF OnceInv, Once, WaitingOK, Exists
  <2>5. row'[j].retryCount <= MaxRetries + 1
    BY <2>1 DEF OnceInv, Once
  <2>6. QED
    BY <1>2, <2>1, <2>3, <2>4, <2>5
<1>5. CASE CommitDelete(j) \/ RemoveVideo(j)
  <2>1. /\ row'[j] = NoRow /\ UNCHANGED <<tx, queue, run>>
        /\ \A i \in Jobs \ {j} : row'[i] = row[i]
    BY <1>0, <1>5 DEF CommitDelete, Commit, RemoveVideo, TypeOK
  <2>2. \A w \in Workers : Active(w) /\ run[w].job = j => HolderOK(w)'
    BY <1>0, <2>1 DEF OnceInv, Once, HolderOK, Active, Exists
  <2>3. \A r \in 0 .. MaxRetries : queue[j][r] > 0 => WaitingOK(j, r)'
    BY <1>0, <2>1 DEF OnceInv, Once, WaitingOK, Exists
  <2>4. QED
    BY <1>0, <1>2, <2>1, <2>2, <2>3, MaxRetriesAssumption
<1>6. CASE CommitSubmit(j)
  <2>1. /\ row'[j].retryCount = row[j].retryCount /\ UNCHANGED <<tx, queue, run>>
        /\ \A i \in Jobs \ {j} : row'[i] = row[i]
        /\ Exists(j) /\ "submit" \in request[j]
    BY <1>0, <1>6 DEF CommitSubmit, Commit, TypeOK, Row
  <2>2. row[j].status = "completed"
    BY <2>1 DEF OnceInv, SubmitOK
  <2>3. \A w \in Workers : ~(Active(w) /\ run[w].job = j)
    BY <2>1, <2>2 DEF OnceInv, Once, HolderOK
  <2>4. \A r \in 0 .. MaxRetries : ~(queue[j][r] > 0)
    BY <2>1, <2>2 DEF OnceInv, Once, WaitingOK
  <2>5. row'[j].retryCount <= MaxRetries + 1
    BY <2>1 DEF OnceInv, Once
  <2>6. QED
    BY <1>2, <2>1, <2>3, <2>4, <2>5
<1>7. CASE CommitReopen(j)
  <2>1. /\ row'[j].retryCount = row[j].retryCount /\ row'[j].status = row[j].status
        /\ row'[j].review = "draft" /\ UNCHANGED <<tx, queue, run>>
        /\ \A i \in Jobs \ {j} : row'[i] = row[i]
    BY <1>0, <1>7 DEF CommitReopen, Commit, TypeOK, Row
  <2>2. \A w \in Workers : Active(w) /\ run[w].job = j => HolderOK(w)'
    BY <2>1 DEF OnceInv, Once, HolderOK, Active, Exists
  <2>3. \A r \in 0 .. MaxRetries : queue[j][r] > 0 => WaitingOK(j, r)'
    BY <2>1 DEF OnceInv, Once, WaitingOK, Exists
  <2>4. row'[j].retryCount <= MaxRetries + 1
    BY <2>1 DEF OnceInv, Once
  <2>5. QED
    BY <1>2, <2>1, <2>2, <2>3, <2>4
<1>9. CASE UNCHANGED <<row, tx, queue, run>> \/ CommitCancel(j) \/ CommitEdit(j)
  <2>1. UNCHANGED <<tx, queue, run>> /\ \A i \in Jobs : SameRow(i)
    <3>1. CASE UNCHANGED <<row, tx, queue, run>>
      BY <3>1 DEF SameRow
    <3>2. CASE CommitCancel(j)
      BY <1>0, <3>2 DEF CommitCancel, Commit, TypeOK, Row, SameRow
    <3>3. CASE CommitEdit(j)
      BY <1>0, <3>3 DEF CommitEdit, Commit, TypeOK, Row, SameRow
    <3>4. QED
      BY <1>9, <3>1, <3>2, <3>3
  <2>2. QED
    BY <2>1, QuietStep DEF SameRun
<1>8. QED
  BY <1>1, <1>3, <1>4, <1>5, <1>6, <1>7, <1>9
  DEF User, Server, AdmitCancel, AdmitDelete, AdmitEdit, AdmitSubmit, AdmitReopen, Admit,
      AbortRequest

\* A submission is admitted on a completed job; the row of one is not created
\* again, and only a commit of its own changes it.
LEMMA RequestSubmit ==
  ASSUME OnceInv, NEW j \in Jobs, User(j) \/ Server(j), NEW i \in Jobs
  PROVE  SubmitOK(i)'
<1>0. TypeOK /\ RowOK(i) /\ RowOK(j) /\ SubmitOK(i) /\ row[i] \in Row /\ NoRow.status = "absent"
  BY DEF OnceInv, CancelInv, TypeOK, NoRow
<1>1. CASE Dispatch(j) \/ CommitCreate(j) \/ AbortCreate(j)
  BY <1>0, <1>1 DEF Dispatch, CommitCreate, AbortCreate, TypeOK, SubmitOK, Exists
<1>2. CASE AdmitSubmit(j)
  BY <1>0, <1>2 DEF AdmitSubmit, Admit, TypeOK, RowOK, SubmitOK, Exists
<1>3. CASE AdmitCancel(j) \/ AdmitDelete(j) \/ AdmitEdit(j) \/ AdmitReopen(j) \/ AbortRequest(j)
  <2>1. UNCHANGED <<row, tx>> /\ ("submit" \in request'[i] => "submit" \in request[i])
    BY <1>0, <1>3
    DEF AdmitCancel, AdmitDelete, AdmitEdit, AdmitReopen, Admit, AbortRequest, TypeOK
  <2>2. QED
    BY <1>0, <2>1 DEF SubmitOK, Exists
<1>4. CASE CommitDelete(j) \/ RemoveVideo(j)
  BY <1>0, <1>4 DEF CommitDelete, Commit, RemoveVideo, TypeOK, SubmitOK, Exists
<1>5. CASE CommitCancel(j) \/ CommitEdit(j) \/ CommitSubmit(j) \/ CommitReopen(j)
  <2>1. /\ UNCHANGED tx /\ ("submit" \in request'[i] => "submit" \in request[i])
        /\ row'[i].status = row[i].status
    BY <1>0, <1>5 DEF CommitCancel, CommitEdit, CommitSubmit, CommitReopen, Commit, TypeOK, Row
  <2>2. QED
    BY <1>0, <2>1 DEF SubmitOK, Exists
<1>6. QED
  BY <1>1, <1>2, <1>3, <1>4, <1>5 DEF User, Server

-----------------------------------------------------------------------------
(* The workers' writes.                                                    *)

\* w sets the status and the retry count of its job.
Writes(w, status, failures) ==
  LET j == run[w].job
  IN
  /\ j \in Jobs
  /\ Exists(j)
  /\ row'[j].status = status
  /\ row'[j].retryCount = failures
  /\ row'[j].review = row[j].review
  /\ row'[j].cancelRequested = row[j].cancelRequested
  /\ \A i \in Jobs \ {j} : row'[i] = row[i]

WritesNothing ==
  \A i \in Jobs : SameRow(i) /\ row'[i].cancelRequested = row[i].cancelRequested

LEMMA StartWrites ==
  ASSUME TypeOK, RunShape, NEW w \in Workers, Start(w), Exists(run[w].job)
  PROVE  /\ Writes(w, "running", row[run[w].job].retryCount)
         /\ GoesOn(w) /\ run'[w].pc = "fetch"
<1> DEFINE j == run[w].job
           asked == row[j].cancelRequested
<1>1. j \in Jobs /\ row[j] \in Row /\ run[w] \in Run
  BY DEF Start, RunShape, TypeOK
<1>2. row' = [row EXCEPT ![j] = [row[j] EXCEPT !.status = "running", !.stage = Preprocessing]]
  BY DEF Start
<1>3. run' = [run EXCEPT ![w] = [run[w] EXCEPT !.pc = "fetch", !.cancelAtStart = asked,
                                               !.cancelEvent = asked]]
  BY DEF Start
<1>4. Writes(w, "running", row[j].retryCount)
  BY <1>1, <1>2 DEF Writes, TypeOK, Row
<1>5. /\ run'[w] = [run[w] EXCEPT !.pc = "fetch", !.cancelAtStart = asked, !.cancelEvent = asked]
      /\ \A v \in Workers \ {w} : run'[v] = run[v]
  BY <1>3 DEF TypeOK
<1>6. GoesOn(w) /\ run'[w].pc = "fetch"
  BY <1>1, <1>5 DEF GoesOn, Run
<1>7. QED
  BY <1>4, <1>6

LEMMA FinishWrites ==
  ASSUME TypeOK, RunShape, NEW w \in Workers, Finish(w), Exists(run[w].job)
  PROVE  Writes(w, "completed", row[run[w].job].retryCount)
<1> DEFINE j == run[w].job
<1>1. j \in Jobs /\ row[j] \in Row
  BY DEF Finish, RunShape, TypeOK
<1>2. row' = [row EXCEPT ![j] = [row[j] EXCEPT !.status = "completed", !.stage = Done,
                                               !.results = "model"]]
  BY DEF Finish
<1>3. QED
  BY <1>1, <1>2 DEF Writes, TypeOK, Row

LEMMA SetStatusWrites ==
  ASSUME TypeOK, NEW w \in Workers, run[w].job \in Jobs, Exists(run[w].job),
         NEW s, SetStatus(run[w].job, s)
  PROVE  Writes(w, s, row[run[w].job].retryCount)
  BY DEF SetStatus, Writes, TypeOK, Row

LEMMA TransientWrites ==
  ASSUME TypeOK, RunShape, NEW w \in Workers, MarkTransient(w)
  PROVE  /\ GoesOn(w) /\ run'[w].pc = AfterTransient(w)
         /\ Exists(run[w].job) => Writes(w, "pending", row[run[w].job].retryCount + 1)
<1> DEFINE j == run[w].job
<1>1. j \in Jobs /\ row[j] \in Row /\ run[w] \in Run
  BY DEF MarkTransient, RunShape, TypeOK
<1>2. run' = [run EXCEPT ![w] = [run[w] EXCEPT !.late = {}, !.pc = AfterTransient(w)]]
  BY DEF MarkTransient
<1>3. /\ run'[w] = [run[w] EXCEPT !.late = {}, !.pc = AfterTransient(w)]
      /\ \A v \in Workers \ {w} : run'[v] = run[v]
  BY <1>2 DEF TypeOK
<1>4. GoesOn(w) /\ run'[w].pc = AfterTransient(w)
  BY <1>1, <1>3 DEF GoesOn, Run
<1>5. ASSUME Exists(j)
      PROVE  Writes(w, "pending", row[j].retryCount + 1)
  <2>1. row' = [row EXCEPT ![j] = [row[j] EXCEPT !.status = "pending",
                                                 !.retryCount = row[j].retryCount + 1]]
    BY <1>5 DEF MarkTransient
  <2>2. QED
    BY <1>1, <1>5, <2>1 DEF Writes, TypeOK, Row
<1>6. QED
  BY <1>4, <1>5

LEMMA PersistWritesNothing ==
  ASSUME TypeOK, NEW w \in Workers, NEW k \in 1 .. NumStages, Persist(w, k)
  PROVE  WritesNothing
<1> DEFINE j == run[w].job
<1>1. CASE row' = row
  BY <1>1 DEF WritesNothing, SameRow
<1>2. CASE row' = [row EXCEPT ![j] = [row[j] EXCEPT !.stage = StageCode(k)]]
  <2>1. ASSUME NEW i \in Jobs
        PROVE  row'[i] = IF i = j THEN [row[i] EXCEPT !.stage = StageCode(k)] ELSE row[i]
    BY <1>2 DEF TypeOK
  <2>2. \A i \in Jobs : row[i] \in Row
    BY DEF TypeOK
  <2>3. QED
    BY <2>1, <2>2 DEF WritesNothing, SameRow, Row
<1>3. QED
  BY <1>1, <1>2 DEF Persist

\* Every other step of a worker keeps the rows, apart from the stage.
LEMMA OtherStepsWriteNothing ==
  ASSUME TypeOK, NEW w \in Workers, Task(w) \/ Background(w) \/ Fault(w)
  PROVE  \/ WritesNothing
         \/ Exists(run[w].job) /\ (Start(w) \/ Finish(w) \/ MarkStopped(w) \/ MarkTransient(w)
                                     \/ MarkExhausted(w))
<1>1. CASE UNCHANGED row
  BY <1>1 DEF WritesNothing, SameRow
<1>2. CASE \E k \in 1 .. NumStages : Persist(w, k)
  <2>1. PICK k \in 1 .. NumStages : Persist(w, k)
    BY <1>2
  <2>2. QED
    BY <2>1, PersistWritesNothing
<1>3. CASE Start(w) \/ Finish(w) \/ MarkStopped(w) \/ MarkTransient(w) \/ MarkExhausted(w)
  BY <1>1, <1>3 DEF Start, Finish, MarkStopped, MarkTransient, MarkExhausted, SetStatus
<1>4. QED
  BY <1>1, <1>2, <1>3 DEF Task, Background, Fault, Take, Fetch, Setup, CheckPasses,
     CheckCancels, CheckTimesOut, StageDone, StageRaises, FinishHidden, PublishRetry, Ack,
     Poll, Redeliver, HostLost, ProcessLost, TaskError, PollFails

-----------------------------------------------------------------------------
(* The workers.                                                            *)

LEMMA QueueEntry ==
  ASSUME TypeOK, NEW j \in Jobs, NEW r \in 0 .. MaxRetries, NEW n \in Nat,
         queue' = [queue EXCEPT ![j][r] = n]
  PROVE  \A i \in Jobs, s \in 0 .. MaxRetries :
           queue'[i][s] = IF i = j /\ s = r THEN n ELSE queue[i][s]
<1> SUFFICES ASSUME NEW i \in Jobs, NEW s \in 0 .. MaxRetries
             PROVE  queue'[i][s] = IF i = j /\ s = r THEN n ELSE queue[i][s]
  OBVIOUS
<1>1. queue[i] \in [0 .. MaxRetries -> Nat] /\ queue \in [Jobs -> [0 .. MaxRetries -> Nat]]
  BY DEF TypeOK
<1>2. queue'[i] = IF i = j THEN [queue[i] EXCEPT ![r] = n] ELSE queue[i]
  BY <1>1
<1>3. QED
  BY <1>1, <1>2

\* OneHolder, for one job.
OneHolderOf(j) ==
  /\ \A r \in 0 .. MaxRetries :
       queue[j][r] > 0 =>
         /\ queue[j][r] = 1
         /\ \A s \in 0 .. MaxRetries : queue[j][s] > 0 => s = r
         /\ \A w \in Workers : Active(w) => run[w].job # j
  /\ \A v, w \in Workers :
       Active(v) /\ Active(w) /\ run[v].job = j /\ run[w].job = j => v = w

LEMMA PerJob == (OneHolder <=> \A j \in Jobs : OneHolderOf(j))
                /\ (OneHolder' <=> \A j \in Jobs : OneHolderOf(j)')
  BY DEF OneHolder, OneHolderOf

LEMMA TakeOnce ==
  ASSUME OnceInv, NEW w \in Workers, NEW j \in Jobs, NEW r \in 0 .. MaxRetries, Take(w, j, r)
  PROVE  Once'
<1>0. TypeOK /\ OneHolder /\ WaitingOK(j, r)
  BY DEF OnceInv, CancelInv, Once, Take
<1>1. /\ run'[w] = [Idle EXCEPT !.pc = "start", !.job = j, !.retries = r]
      /\ \A v \in Workers \ {w} : run'[v] = run[v]
      /\ UNCHANGED <<row, tx>>
  BY <1>0 DEF Take, TypeOK
<1>2. run'[w].pc = "start" /\ run'[w].job = j /\ run'[w].retries = r
  BY <1>1 DEF Idle
<1>3. /\ \A s \in 0 .. MaxRetries : queue[j][s] \in Nat
      /\ \A s \in 0 .. MaxRetries : queue[j][s] > 0 => s = r
      /\ queue[j][r] = 1
      /\ \A v \in Workers : Active(v) => run[v].job # j
  <2>1. OneHolderOf(j) /\ queue[j][r] > 0
    BY <1>0, PerJob DEF Take
  <2>2. \A s \in 0 .. MaxRetries : queue[j][s] \in Nat
    BY <1>0 DEF TypeOK
  <2>3. QED
    BY <2>1, <2>2 DEF OneHolderOf
<1>4. \A i \in Jobs, s \in 0 .. MaxRetries :
        queue'[i][s] = IF i = j /\ s = r THEN 0 ELSE queue[i][s]
  <2>1. queue' = [queue EXCEPT ![j][r] = 0]
    BY <1>3 DEF Take
  <2>2. 0 \in Nat
    OBVIOUS
  <2>3. QED
    BY <1>0, <2>1, <2>2, QueueEntry, ZenonT(30)
<1>5. \A s \in 0 .. MaxRetries : ~(queue'[j][s] > 0)
  BY <1>3, <1>4
<1>6. \A v \in Workers \ {w} : Active(v)' <=> Active(v)
  BY <1>1 DEF Active
<1>7. OneHolder'
  <2>1. OneHolderOf(j)'
    BY <1>1, <1>2, <1>3, <1>5, <1>6 DEF OneHolderOf
  <2>2. ASSUME NEW i \in Jobs \ {j}
        PROVE  OneHolderOf(i)'
    <3>1. OneHolderOf(i)
      BY <1>0, PerJob
    <3>2. \A s \in 0 .. MaxRetries : queue'[i][s] = queue[i][s]
      BY <1>4
    <3>3. \A v \in Workers : Active(v)' /\ run'[v].job = i => Active(v) /\ run[v].job = i
      BY <1>1, <1>2, <1>6
    <3>4. QED
      BY <3>1, <3>2, <3>3 DEF OneHolderOf
  <2>3. QED
    BY <2>1, <2>2, PerJob
<1>8. HolderOK(w)'
  BY <1>0, <1>1, <1>2 DEF HolderOK, WaitingOK, Exists
<1>9. \A v \in Workers \ {w} : HolderOK(v)'
  BY <1>1 DEF OnceInv, Once, HolderOK, Active, Exists
<1>10. \A i \in Jobs, s \in 0 .. MaxRetries : queue'[i][s] > 0 => WaitingOK(i, s)'
  BY <1>1, <1>4 DEF OnceInv, Once, WaitingOK, Exists
<1>11. QED
  BY <1>1, <1>7, <1>8, <1>9, <1>10 DEF OnceInv, Once

LEMMA PublishOnce ==
  ASSUME OnceInv, NEW w \in Workers, PublishRetry(w)
  PROVE  Once'
<1>0. TypeOK /\ OneHolder /\ HolderOK(w) /\ Active(w)
  BY DEF OnceInv, CancelInv, Once, PublishRetry, Active
<1>1. PICK j \in Jobs, r \in 0 .. MaxRetries : j = run[w].job /\ r = run[w].retries + 1
  BY <1>0, MaxRetriesAssumption DEF PublishRetry, OnceInv, CancelInv, RunShape, TypeOK, Run
<1>2. GoesOn(w) /\ run'[w].pc = "closing" /\ UNCHANGED <<row, tx>>
  BY <1>0, GotoGoesOn DEF PublishRetry
<1>3. /\ \A s \in 0 .. MaxRetries : ~(queue[j][s] > 0) /\ queue[j][s] \in Nat
      /\ \A v \in Workers \ {w} : Active(v) => run[v].job # j
  <2>1. OneHolderOf(j)
    BY <1>0, <1>1, PerJob
  <2>2. \A s \in 0 .. MaxRetries : queue[j][s] \in Nat
    <3>1. queue \in [Jobs -> [0 .. MaxRetries -> Nat]]
      BY <1>0 DEF TypeOK
    <3>2. queue[j] \in [0 .. MaxRetries -> Nat]
      BY <3>1
    <3>3. QED
      BY <3>2
  <2>3. \A s \in 0 .. MaxRetries : ~(queue[j][s] > 0)
    BY <1>0, <1>1, <2>1 DEF OneHolderOf
  <2>4. \A v \in Workers \ {w} : Active(v) => run[v].job # j
    BY <1>0, <1>1, <2>1 DEF OneHolderOf
  <2>5. QED
    BY <2>2, <2>3, <2>4
<1>4. \A i \in Jobs, s \in 0 .. MaxRetries :
        queue'[i][s] = IF i = j /\ s = r THEN 1 ELSE queue[i][s]
  <2>1. queue[j][r] = 0
    BY <1>1, <1>3
  <2>2. queue' = [queue EXCEPT ![j][r] = 1]
    BY <1>1, <2>1 DEF PublishRetry
  <2>3. 1 \in Nat
    OBVIOUS
  <2>4. QED
    BY <1>0, <2>2, <2>3, QueueEntry, ZenonT(30)
<1>5. /\ ~Active(w)'
      /\ \A v \in Workers \ {w} : run'[v] = run[v] /\ (Active(v)' <=> Active(v))
  BY <1>2 DEF GoesOn, Active
<1>6. OneHolder'
  <2>1. OneHolderOf(j)'
    <3>1. \A s \in 0 .. MaxRetries : queue'[j][s] > 0 => s = r /\ queue'[j][s] = 1
      BY <1>3, <1>4
    <3>2. \A v \in Workers : Active(v)' => run'[v].job # j
      BY <1>1, <1>3, <1>5
    <3>3. QED
      BY <3>1, <3>2 DEF OneHolderOf
  <2>2. ASSUME NEW i \in Jobs \ {j}
        PROVE  OneHolderOf(i)'
    <3>1. OneHolderOf(i)
      BY <1>0, PerJob
    <3>2. \A s \in 0 .. MaxRetries : queue'[i][s] = queue[i][s]
      BY <1>4
    <3>3. \A v \in Workers : Active(v)' /\ run'[v].job = i => Active(v) /\ run[v].job = i
      BY <1>5
    <3>4. QED
      BY <3>1, <3>2, <3>3 DEF OneHolderOf
  <2>3. QED
    BY <2>1, <2>2, PerJob
<1>7. WaitingOK(j, r)'
  <2>1. run[w].pc = "retry" /\ run[w].retries \in Nat
    BY <1>0 DEF PublishRetry, TypeOK, Run
  <2>2. tx[j] = "closed" /\ row[j].review = "draft"
    BY <1>0, <1>1, <2>1 DEF HolderOK, TypeOK
  <2>3. Exists(j) => row[j].status = "pending" /\ row[j].retryCount = r
    BY <1>0, <1>1, <2>1 DEF HolderOK
  <2>4. QED
    BY <1>2, <2>2, <2>3 DEF WaitingOK, Exists
<1>8. \A i \in Jobs, s \in 0 .. MaxRetries : queue'[i][s] > 0 => WaitingOK(i, s)'
  BY <1>2, <1>4, <1>7 DEF OnceInv, Once, WaitingOK, Exists
<1>9. \A v \in Workers : HolderOK(v)'
  BY <1>2, <1>5 DEF OnceInv, Once, HolderOK, Exists
<1>10. QED
  BY <1>2, <1>6, <1>8, <1>9 DEF OnceInv, Once

LEMMA WorkerOnce ==
  ASSUME MaxRedeliver = 0, OnceInv, NEW w \in Workers, Task(w) \/ Background(w) \/ Fault(w)
  PROVE  Once'
<1> DEFINE j == run[w].job
<1>0. TypeOK /\ RunShape /\ HolderOK(w) /\ run[w] \in Run
  BY DEF OnceInv, CancelInv, Once, TypeOK
<1>1. ASSUME NEW pc, Goto(w, pc), UNCHANGED <<row, tx, queue>>, run[w].pc # "idle",
             \/ pc = "closing"
             \/ /\ pc \in {"setup", "boundary", "stage"} \cup Outcomes
                /\ run[w].pc \in {"fetch", "setup", "boundary", "stage"} \cup Outcomes
      PROVE  Once'
  <2>1. GoesOn(w) /\ run'[w].pc = pc
    BY <1>0, <1>1, GotoGoesOn
  <2>2. CASE pc = "closing"
    BY <1>1, <2>1, <2>2, QuietStep DEF SameRow, SameRun, GoesOn, Active
  <2>3. CASE pc # "closing"
    <3>1. Active(w) /\ HolderOK(w)'
      BY <1>0, <1>1, <2>1, <2>3 DEF HolderOK, GoesOn, Active, Outcomes, Exists
    <3>2. j \in Jobs
      BY <1>0, <1>1 DEF RunShape
    <3>3. QED
      BY <1>1, <2>1, <3>1, <3>2, AttemptStep DEF SameRow, OnceInv, Once
  <2>4. QED
    BY <2>2, <2>3
\* The attempt ends here, whatever it writes.
<1>2. ASSUME Active(w), GoesOn(w), run'[w].pc = "closing", UNCHANGED <<tx, queue>>,
             WritesNothing \/ \E s : Writes(w, s, row[j].retryCount)
      PROVE  Once'
  <2>1. ~Active(w)' /\ HolderOK(w)'
    BY <1>2 DEF Active, HolderOK
  <2>2. j \in Jobs /\ row'[j].retryCount = row[j].retryCount
    BY <1>0, <1>2 DEF RunShape, Active, WritesNothing, SameRow, Writes
  <2>3. \A i \in Jobs \ {j} : SameRow(i)
    BY <1>2 DEF WritesNothing, SameRow, Writes
  <2>4. QED
    BY <1>2, <2>1, <2>2, <2>3, AttemptStep DEF OnceInv, Once
<1>3. CASE \E i \in Jobs, r \in 0 .. MaxRetries : Take(w, i, r)
  BY <1>3, TakeOnce
<1>4. CASE Start(w) /\ Exists(j)
  <2>1. /\ Writes(w, "running", row[j].retryCount)
        /\ GoesOn(w) /\ run'[w].pc = "fetch" /\ UNCHANGED <<tx, queue>>
    BY <1>0, <1>4, StartWrites DEF Start
  <2>2. Active(w) /\ tx[j] = "closed"
    BY <1>4, <2>1 DEF Start, Active, OnceInv, CancelInv, RowOK, Writes
  <2>3. HolderOK(w)'
    BY <1>0, <1>4, <2>1, <2>2 DEF Start, HolderOK, Writes, GoesOn, Active, Exists
  <2>4. QED
    BY <2>1, <2>2, <2>3, AttemptStep DEF Writes, SameRow, OnceInv, Once
<1>5. CASE Start(w) /\ ~Exists(j)
  BY <1>1, <1>5 DEF Start
<1>6. CASE Fetch(w) \/ Setup(w) \/ CheckPasses(w) \/ CheckCancels(w) \/ CheckTimesOut(w)
           \/ StageRaises(w) \/ FinishHidden(w)
  BY <1>1, <1>6 DEF Fetch, Setup, CheckPasses, CheckCancels, CheckTimesOut, StageRaises,
                    FinishHidden, Outcomes
<1>7. CASE StageDone(w)
  <2> DEFINE k == IF run[w].at = NumStages THEN run[w].at ELSE run[w].at + 1
             pc == IF run[w].at = NumStages THEN "success" ELSE "boundary"
  <2>1. run' = [run EXCEPT ![w] = [run[w] EXCEPT !.late = @ \cup {run[w].at},
                                                 !.at = k, !.pc = pc]]
    BY <1>7 DEF StageDone
  <2>2. pc \in {"success", "boundary"}
    OBVIOUS
  <2> HIDE DEF k, pc
  <2>3. /\ run'[w] = [run[w] EXCEPT !.late = @ \cup {run[w].at}, !.at = k, !.pc = pc]
        /\ \A v \in Workers \ {w} : run'[v] = run[v]
    BY <1>0, <2>1 DEF TypeOK
  <2>4. GoesOn(w) /\ run'[w].pc = pc
    BY <1>0, <2>3 DEF GoesOn, Run
  <2>5. Active(w) /\ UNCHANGED <<row, tx, queue>> /\ run[w].pc = "stage" /\ j \in Jobs
    BY <1>0, <1>7 DEF StageDone, Active, RunShape
  <2>6. HolderOK(w)'
    BY <1>0, <2>2, <2>4, <2>5 DEF HolderOK, GoesOn, Active, Exists
  <2>7. QED
    BY <2>4, <2>5, <2>6, AttemptStep DEF SameRow, OnceInv, Once
<1>8. CASE Finish(w) \/ MarkStopped(w) \/ MarkExhausted(w)
  <2>1. Active(w) /\ GoesOn(w) /\ run'[w].pc = "closing" /\ UNCHANGED <<tx, queue>>
    BY <1>0, <1>8, GotoGoesOn DEF Finish, MarkStopped, MarkExhausted, Active
  <2>2. WritesNothing \/ \E s : Writes(w, s, row[j].retryCount)
    <3>1. CASE ~Exists(j)
      BY <1>8, <3>1 DEF Finish, MarkStopped, MarkExhausted, SetStatus, WritesNothing, SameRow
    <3>2. CASE Exists(j)
      BY <1>0, <1>8, <2>1, <3>2, FinishWrites, SetStatusWrites
      DEF MarkStopped, MarkExhausted, RunShape, Active
    <3>3. QED
      BY <3>1, <3>2
  <2>3. QED
    BY <1>2, <2>1, <2>2
<1>9. CASE MarkTransient(w)
  <2>1. /\ GoesOn(w) /\ run'[w].pc = AfterTransient(w) /\ UNCHANGED <<tx, queue>>
        /\ run[w].pc = "transient" /\ Active(w)
        /\ Exists(j) => Writes(w, "pending", row[j].retryCount + 1)
        /\ ~Exists(j) => UNCHANGED row
    BY <1>0, <1>9, TransientWrites DEF MarkTransient, Active
  <2>2. j \in Jobs /\ row[j].retryCount \in Nat /\ run[w].retries \in 0 .. MaxRetries
    BY <1>0, <2>1 DEF RunShape, Active, TypeOK, Row, Run
  <2>3. /\ AfterTransient(w) \in {"closing", "exhausted", "retry"}
        /\ AfterTransient(w) = "exhausted" => run[w].retries = MaxRetries
    BY <2>2, MaxRetriesAssumption DEF AfterTransient
  <2>4. tx[j] = "closed" /\ row[j].review = "draft"
        /\ (Exists(j) => row[j].retryCount = run[w].retries)
    BY <1>0, <2>1, <2>2 DEF HolderOK, TypeOK
  <2>5. CASE Exists(j)
    <3>1. Writes(w, "pending", row[j].retryCount + 1)
      BY <2>1, <2>5
    <3>2. HolderOK(w)'
      BY <2>1, <2>3, <2>4, <2>5, <3>1 DEF HolderOK, Writes, GoesOn, Active, Exists
    <3>3. row'[j].retryCount <= MaxRetries + 1
      BY <2>2, <2>4, <2>5, <3>1, MaxRetriesAssumption DEF Writes
    <3>4. \A i \in Jobs \ {j} : SameRow(i)
      BY <3>1 DEF Writes, SameRow
    <3>5. QED
      BY <2>1, <3>2, <3>3, <3>4, AttemptStep
  <2>6. CASE ~Exists(j)
    <3>1. HolderOK(w)'
      BY <2>1, <2>3, <2>4, <2>6 DEF HolderOK, GoesOn, Active, Exists
    <3>2. QED
      BY <2>1, <2>2, <2>6, <3>1, AttemptStep DEF SameRow, OnceInv, Once
  <2>7. QED
    BY <2>5, <2>6
<1>10. CASE PublishRetry(w)
  BY <1>10, PublishOnce
<1>11. CASE Ack(w) \/ ProcessLost(w)
  <2>1. run'[w] = Idle /\ \A v \in Workers \ {w} : run'[v] = run[v]
    BY <1>0, <1>11 DEF Ack, ProcessLost, TypeOK
  <2>2. ~Active(w)' /\ UNCHANGED <<row, tx, queue>>
    BY <1>11, <2>1 DEF Ack, ProcessLost, Active, Idle
  <2>3. QED
    BY <2>1, <2>2, QuietStep DEF SameRow, SameRun
<1>12. CASE TaskError(w)
  BY <1>1, <1>12 DEF TaskError, Outcomes
<1>13. CASE (\E k \in 1 .. NumStages : Persist(w, k)) \/ Poll(w) \/ PollFails(w)
  <2>1. \A v \in Workers : SameRun(v)
    <3>1. CASE \E k \in 1 .. NumStages : Persist(w, k)
      BY <1>0, <3>1 DEF Persist, SameRun, TypeOK, Run
    <3>2. CASE Poll(w) \/ PollFails(w)
      <4>1. \A v \in Workers \ {w} : run'[v] = run[v]
        BY <1>0, <3>2 DEF Poll, PollFails, TypeOK
      <4>2. \/ run'[w] = [run[w] EXCEPT !.cancelEvent = TRUE]
            \/ run'[w] = [run[w] EXCEPT !.pollDead = TRUE]
        BY <1>0, <3>2 DEF Poll, PollFails, TypeOK
      <4>3. SameRun(w)
        BY <1>0, <4>2 DEF SameRun, Run
      <4>4. QED
        BY <4>1, <4>3 DEF SameRun
    <3>3. QED
      BY <1>13, <3>1, <3>2
  <2>2. WritesNothing /\ UNCHANGED <<tx, queue>>
    <3>1. CASE \E k \in 1 .. NumStages : Persist(w, k)
      BY <1>0, <3>1, PersistWritesNothing DEF Persist
    <3>2. CASE Poll(w) \/ PollFails(w)
      BY <3>2 DEF Poll, PollFails, WritesNothing, SameRow
    <3>3. QED
      BY <1>13, <3>1, <3>2
  <2>3. QED
    BY <2>1, <2>2, QuietStep DEF WritesNothing
<1>14. ~Redeliver(w) /\ ~HostLost(w)
  BY <1>0 DEF Redeliver, HostLost, CountRedelivery, TypeOK
<1>15. QED
  BY <1>3, <1>4, <1>5, <1>6, <1>7, <1>8, <1>9, <1>10, <1>11, <1>12, <1>13, <1>14
  DEF Task, Background, Fault

-----------------------------------------------------------------------------
(* The theorems.                                                           *)

LEMMA OnceStart == Init => Once
<1> SUFFICES ASSUME Init PROVE Once
  OBVIOUS
<1>1. \A w \in Workers : ~Active(w)
  BY DEF Init, Active, Idle
<1>2. \A j \in Jobs, r \in 0 .. MaxRetries : ~(queue[j][r] > 0)
  BY DEF Init
<1>3. \A j \in Jobs : row[j].retryCount <= MaxRetries + 1
  BY MaxRetriesAssumption DEF Init, NoRow
<1>4. QED
  BY <1>1, <1>2, <1>3 DEF Once, OneHolder, HolderOK

\* A worker holds no job whose submission is in flight.
LEMMA WorkerSubmit ==
  ASSUME OnceInv, NEW w \in Workers, Task(w) \/ Background(w) \/ Fault(w), NEW i \in Jobs
  PROVE  SubmitOK(i)'
<1>0. TypeOK /\ RunShape /\ HolderOK(w) /\ SubmitOK(i) /\ UNCHANGED <<tx, request>>
  <2>1. UNCHANGED request
    BY DEF Task, Background, Fault, Take, Start, Fetch, Setup, CheckPasses, CheckCancels,
       CheckTimesOut, StageDone, StageRaises, Finish, FinishHidden, MarkStopped, MarkTransient,
       MarkExhausted, PublishRetry, Ack, Persist, Poll, Redeliver, HostLost, ProcessLost,
       TaskError, PollFails
  <2>2. QED
    BY <2>1, WorkerStepRows DEF OnceInv, CancelInv, Once
<1>1. CASE WritesNothing
  BY <1>0, <1>1 DEF WritesNothing, SameRow, SubmitOK, Exists
<1>2. CASE /\ Exists(run[w].job)
           /\ Start(w) \/ Finish(w) \/ MarkStopped(w) \/ MarkTransient(w) \/ MarkExhausted(w)
  <2>1. Active(w) /\ run[w].job \in Jobs
    BY <1>0, <1>2
    DEF Active, Start, Finish, MarkStopped, MarkTransient, MarkExhausted, RunShape
  <2>2. row[run[w].job].status # "completed"
    BY <1>0, <1>2, <2>1 DEF HolderOK
  <2>3. CASE run[w].job = i
    BY <1>0, <1>2, <2>2, <2>3 DEF SubmitOK
  <2>4. CASE run[w].job # i
    <3>1. row'[i] = row[i]
      BY <1>0, <1>2, <2>4
      DEF Start, Finish, MarkStopped, MarkTransient, MarkExhausted, SetStatus, TypeOK
    <3>2. QED
      BY <1>0, <3>1 DEF SubmitOK, Exists
  <2>5. QED
    BY <2>3, <2>4
<1>3. QED
  BY <1>0, <1>1, <1>2, OtherStepsWriteNothing

LEMMA OnceStep ==
  MaxRedeliver = 0 /\ OnceInv /\ [Next]_vars => Once' /\ \A i \in Jobs : SubmitOK(i)'
<1> SUFFICES ASSUME MaxRedeliver = 0, OnceInv, [Next]_vars
             PROVE  Once' /\ \A i \in Jobs : SubmitOK(i)'
  OBVIOUS
<1>1. CASE UNCHANGED vars
  <2>1. Once'
    BY <1>1, QuietStep DEF vars, SameRow, SameRun
  <2>2. \A i \in Jobs : SubmitOK(i)'
    BY <1>1 DEF OnceInv, vars, SubmitOK, Exists
  <2>3. QED
    BY <2>1, <2>2
<1>2. CASE Next
  BY <1>2, RequestOnce, WorkerOnce, RequestSubmit, WorkerSubmit DEF Next
<1>3. QED
  BY <1>1, <1>2

LEMMA OnceInvariant ==
  ASSUME MaxRedeliver = 0
  PROVE  Spec => []OnceInv
<1>1. Init => Once /\ \A j \in Jobs : SubmitOK(j)
  BY OnceStart DEF Init, SubmitOK
<1>2. CancelInv /\ (Once /\ \A j \in Jobs : SubmitOK(j)) /\ [Next]_vars
        => (Once /\ \A j \in Jobs : SubmitOK(j))'
  BY OnceStep DEF OnceInv
<1>3. OnceInv <=> CancelInv /\ (Once /\ \A j \in Jobs : SubmitOK(j))
  BY DEF OnceInv
<1>4. QED
  BY <1>1, <1>2, <1>3, CancelInvariant, PTL DEF Spec

\* With each message delivered once, a job has one message or one attempt, never
\* two: create_analysis_job sends one, and an attempt sends the next as it ends.
THEOREM OneHolderOnly ==
  ASSUME MaxRedeliver = 0
  PROVE  Spec => []OneHolder
<1>1. OnceInv => OneHolder
  BY DEF OnceInv, Once
<1>2. QED
  BY <1>1, OnceInvariant, PTL

\* ... and no run replaces the rows of a submitted analysis (submit_analysis): a
\* submission is admitted while nobody holds the job, and nobody comes to hold it.
THEOREM RunsSpareTheSubmitted ==
  ASSUME MaxRedeliver = 0
  PROVE  Spec => RunsSpareSubmitted
<1>1. ASSUME OnceInv, [Next]_vars, NEW j \in Jobs, row[j].review = "submitted", Exists(j)',
             row'[j].results # row[j].results
      PROVE  "edit" \in request[j] \ request'[j]
  <2>0. TypeOK /\ RunShape /\ RowOK(j) /\ row[j] \in Row
        /\ NoRow.status = "absent" /\ NoRow.review = "draft"
    BY <1>1 DEF OnceInv, CancelInv, TypeOK, NoRow
  <2>1. ASSUME NEW i \in Jobs, User(i) \/ Server(i)
        PROVE  "edit" \in request[j] \ request'[j]
    <3>1. CASE CommitEdit(i)
      BY <1>1, <2>0, <3>1 DEF CommitEdit, Commit, TypeOK
    <3>2. CASE CommitCreate(i) \/ RemoveVideo(i) \/ CommitDelete(i)
      BY <1>1, <2>0, <3>2
      DEF CommitCreate, RemoveVideo, CommitDelete, Commit, TypeOK, RowOK, Exists
    <3>3. CASE CommitSubmit(i) \/ CommitReopen(i) \/ CommitCancel(i)
      <4>1. CASE i = j
        <5>1. \/ row'[j] = [row[j] EXCEPT !.cancelRequested = TRUE]
              \/ \E x \in {"draft", "submitted"} : row'[j] = [row[j] EXCEPT !.review = x]
          BY <2>0, <3>3, <4>1 DEF CommitSubmit, CommitReopen, CommitCancel, Commit, TypeOK
        <5>2. row'[j].results = row[j].results
          BY <2>0, <5>1 DEF Row
        <5>3. QED
          BY <1>1, <5>2
      <4>2. CASE i # j
        BY <1>1, <2>0, <3>3, <4>2 DEF CommitSubmit, CommitReopen, CommitCancel, Commit, TypeOK
      <4>3. QED
        BY <4>1, <4>2
    <3>4. CASE UNCHANGED row
      BY <1>1, <3>4
    <3>5. QED
      BY <2>1, <3>1, <3>2, <3>3, <3>4
      DEF User, Server, Dispatch, AdmitCancel, AdmitDelete, AdmitEdit, AdmitSubmit, AdmitReopen,
          Admit, AbortCreate, AbortRequest
  <2>2. ASSUME NEW w \in Workers, Task(w) \/ Background(w) \/ Fault(w)
        PROVE  row'[j].results = row[j].results
    <3>1. Active(w) => run[w].job # j
      BY <1>1 DEF OnceInv, Once, HolderOK
    <3>2. CASE Start(w) \/ Finish(w) \/ MarkTransient(w) \/ MarkStopped(w) \/ MarkExhausted(w)
      <4>1. Active(w)
        BY <3>2 DEF Start, Finish, MarkTransient, MarkStopped, MarkExhausted, Active
      <4>2. row'[j] = row[j]
        BY <2>0, <3>1, <3>2, <4>1
        DEF Start, Finish, MarkTransient, MarkStopped, MarkExhausted, SetStatus, TypeOK
      <4>3. QED
        BY <4>2
    <3>3. CASE \E k \in 1 .. NumStages : Persist(w, k)
      <4>1. PICK k \in 1 .. NumStages : Persist(w, k)
        BY <3>3
      <4>2. row'[j] = row[j] \/ row'[j] = [row[j] EXCEPT !.stage = StageCode(k)]
        BY <2>0, <4>1 DEF Persist, TypeOK
      <4>3. QED
        BY <2>0, <4>2 DEF Row
    <3>4. CASE UNCHANGED row
      BY <3>4
    <3>5. QED
      BY <2>2, <3>2, <3>3, <3>4
      DEF Task, Background, Fault, Take, Fetch, Setup, CheckPasses, CheckCancels,
          CheckTimesOut, StageDone, StageRaises, FinishHidden, PublishRetry, Ack, Poll,
          Redeliver, HostLost, ProcessLost, TaskError, PollFails
  <2>3. QED
    BY <1>1, <2>1, <2>2 DEF Next, vars
<1>2. OnceInv /\ [Next]_vars =>
        \A j \in Jobs :
          row[j].review = "submitted" /\ Exists(j)' /\ row'[j].results # row[j].results
            => "edit" \in request[j] \ request'[j]
  BY <1>1
<1>3. QED
  BY <1>2, OnceInvariant, PTL DEF Spec, RunsSpareSubmitted

-----------------------------------------------------------------------------
(* Refinement: each step is a step of the lifecycle of one job, or a       *)
(* stutter.                                                                *)

Phase(j) == IF Exists(j) THEN row[j].status ELSE IF tx[j] = "closed" THEN "gone" ELSE "none"

\* What the lifecycle sees of a job is unchanged.
Stutters(j) ==
  /\ Phase(j)' = Phase(j)
  /\ row'[j].cancelRequested = row[j].cancelRequested
  /\ row'[j].retryCount = row[j].retryCount

OthersStutter(j) == \A i \in Jobs \ {j} : Stutters(i)

LEMMA AllStutter ==
  ASSUME \A j \in Jobs : Stutters(j)
  PROVE  UNCHANGED Lifecycle!lvars
  BY DEF Stutters, Phase, Lifecycle!lvars

LEMMA Moved ==
  ASSUME NEW j \in Jobs, OthersStutter(j), NEW from, NEW to, Phase(j) = from, Phase(j)' = to
  PROVE  Lifecycle!Move(j, from, to)
  BY DEF OthersStutter, Stutters, Phase, Lifecycle!Move

\* The request stays as it is, and the failures are counted or not.
LEMMA KeptAsked ==
  ASSUME NEW j \in Jobs, OthersStutter(j), row'[j].cancelRequested = row[j].cancelRequested
  PROVE  UNCHANGED [i \in Jobs |-> row[i].cancelRequested]
  BY DEF OthersStutter, Stutters

LEMMA KeptFailures ==
  ASSUME NEW j \in Jobs, OthersStutter(j), row'[j].retryCount = row[j].retryCount
  PROVE  UNCHANGED [i \in Jobs |-> row[i].retryCount]
  BY DEF OthersStutter, Stutters

\* A worker's write to a row is a move of the lifecycle.
LEMMA WriteMoves ==
  ASSUME NEW w \in Workers, NEW status, NEW n, Writes(w, status, n), UNCHANGED tx,
         status # "absent", NEW j \in Jobs, j = run[w].job
  PROVE  /\ OthersStutter(j)
         /\ Phase(j) = row[j].status /\ Phase(j)' = status
         /\ Lifecycle!Move(j, row[j].status, status)
         /\ UNCHANGED [i \in Jobs |-> row[i].cancelRequested]
         /\ n = row[j].retryCount => UNCHANGED [i \in Jobs |-> row[i].retryCount]
<1>1. OthersStutter(j) /\ Phase(j) = row[j].status /\ Phase(j)' = status
  BY DEF Writes, OthersStutter, Stutters, Phase, Exists
<1>2. row'[j].cancelRequested = row[j].cancelRequested /\ row'[j].retryCount = n
  BY DEF Writes
<1>3. Lifecycle!Move(j, row[j].status, status)
  BY <1>1, Moved
<1>4. /\ UNCHANGED [i \in Jobs |-> row[i].cancelRequested]
      /\ n = row[j].retryCount => UNCHANGED [i \in Jobs |-> row[i].retryCount]
  BY <1>1, <1>2, KeptAsked, KeptFailures
<1>5. QED
  BY <1>1, <1>3, <1>4

LEMMA RequestRefines ==
  ASSUME OnceInv, NEW j \in Jobs, User(j) \/ Server(j)
  PROVE  Lifecycle!Next \/ UNCHANGED Lifecycle!lvars
<1> USE DEF Exists, Phase
<1>0. /\ TypeOK /\ RowOK(j) /\ row[j] \in Row
      /\ NoRow.status = "absent" /\ NoRow.retryCount = 0 /\ NoRow.cancelRequested = FALSE
      /\ NewRow.status = "pending" /\ NewRow.retryCount = 0 /\ NewRow.cancelRequested = FALSE
  BY DEF OnceInv, CancelInv, TypeOK, NoRow, NewRow
<1>1. CASE CommitCreate(j) \/ AbortCreate(j)
  <2>1. tx[j] = "open" /\ ~Exists(j) /\ row[j] = NoRow /\ tx'[j] = "closed"
    BY <1>0, <1>1 DEF CommitCreate, AbortCreate, RowOK, TypeOK
  <2>2. \A i \in Jobs \ {j} : row'[i] = row[i] /\ tx'[i] = tx[i]
    BY <1>0, <1>1 DEF CommitCreate, AbortCreate, TypeOK
  <2>3. row'[j] = NewRow \/ row'[j] = NoRow
    BY <1>0, <1>1, <2>1 DEF CommitCreate, AbortCreate, TypeOK
  <2>4. OthersStutter(j) /\ Phase(j) = "none" /\ Phase(j)' \in {"pending", "gone"}
    BY <1>0, <2>1, <2>2, <2>3 DEF OthersStutter, Stutters
  <2>5. /\ row'[j].cancelRequested = row[j].cancelRequested
        /\ row'[j].retryCount = row[j].retryCount
    BY <1>0, <2>1, <2>3
  <2>6. Lifecycle!Create(j)
    BY <2>4, <2>5, Moved, KeptAsked, KeptFailures DEF Lifecycle!Create
  <2>7. QED
    BY <2>6 DEF Lifecycle!Next
<1>2. CASE (CommitDelete(j) \/ RemoveVideo(j)) /\ Exists(j)
  <2>1. /\ row'[j] = NoRow /\ tx[j] = "closed" /\ UNCHANGED tx
        /\ \A i \in Jobs \ {j} : row'[i] = row[i]
    BY <1>0, <1>2 DEF CommitDelete, Commit, RemoveVideo, RowOK, TypeOK
  <2>2. Phase(j) \notin {"none", "gone"}
    BY <1>0, <1>2 DEF Row, Status, Terminal
  <2>3. /\ [i \in Jobs |-> Phase(i)]' = [[i \in Jobs |-> Phase(i)] EXCEPT ![j] = "gone"]
        /\ [i \in Jobs |-> row'[i].cancelRequested]
             = [[i \in Jobs |-> row[i].cancelRequested] EXCEPT ![j] = FALSE]
        /\ [i \in Jobs |-> row'[i].retryCount]
             = [[i \in Jobs |-> row[i].retryCount] EXCEPT ![j] = 0]
    BY <1>0, <2>1
  <2>4. Lifecycle!Remove(j)
    BY <2>2, <2>3 DEF Lifecycle!Remove
  <2>5. QED
    BY <2>4 DEF Lifecycle!Next
<1>3. CASE CommitCancel(j) /\ Exists(j)
  <2>1. /\ row'[j] = [row[j] EXCEPT !.cancelRequested = TRUE] /\ UNCHANGED tx
        /\ \A i \in Jobs \ {j} : row'[i] = row[i]
    BY <1>0, <1>3 DEF CommitCancel, Commit, TypeOK
  <2>2. /\ row'[j].cancelRequested = TRUE /\ row'[j].status = row[j].status
        /\ row'[j].retryCount = row[j].retryCount
    BY <1>0, <2>1 DEF Row
  <2>3. Phase(j) \notin {"none", "gone"}
    BY <1>0, <1>3 DEF Row, Status, Terminal
  <2>4. /\ UNCHANGED [i \in Jobs |-> Phase(i)]
        /\ [i \in Jobs |-> row'[i].cancelRequested]
             = [[i \in Jobs |-> row[i].cancelRequested] EXCEPT ![j] = TRUE]
        /\ UNCHANGED [i \in Jobs |-> row[i].retryCount]
    <3>1. \A i \in Jobs : /\ row'[i].status = row[i].status /\ tx'[i] = tx[i]
                          /\ row'[i].retryCount = row[i].retryCount
      BY <2>1, <2>2
    <3>2. \A i \in Jobs : row'[i].cancelRequested
                            = IF i = j THEN TRUE ELSE row[i].cancelRequested
      BY <2>1, <2>2
    <3>3. UNCHANGED [i \in Jobs |-> Phase(i)]
      BY <3>1
    <3>4. UNCHANGED [i \in Jobs |-> row[i].retryCount]
      BY <3>1
    <3>5. [i \in Jobs |-> row'[i].cancelRequested]
             = [[i \in Jobs |-> row[i].cancelRequested] EXCEPT ![j] = TRUE]
      BY <3>2
    <3>6. QED
      BY <3>3, <3>4, <3>5
  <2>5. Lifecycle!Ask(j)
    BY <2>3, <2>4 DEF Lifecycle!Ask
  <2>6. QED
    BY <2>5 DEF Lifecycle!Next
<1>4. ASSUME \A i \in Jobs : row'[i].status = row[i].status
                             /\ row'[i].cancelRequested = row[i].cancelRequested
                             /\ row'[i].retryCount = row[i].retryCount
                             /\ (Exists(i) \/ (tx'[i] = "closed" <=> tx[i] = "closed"))
      PROVE  UNCHANGED Lifecycle!lvars
  BY <1>4, AllStutter DEF Stutters
<1>5. CASE UNCHANGED <<row, tx>>
  BY <1>4, <1>5
<1>6. CASE CommitDelete(j) /\ ~Exists(j)
  BY <1>0, <1>4, <1>6 DEF CommitDelete, Commit, RowOK, TypeOK
<1>7. CASE Dispatch(j)
  BY <1>0, <1>4, <1>7 DEF Dispatch, TypeOK
<1>8. CASE CommitEdit(j)
  BY <1>0, <1>4, <1>8 DEF CommitEdit, Commit, TypeOK, Row
<1>9. CASE CommitSubmit(j) \/ CommitReopen(j)
  <2>1. UNCHANGED tx /\ \A i \in Jobs \ {j} : row'[i] = row[i]
    BY <1>0, <1>9 DEF CommitSubmit, CommitReopen, Commit, TypeOK
  <2>2. \E x \in {"draft", "submitted"} : row'[j] = [row[j] EXCEPT !.review = x]
    BY <1>0, <1>9 DEF CommitSubmit, CommitReopen, Commit, TypeOK
  <2>3. /\ row'[j].status = row[j].status
        /\ row'[j].cancelRequested = row[j].cancelRequested
        /\ row'[j].retryCount = row[j].retryCount
    BY <1>0, <2>2 DEF Row
  <2>4. QED
    BY <1>4, <2>1, <2>3
<1>10. QED
  BY <1>1, <1>2, <1>3, <1>5, <1>6, <1>7, <1>8, <1>9
  DEF User, Server, AdmitCancel, AdmitDelete, AdmitEdit, AdmitSubmit, AdmitReopen, Admit,
      RemoveVideo, CommitCancel, AbortRequest

LEMMA WorkerRefines ==
  ASSUME OnceInv, NEW w \in Workers, Task(w) \/ Background(w) \/ Fault(w)
  PROVE  Lifecycle!Next \/ UNCHANGED Lifecycle!lvars
<1> DEFINE jj == run[w].job
<1>0. TypeOK /\ RunShape /\ HolderOK(w) /\ FlagOK(w) /\ UNCHANGED tx
  BY WorkerStepRows DEF OnceInv, CancelInv, Once
<1>1. CASE WritesNothing
  BY <1>0, <1>1, AllStutter DEF WritesNothing, SameRow, Stutters, Phase, Exists
<1>2. CASE Exists(jj) /\ (Start(w) \/ Finish(w) \/ MarkStopped(w) \/ MarkTransient(w)
                            \/ MarkExhausted(w))
  <2>1. Active(w)
    BY <1>2 DEF Active, Start, Finish, MarkStopped, MarkTransient, MarkExhausted
  <2>2. PICK j \in Jobs : j = jj
    BY <1>0, <2>1 DEF RunShape, Active
  <2>3. row[j] \in Row /\ run[w].retries \in 0 .. MaxRetries
    BY <1>0, <2>2 DEF TypeOK, Run
  <2>4. CASE Start(w)
    <3>1. Writes(w, "running", row[j].retryCount)
      BY <1>0, <1>2, <2>2, <2>4, StartWrites
    <3>2. row[j].status = "pending" /\ row[j].retryCount <= MaxRetries
      BY <1>0, <1>2, <2>1, <2>2, <2>3, <2>4 DEF HolderOK, Start
    <3>3. Lifecycle!Attempt(j)
      BY <1>0, <2>2, <3>1, <3>2, WriteMoves DEF Lifecycle!Attempt
    <3>4. QED
      BY <3>3 DEF Lifecycle!Next
  <2>5. CASE Finish(w)
    <3>1. Writes(w, "completed", row[j].retryCount)
      BY <1>0, <1>2, <2>2, <2>5, FinishWrites
    <3>2. row[j].status = "running"
      BY <1>0, <1>2, <2>1, <2>2, <2>5 DEF HolderOK, Finish
    <3>3. Lifecycle!Complete(j)
      BY <1>0, <2>2, <3>1, <3>2, WriteMoves DEF Lifecycle!Complete
    <3>4. QED
      BY <3>3 DEF Lifecycle!Next
  <2>6. CASE MarkStopped(w)
    <3>1. Writes(w, run[w].pc, row[j].retryCount) /\ run[w].pc \in {"cancelled", "failed"}
      BY <1>0, <1>2, <2>2, <2>6, SetStatusWrites DEF MarkStopped
    <3>2. row[j].status = "running"
      BY <1>0, <1>2, <2>1, <2>2, <3>1 DEF HolderOK
    <3>3. run[w].pc = "cancelled" => row[j].cancelRequested
      BY <1>0, <1>2, <2>2 DEF FlagOK
    <3>4. CASE run[w].pc = "cancelled"
      <4>1. Lifecycle!Cancel(j)
        BY <1>0, <2>2, <3>1, <3>2, <3>3, <3>4, WriteMoves DEF Lifecycle!Cancel
      <4>2. QED
        BY <4>1 DEF Lifecycle!Next
    <3>5. CASE run[w].pc = "failed"
      <4>1. Lifecycle!Fail(j)
        BY <1>0, <2>2, <3>1, <3>2, <3>5, WriteMoves DEF Lifecycle!Fail
      <4>2. QED
        BY <4>1 DEF Lifecycle!Next
    <3>6. QED
      BY <3>1, <3>4, <3>5
  <2>7. CASE MarkTransient(w)
    <3>1. Writes(w, "pending", row[j].retryCount + 1)
      BY <1>0, <1>2, <2>2, <2>7, TransientWrites
    <3>2. row[j].status = "running"
      BY <1>0, <1>2, <2>1, <2>2, <2>7 DEF HolderOK, MarkTransient
    <3>3. [i \in Jobs |-> row'[i].retryCount]
            = [[i \in Jobs |-> row[i].retryCount] EXCEPT ![j] = @ + 1]
      BY <2>2, <3>1 DEF Writes
    <3>4. Lifecycle!Retry(j)
      BY <1>0, <2>2, <3>1, <3>2, <3>3, WriteMoves DEF Lifecycle!Retry
    <3>5. QED
      BY <3>4 DEF Lifecycle!Next
  <2>8. CASE MarkExhausted(w)
    <3>1. Writes(w, "failed", row[j].retryCount)
      BY <1>0, <1>2, <2>2, <2>8, SetStatusWrites DEF MarkExhausted
    <3>2. row[j].status = "pending" /\ row[j].retryCount = MaxRetries + 1
      BY <1>0, <1>2, <2>1, <2>2, <2>8 DEF HolderOK, MarkExhausted
    <3>3. Lifecycle!GiveUp(j)
      BY <1>0, <2>2, <3>1, <3>2, WriteMoves DEF Lifecycle!GiveUp
    <3>4. QED
      BY <3>3 DEF Lifecycle!Next
  <2>9. QED
    BY <1>2, <2>4, <2>5, <2>6, <2>7, <2>8
<1>3. QED
  BY <1>0, <1>1, <1>2, OtherStepsWriteNothing

\* With each message delivered once, the row that GET /analyses/{id} shows goes
\* through the statuses of JobLifecycle and no others: never from a terminal one,
\* never to `failed` before the retries are spent, never to `cancelled` unasked.
THEOREM LifecycleIsImplemented ==
  ASSUME MaxRedeliver = 0
  PROVE  Spec => ImplementsLifecycle
<1>1. Init => Lifecycle!Init
  BY DEF Init, Lifecycle!Init, NoRow, Exists
<1>2. OnceInv /\ [Next]_vars => Lifecycle!Next \/ UNCHANGED Lifecycle!lvars
  <2> SUFFICES ASSUME OnceInv, [Next]_vars
               PROVE  Lifecycle!Next \/ UNCHANGED Lifecycle!lvars
    OBVIOUS
  <2>1. CASE UNCHANGED vars
    BY <2>1, AllStutter DEF vars, Stutters, Phase, Exists
  <2>2. CASE Next
    BY <2>2, RequestRefines, WorkerRefines DEF Next
  <2>3. QED
    BY <2>1, <2>2
<1>3. QED
  BY <1>1, <1>2, OnceInvariant, PTL DEF Spec, ImplementsLifecycle, Lifecycle!Spec
=============================================================================
