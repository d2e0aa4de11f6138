----------------------------- MODULE AnalysisJob -----------------------------
(***************************************************************************)
(* One row of analysis_jobs from POST to its last status, with everything  *)
(* that writes it: the API request that creates and dispatches the job,    *)
(* the Celery broker (acknowledged late), the worker processes that run    *)
(* workers/pipeline_runner.py and workers/tasks.py, and the API requests   *)
(* that cancel, delete, edit and submit it.                                *)
(*                                                                         *)
(* A database transaction is one step; a request that reads a row in one   *)
(* step and commits in a later one is two.  The pipeline thread checks its *)
(* cancellation token at NumStages stage boundaries.  What it computes is  *)
(* abstracted to "the model's rows".  progress is left out: every UPDATE   *)
(* that sets it sets current_stage with it, from a fixed table.            *)
(*                                                                         *)
(* Faults are counted and bounded: a delivery repeated by the broker, and  *)
(* a task that ends without writing its outcome.                           *)
(***************************************************************************)
EXTENDS Integers, FiniteSets

CONSTANTS
  Jobs,          (* Ids of analysis jobs; an id is never used twice.        *)
  NoJob,         (* What an idle worker process runs.                       *)
  Workers,       (* Celery worker processes.                                *)
  NumStages,     (* Stage boundaries of run_analysis_pipeline (8 there).    *)
  MaxRetries,    (* max_retries of run_analysis_pipeline_task (2 there).    *)
  MaxRedeliver,  (* Bound: deliveries the broker repeats.                   *)
  MaxErrors,     (* Bound: tasks that die or raise outside the handlers.    *)
  Kinds          (* The requests that are sent; Requests, or fewer.         *)

Requests == {"cancel", "delete", "edit", "submit", "reopen"}

ASSUME NoJobAssumption   == NoJob \notin Jobs
ASSUME NumStagesAssumption == NumStages \in Nat \ {0}
ASSUME MaxRetriesAssumption == MaxRetries \in Nat
ASSUME FaultBoundsAssumption == MaxRedeliver \in Nat /\ MaxErrors \in Nat
ASSUME KindsAssumption == Kinds \subseteq Requests

VARIABLES
  row,      (* analysis_jobs, with what hangs off each row.                 *)
  tx,       (* The API transaction that creates the job.                    *)
  queue,    (* Copies of the job's message in the broker, by retry header.  *)
  request,  (* API requests whose check has passed, not yet committed.      *)
  run,      (* What each worker process is doing.                           *)
  faults    (* How many faults have happened.                               *)

vars == <<row, tx, queue, request, run, faults>>

-----------------------------------------------------------------------------
(* Types and null records.                                                 *)

Terminal == {"completed", "failed", "cancelled"}
Status   == {"absent", "pending", "running"} \cup Terminal

\* PipelineStage: queued, preprocessing, the pipeline's own stages, done.
Queued        == 0
Preprocessing == 1
StageCode(k)  == k + 1
Done          == NumStages + 2

\* results: no rows, the rows of a pipeline run, or rows a human has touched.
Row == [status          : Status,
        stage           : Queued .. Done,
        cancelRequested : BOOLEAN,
        retryCount      : Nat,
        results         : {"none", "model", "human"},
        review          : {"draft", "submitted"}]

NoRow == [status          |-> "absent",
          stage           |-> Queued,
          cancelRequested |-> FALSE,
          retryCount      |-> 0,
          results         |-> "none",
          review          |-> "draft"]

NewRow == [NoRow EXCEPT !.status = "pending"]

\* Where a task is.  "boundary" and "stage" are the pipeline thread; the four
\* outcomes wait for their transaction; "exhausted" and "retry" are tasks.py
\* after TransientPipelineError; "closing" has only its message to acknowledge.
Outcomes == {"success", "cancelled", "failed", "transient"}
PC == {"idle", "start", "fetch", "setup", "boundary", "stage",
       "exhausted", "retry", "closing"} \cup Outcomes

Run == [pc            : PC,
        job           : Jobs \cup {NoJob},
        retries       : 0 .. MaxRetries,
        at            : 1 .. NumStages,
        cancelAtStart : BOOLEAN,     \* job_row["cancel_requested"]
        cancelEvent   : BOOLEAN,     \* the threading.Event
        pollDead      : BOOLEAN,     \* the polling coroutine has raised
        late          : SUBSET (1 .. NumStages)]  \* scheduled _persist calls

Idle == [pc            |-> "idle",
         job           |-> NoJob,
         retries       |-> 0,
         at            |-> 1,
         cancelAtStart |-> FALSE,
         cancelEvent   |-> FALSE,
         pollDead      |-> FALSE,
         late          |-> {}]

TypeOK ==
  /\ row \in [Jobs -> Row]
  /\ tx \in [Jobs -> {"new", "open", "closed"}]
  /\ queue \in [Jobs -> [0 .. MaxRetries -> Nat]]
  /\ request \in [Jobs -> SUBSET Requests]
  /\ run \in [Workers -> Run]
  /\ faults \in [redelivered : 0 .. MaxRedeliver, errors : 0 .. MaxErrors]

Exists(j)    == row[j].status # "absent"
HasMessage(j) == \E r \in 0 .. MaxRetries : queue[j][r] > 0

\* The run of w still owes its job an outcome.
Active(w) == run[w].pc \notin {"idle", "closing"}

Goto(w, pc) == run' = [run EXCEPT ![w].pc = pc]

\* Mutant: an upsert instead of an UPDATE.
SetStatusUpserts(j, s) == row' = [row EXCEPT ![j].status = s]

\* UPDATE analysis_jobs ... WHERE id = :id touches nothing once the row is gone.
SetStatus(j, s) ==
  row' = IF Exists(j) THEN [row EXCEPT ![j].status = s] ELSE row

-----------------------------------------------------------------------------
Init ==
  /\ row = [j \in Jobs |-> NoRow]
  /\ tx = [j \in Jobs |-> "new"]
  /\ queue = [j \in Jobs |-> [r \in 0 .. MaxRetries |-> 0]]
  /\ request = [j \in Jobs |-> {}]
  /\ run = [w \in Workers |-> Idle]
  /\ faults = [redelivered |-> 0, errors |-> 0]

-----------------------------------------------------------------------------
(* The API creates a job.  The message is sent inside the transaction,     *)
(* before the caller commits it.                                           *)

\* Mutant: the service and its caller both enqueue.
DispatchTwice(j) ==
  /\ tx[j] = "new"
  /\ tx' = [tx EXCEPT ![j] = "open"]
  /\ queue' = [queue EXCEPT ![j][0] = @ + 2]
  /\ UNCHANGED <<row, request, run, faults>>

Dispatch(j) ==
  /\ tx[j] = "new"
  /\ tx' = [tx EXCEPT ![j] = "open"]
  /\ queue' = [queue EXCEPT ![j][0] = @ + 1]
  /\ UNCHANGED <<row, request, run, faults>>

CommitCreate(j) ==
  /\ tx[j] = "open"
  /\ tx' = [tx EXCEPT ![j] = "closed"]
  /\ row' = [row EXCEPT ![j] = NewRow]
  /\ UNCHANGED <<queue, request, run, faults>>

\* The commit fails or the API process dies: no row, but the message is out.
AbortCreate(j) ==
  /\ tx[j] = "open"
  /\ tx' = [tx EXCEPT ![j] = "closed"]
  /\ UNCHANGED <<row, queue, request, run, faults>>

-----------------------------------------------------------------------------
(* The other API requests on a job.                                        *)

\* A request loads the row and looks at it, once; the row may change before it
\* commits.  Of each kind one is in flight at a time.
Admit(j, kind) ==
  /\ kind \in Kinds \ request[j]
  /\ request' = [request EXCEPT ![j] = @ \cup {kind}]
  /\ UNCHANGED <<row, tx, queue, run, faults>>

\* The request commits, and the row is this.
Commit(j, kind, new) ==
  /\ kind \in request[j]
  /\ request' = [request EXCEPT ![j] = @ \ {kind}]
  /\ row' = [row EXCEPT ![j] = new]
  /\ UNCHANGED <<tx, queue, run, faults>>

\* It fails: with the row gone its UPDATE finds nothing, and what an edit has
\* loaded may have been replaced.
AbortRequest(j) ==
  /\ \E kind \in request[j] : request' = [request EXCEPT ![j] = @ \ {kind}]
  /\ UNCHANGED <<row, tx, queue, run, faults>>

AdmitCancel(j) ==
  /\ row[j].status \in {"pending", "running"}
  /\ Admit(j, "cancel")

CommitCancel(j) ==
  /\ Exists(j)
  /\ Commit(j, "cancel", [row[j] EXCEPT !.cancelRequested = TRUE])

AdmitDelete(j) ==
  /\ row[j].status \in Terminal
  /\ Admit(j, "delete")

CommitDelete(j) == Commit(j, "delete", NoRow)

\* DELETE /videos/{id}?hard=true cascades to the jobs whatever their status.
RemoveVideo(j) ==
  /\ Exists(j)
  /\ row' = [row EXCEPT ![j] = NoRow]
  /\ UNCHANGED <<tx, queue, request, run, faults>>

\* Any edit of events, deductions or evaluation.  ensure_analysis_editable looks
\* only at review_state: a pending or a running job can be edited.
AdmitEdit(j) ==
  /\ Exists(j)
  /\ row[j].review = "draft"
  /\ Admit(j, "edit")

CommitEdit(j) ==
  /\ Exists(j)
  /\ Commit(j, "edit", [row[j] EXCEPT !.results = "human"])

\* Mutant: ensure_analysis_submittable forgets the status.
AdmitSubmitAnyStatus(j) ==
  /\ Exists(j)
  /\ row[j].review = "draft"
  /\ Admit(j, "submit")

AdmitSubmit(j) ==
  /\ row[j].status = "completed"
  /\ row[j].review = "draft"
  /\ Admit(j, "submit")

CommitSubmit(j) ==
  /\ Exists(j)
  /\ Commit(j, "submit", [row[j] EXCEPT !.review = "submitted"])

AdmitReopen(j) ==
  /\ row[j].review = "submitted"
  /\ Admit(j, "reopen")

CommitReopen(j) ==
  /\ Exists(j)
  /\ Commit(j, "reopen", [row[j] EXCEPT !.review = "draft"])

-----------------------------------------------------------------------------
(* A worker process runs one task.                                         *)

Take(w, j, r) ==
  /\ run[w].pc = "idle"
  /\ queue[j][r] > 0
  /\ queue' = [queue EXCEPT ![j][r] = @ - 1]
  /\ run' = [run EXCEPT ![w] = [Idle EXCEPT !.pc = "start",
                                            !.job = j,
                                            !.retries = r]]
  /\ UNCHANGED <<row, tx, request, faults>>

\* Mutant: cancel_event is not set from the row the attempt starts with.
StartForgetsRequest(w) ==
  LET j == run[w].job
  IN
  /\ run[w].pc = "start"
  /\ \/ ~Exists(j) /\ Goto(w, "closing") /\ UNCHANGED row
     \/ /\ Exists(j)
        /\ row' = [row EXCEPT ![j] = [@ EXCEPT !.status = "running",
                                               !.stage = Preprocessing]]
        /\ run' = [run EXCEPT ![w] = [@ EXCEPT !.pc = "fetch",
                                               !.cancelAtStart = row[j].cancelRequested]]
  /\ UNCHANGED <<tx, queue, request, faults>>

\* The first transaction.  No row: analysis_job_not_found, and the task returns.
\* Otherwise the job is RUNNING, whatever its status was.
Start(w) ==
  LET j == run[w].job
      asked == row[j].cancelRequested
  IN
  /\ run[w].pc = "start"
  /\ \/ /\ ~Exists(j)
        /\ Goto(w, "closing")
        /\ UNCHANGED row
     \/ /\ Exists(j)
        /\ row' = [row EXCEPT ![j] = [@ EXCEPT !.status = "running",
                                               !.stage = Preprocessing]]
        /\ run' = [run EXCEPT ![w] = [@ EXCEPT !.pc = "fetch",
                                               !.cancelAtStart = asked,
                                               !.cancelEvent = asked]]
  /\ UNCHANGED <<tx, queue, request, faults>>

\* storage.get: the bytes, or any exception at all.
Fetch(w) ==
  /\ run[w].pc = "fetch"
  /\ \/ Goto(w, "setup")
     \/ Goto(w, "failed")
  /\ UNCHANGED <<row, tx, queue, request, faults>>

\* Ruleset, adapter configuration, probe; then the pipeline thread starts.
Setup(w) ==
  /\ run[w].pc = "setup"
  /\ Goto(w, "boundary")
  /\ UNCHANGED <<row, tx, queue, request, faults>>

\* CancellationToken.check: the deadline first, then the event.
CheckPasses(w) ==
  /\ run[w].pc = "boundary"
  /\ ~run[w].cancelEvent
  /\ Goto(w, "stage")
  /\ UNCHANGED <<row, tx, queue, request, faults>>

CheckCancels(w) ==
  /\ run[w].pc = "boundary"
  /\ run[w].cancelEvent
  /\ Goto(w, "cancelled")
  /\ UNCHANGED <<row, tx, queue, request, faults>>

CheckTimesOut(w) ==
  /\ run[w].pc = "boundary"
  /\ Goto(w, "transient")
  /\ UNCHANGED <<row, tx, queue, request, faults>>

\* Mutant: one stage too many.
StageDoneOffByOne(w) ==
  LET k == run[w].at
  IN
  /\ run[w].pc = "stage"
  /\ run' = [run EXCEPT ![w] = [@ EXCEPT !.late = run[w].late \cup {k},
                                         !.at = IF k > NumStages THEN k ELSE k + 1,
                                         !.pc = IF k > NumStages THEN "success" ELSE "boundary"]]
  /\ UNCHANGED <<row, tx, queue, request, faults>>

\* A stage ends: its progress write is scheduled on the event loop, not awaited.
StageDone(w) ==
  LET k == run[w].at
  IN
  /\ run[w].pc = "stage"
  /\ run' = [run EXCEPT ![w] = [@ EXCEPT !.late = run[w].late \cup {k},
                                         !.at = IF k = NumStages THEN k ELSE k + 1,
                                         !.pc = IF k = NumStages THEN "success" ELSE "boundary"]]
  /\ UNCHANGED <<row, tx, queue, request, faults>>

StageRaises(w) ==
  /\ run[w].pc = "stage"
  /\ Goto(w, "failed")
  /\ UNCHANGED <<row, tx, queue, request, faults>>

\* A scheduled progress write commits, in any order, as long as the task's
\* event loop lives; it fails silently (and is dropped with the loop).
Persist(w, k) ==
  LET j == run[w].job
  IN
  /\ k \in run[w].late
  /\ run' = [run EXCEPT ![w].late = @ \ {k}]
  /\ row' = IF Exists(j) THEN [row EXCEPT ![j].stage = StageCode(k)] ELSE row
  /\ UNCHANGED <<tx, queue, request, faults>>

\* The polling coroutine lives from the thread's start to the outcome's end.
Polling(w) == run[w].pc \in {"boundary", "stage"} \cup Outcomes /\ ~run[w].pollDead

\* Mutant: `if row is not None` without `and row[0]`.
PollIgnoresFlag(w) ==
  /\ Polling(w)
  /\ ~run[w].cancelEvent
  /\ Exists(run[w].job)
  /\ run' = [run EXCEPT ![w].cancelEvent = TRUE]
  /\ UNCHANGED <<row, tx, queue, request, faults>>

Poll(w) ==
  /\ Polling(w)
  /\ ~run[w].cancelEvent
  /\ row[run[w].job].cancelRequested
  /\ run' = [run EXCEPT ![w].cancelEvent = TRUE]
  /\ UNCHANGED <<row, tx, queue, request, faults>>

-----------------------------------------------------------------------------
(* A task writes its outcome.                                              *)

\* One transaction: the old rows go, the new ones come, and the job is
\* COMPLETED.  With the row gone the inserts violate the foreign key, and the
\* transaction raises.
Finish(w) ==
  LET j == run[w].job
  IN
  /\ run[w].pc = "success"
  /\ ~run[w].pollDead
  /\ Goto(w, "closing")
  /\ row' = IF Exists(j)
            THEN [row EXCEPT ![j] = [@ EXCEPT !.status = "completed",
                                              !.stage = Done,
                                              !.results = "model"]]
            ELSE row
  /\ UNCHANGED <<tx, queue, request, faults>>

\* The polling coroutine's exception comes out of `finally` and hides the result.
FinishHidden(w) ==
  /\ run[w].pc = "success"
  /\ run[w].pollDead
  /\ Goto(w, "closing")
  /\ UNCHANGED <<row, tx, queue, request, faults>>

MarkStopped(w) ==
  /\ run[w].pc \in {"cancelled", "failed"}
  /\ SetStatus(run[w].job, run[w].pc)
  /\ Goto(w, "closing")
  /\ UNCHANGED <<tx, queue, request, faults>>

\* tasks.py sees TransientPipelineError, and retries or gives up, unless the
\* polling coroutine's exception comes out of `finally` and replaces it.
AfterTransient(w) ==
  IF run[w].pollDead THEN "closing"
  ELSE IF run[w].retries >= MaxRetries THEN "exhausted" ELSE "retry"

\* Mutant: the retry is not counted on the row.
MarkTransientUncounted(w) ==
  /\ run[w].pc = "transient"
  /\ SetStatus(run[w].job, "pending")
  /\ run' = [run EXCEPT ![w] = [@ EXCEPT !.late = {},
                                         !.pc = AfterTransient(w)]]
  /\ UNCHANGED <<tx, queue, request, faults>>

\* A retryable failure: PENDING again, one more retry counted.
MarkTransient(w) ==
  LET j == run[w].job
  IN
  /\ run[w].pc = "transient"
  /\ row' = IF Exists(j)
            THEN [row EXCEPT ![j] = [@ EXCEPT !.status = "pending",
                                              !.retryCount = row[j].retryCount + 1]]
            ELSE row
  /\ run' = [run EXCEPT ![w] = [@ EXCEPT !.late = {},
                                         !.pc = AfterTransient(w)]]
  /\ UNCHANGED <<tx, queue, request, faults>>

\* Mutant: the last retry gives up without a word on the row.
MarkExhaustedSilently(w) ==
  /\ run[w].pc = "exhausted"
  /\ Goto(w, "closing")
  /\ UNCHANGED <<row, tx, queue, request, faults>>

MarkExhausted(w) ==
  /\ run[w].pc = "exhausted"
  /\ SetStatus(run[w].job, "failed")
  /\ Goto(w, "closing")
  /\ UNCHANGED <<tx, queue, request, faults>>

\* Mutant: the next attempt carries the same retry header.
PublishSameRetry(w) ==
  /\ run[w].pc = "retry"
  /\ queue' = [queue EXCEPT ![run[w].job][run[w].retries] = @ + 1]
  /\ Goto(w, "closing")
  /\ UNCHANGED <<row, tx, request, faults>>

\* Celery's autoretry publishes the next attempt, and then this one is acked.
PublishRetry(w) ==
  /\ run[w].pc = "retry"
  /\ queue' = [queue EXCEPT ![run[w].job][run[w].retries + 1] = @ + 1]
  /\ Goto(w, "closing")
  /\ UNCHANGED <<row, tx, request, faults>>

\* The task returned or raised: its loop is closed and its message acknowledged.
Ack(w) ==
  /\ run[w].pc = "closing"
  /\ run' = [run EXCEPT ![w] = Idle]
  /\ UNCHANGED <<row, tx, queue, request, faults>>

-----------------------------------------------------------------------------
(* Faults.                                                                 *)

CountRedelivery ==
  /\ faults.redelivered < MaxRedeliver
  /\ faults' = [faults EXCEPT !.redelivered = @ + 1]

CountError ==
  /\ faults.errors < MaxErrors
  /\ faults' = [faults EXCEPT !.errors = @ + 1]

ReturnMessage(w) ==
  queue' = [queue EXCEPT ![run[w].job][run[w].retries] = @ + 1]

\* The visibility timeout passes before the message is acknowledged.
Redeliver(w) ==
  /\ run[w].pc # "idle"
  /\ CountRedelivery
  /\ ReturnMessage(w)
  /\ UNCHANGED <<row, tx, request, run>>

\* The worker host dies: its unacknowledged message comes back.
HostLost(w) ==
  /\ run[w].pc # "idle"
  /\ CountRedelivery
  /\ ReturnMessage(w)
  /\ run' = [run EXCEPT ![w] = Idle]
  /\ UNCHANGED <<row, tx, request>>

\* The pool process dies under its parent, which acknowledges the message
\* (task_reject_on_worker_lost is left at False).
ProcessLost(w) ==
  /\ run[w].pc # "idle"
  /\ CountError
  /\ run' = [run EXCEPT ![w] = Idle]
  /\ UNCHANGED <<row, tx, queue, request>>

\* An exception where nothing catches it: in the set-up between the two `try`
\* blocks, or from any of the transactions.  It is not retried.
TaskError(w) ==
  /\ run[w].pc \in {"start", "setup", "exhausted"} \cup Outcomes
  /\ CountError
  /\ Goto(w, "closing")
  /\ UNCHANGED <<row, tx, queue, request>>

PollFails(w) ==
  /\ Polling(w)
  /\ CountError
  /\ run' = [run EXCEPT ![w].pollDead = TRUE]
  /\ UNCHANGED <<row, tx, queue, request>>

-----------------------------------------------------------------------------
User(j) ==
  \/ Dispatch(j)
  \/ AdmitCancel(j)
  \/ AdmitDelete(j)
  \/ RemoveVideo(j)
  \/ AdmitEdit(j)
  \/ AdmitSubmit(j)
  \/ AdmitReopen(j)

Server(j) ==
  \/ CommitCreate(j)
  \/ AbortCreate(j)
  \/ CommitCancel(j)
  \/ CommitDelete(j)
  \/ CommitEdit(j)
  \/ CommitSubmit(j)
  \/ CommitReopen(j)
  \/ AbortRequest(j)

Task(w) ==
  \/ \E j \in Jobs, r \in 0 .. MaxRetries : Take(w, j, r)
  \/ Start(w)
  \/ Fetch(w)
  \/ Setup(w)
  \/ CheckPasses(w)
  \/ CheckCancels(w)
  \/ CheckTimesOut(w)
  \/ StageDone(w)
  \/ StageRaises(w)
  \/ Finish(w)
  \/ FinishHidden(w)
  \/ MarkStopped(w)
  \/ MarkTransient(w)
  \/ MarkExhausted(w)
  \/ PublishRetry(w)
  \/ Ack(w)

Background(w) ==
  \/ \E k \in 1 .. NumStages : Persist(w, k)
  \/ Poll(w)

Fault(w) ==
  \/ Redeliver(w)
  \/ HostLost(w)
  \/ ProcessLost(w)
  \/ TaskError(w)
  \/ PollFails(w)

Next ==
  \/ \E j \in Jobs : User(j) \/ Server(j)
  \/ \E w \in Workers : Task(w) \/ Background(w) \/ Fault(w)

Spec == Init /\ [][Next]_vars

\* An open request is answered and a worker process keeps working; nothing is
\* assumed of users, of the polling coroutine or of the progress writes.
Fairness ==
  /\ \A j \in Jobs : WF_vars(Server(j))
  /\ \A w \in Workers : WF_vars(Task(w))

FairSpec == Spec /\ Fairness
-----------------------------------------------------------------------------
(* Safety, whatever the faults.                                            *)

\* A job reads `cancelled` only if somebody asked for it: the flag travels from
\* the row to a snapshot or to the polling coroutine, to the thread's event, to
\* an exception and back to the row, while other requests and deliveries write.
CancelledOnlyIfAsked ==
  \A j \in Jobs : row[j].status = "cancelled" => row[j].cancelRequested

\* An attempt that began after the cancellation was committed (a queued job, or
\* a job between two retries) never reaches the transaction that completes it.
PresetCancelNeverCompletes ==
  \A w \in Workers : run[w].cancelAtStart => run[w].pc \notin {"stage", "success"}

\* retry_count is incremented by every delivery that fails; each chain of
\* retries counts at most MaxRetries + 1, and each repeated delivery starts one.
RetryBound ==
  \A j \in Jobs : row[j].retryCount <= (MaxRetries + 1) * (1 + faults.redelivered)

\* No late write of a worker, and no late request, brings back a deleted job.
DeletedStaysDeleted ==
  [][\A j \in Jobs : tx[j] = "closed" /\ ~Exists(j) => ~Exists(j)']_vars

\* A job whose row and message are both there is settled for good in the end,
\* crashes of hosts and repeated deliveries included, unless a task dies alone
\* or raises outside its handlers.
DispatchedSettles ==
  \A j \in Jobs :
    [](Exists(j) /\ HasMessage(j)
         => <>[](~Exists(j) \/ row[j].status \in Terminal \/ faults.errors > 0))

-----------------------------------------------------------------------------
(* Safety when the broker delivers each message once (MaxRedeliver = 0).   *)

\* At most one holder of the right to run the job: one message or one attempt.
OneHolder ==
  \A j \in Jobs :
    /\ \A r \in 0 .. MaxRetries :
         queue[j][r] > 0 =>
           /\ queue[j][r] = 1
           /\ \A s \in 0 .. MaxRetries : queue[j][s] > 0 => s = r
           /\ \A w \in Workers : Active(w) => run[w].job # j
    /\ \A v, w \in Workers :
         Active(v) /\ Active(w) /\ run[v].job = j /\ run[w].job = j => v = w

\* No run replaces the rows of a submitted analysis: they change by nothing but
\* an edit that was in flight when the submission committed (submit_analysis:
\* "Locks the analysis for editing after review is complete").  A submission is
\* admitted while nobody holds the job, and nobody may come to hold it before it
\* commits, or after.  A repeated delivery breaks it: the new attempt replaces
\* the rows.
RunsSpareSubmitted ==
  [][\A j \in Jobs :
       row[j].review = "submitted" /\ Exists(j)' /\ row'[j].results # row[j].results
         => "edit" \in request[j] \ request'[j]]_vars

\* The status machine a client of the API can rely on.
Lifecycle ==
  INSTANCE JobLifecycle WITH
    phase      <- [j \in Jobs |-> IF Exists(j) THEN row[j].status
                                  ELSE IF tx[j] = "closed" THEN "gone" ELSE "none"],
    asked      <- [j \in Jobs |-> row[j].cancelRequested],
    failures   <- [j \in Jobs |-> row[j].retryCount]

ImplementsLifecycle == Lifecycle!Spec

-----------------------------------------------------------------------------
(* What a comment says of the code, and the code does not do.              *)

\* delete_analysis: "Cancel it first, then delete once it has stopped."
CancelledJobStops ==
  \A j \in Jobs :
    row[j].cancelRequested ~> (~Exists(j) \/ row[j].status \in Terminal)
=============================================================================
