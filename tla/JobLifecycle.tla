---------------------------- MODULE JobLifecycle ----------------------------
(***************************************************************************)
(* What an analysis job promises to whoever polls GET /analyses/{id}, with *)
(* no broker, no worker and no transaction in sight: the life of one row.  *)
(* AnalysisJob implements it as long as each message is delivered once.    *)
(***************************************************************************)
EXTENDS Integers

CONSTANTS
  Jobs,
  MaxRetries

VARIABLES
  phase,      (* none, then a JobStatus, then gone.                         *)
  asked,      (* Cancellation has been asked for.                           *)
  failures    (* retry_count: attempts that ended in a retryable failure.   *)

lvars == <<phase, asked, failures>>

Terminal == {"completed", "failed", "cancelled"}

Init ==
  /\ phase = [j \in Jobs |-> "none"]
  /\ asked = [j \in Jobs |-> FALSE]
  /\ failures = [j \in Jobs |-> 0]

Move(j, from, to) ==
  /\ phase[j] = from
  /\ phase' = [phase EXCEPT ![j] = to]

Create(j) ==
  /\ \/ Move(j, "none", "pending")
     \/ Move(j, "none", "gone")
  /\ UNCHANGED <<asked, failures>>

Ask(j) ==
  /\ phase[j] \notin {"none", "gone"}
  /\ asked' = [asked EXCEPT ![j] = TRUE]
  /\ UNCHANGED <<phase, failures>>

\* At most MaxRetries + 1 attempts.
Attempt(j) ==
  /\ failures[j] <= MaxRetries
  /\ Move(j, "pending", "running")
  /\ UNCHANGED <<asked, failures>>

Complete(j) ==
  /\ Move(j, "running", "completed")
  /\ UNCHANGED <<asked, failures>>

Fail(j) ==
  /\ Move(j, "running", "failed")
  /\ UNCHANGED <<asked, failures>>

Cancel(j) ==
  /\ asked[j]
  /\ Move(j, "running", "cancelled")
  /\ UNCHANGED <<asked, failures>>

Retry(j) ==
  /\ Move(j, "running", "pending")
  /\ failures' = [failures EXCEPT ![j] = @ + 1]
  /\ UNCHANGED asked

\* Retries are exhausted, and only then does a pending job fail.
GiveUp(j) ==
  /\ failures[j] = MaxRetries + 1
  /\ Move(j, "pending", "failed")
  /\ UNCHANGED <<asked, failures>>

\* The row is deleted, with everything it held.
Remove(j) ==
  /\ phase[j] \notin {"none", "gone"}
  /\ phase' = [phase EXCEPT ![j] = "gone"]
  /\ asked' = [asked EXCEPT ![j] = FALSE]
  /\ failures' = [failures EXCEPT ![j] = 0]

Next ==
  \E j \in Jobs :
    \/ Create(j)
    \/ Ask(j)
    \/ Attempt(j)
    \/ Complete(j)
    \/ Fail(j)
    \/ Cancel(j)
    \/ Retry(j)
    \/ GiveUp(j)
    \/ Remove(j)

Spec == Init /\ [][Next]_lvars
=============================================================================
