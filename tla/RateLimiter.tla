---------------------------- MODULE RateLimiter -----------------------------
(***************************************************************************)
(* The limit on requests with a judge's link (judge_rate_limit.py, and     *)
(* _check_rate_limit of routers/judge_access.py): every API process keeps  *)
(* the times of the requests it let in, per client, start of the token and *)
(* kind of request.                                                        *)
(***************************************************************************)
EXTENDS Integers, FiniteSets, Sequences

CONSTANTS
  Clients,
  Tokens,       (* token[:8]: judges with the same one share a bucket.      *)
  Servers,      (* The API processes.                                       *)
  ClickLimit,   (* 600.                                                     *)
  Limit,        (* min(api_rate_limit_per_minute, 30).                      *)
  Window,       (* _WINDOW_SECONDS.                                         *)
  MaxTime       (* Bound: the clock.                                        *)

Buckets == {"technical-clicks", "judge-access"}

VARIABLES
  now,          (* time.monotonic().                                        *)
  buckets,      (* _buckets of each process: times by key.                  *)
  admitted,     (* History: the times let in by each process in its life.   *)
  refusal       (* History: the last refusal, [server, key].                *)

vars == <<now, buckets, admitted, refusal>>

\* _rate_limit_key.
Keys == Clients \X Tokens \X Buckets

TypeOK ==
  /\ now \in 0 .. MaxTime
  /\ buckets \in [Servers -> [Keys -> Seq(0 .. now)]]
  /\ admitted \in [Servers -> [Keys -> Seq(0 .. now)]]
  /\ refusal \in {<<>>} \cup (Servers \X Keys)

LimitOf(key) == IF key[3] = "technical-clicks" THEN ClickLimit ELSE Limit

\* Mutant: a request of a window ago is forgotten while it still counts.
DropsAtWindow(bucket, t) == SelectSeq(bucket, LAMBDA x : t - x < Window)

\* The popleft loop: it stops at the first time that is not too old.
Popped(bucket, t) ==
  CHOOSE n \in 0 .. Len(bucket) :
    /\ \A i \in 1 .. n : t - bucket[i] > Window
    /\ n < Len(bucket) => t - bucket[n + 1] <= Window

Recent(bucket, t) == SubSeq(bucket, Popped(bucket, t) + 1, Len(bucket))

Empty == [k \in Keys |-> <<>>]

Init == /\ now = 0 /\ refusal = <<>>
        /\ buckets = [s \in Servers |-> Empty] /\ admitted = [s \in Servers |-> Empty]

\* check_judge_rate_limit: 429 when the bucket is full.
Request(s, key) ==
  LET bucket == Recent(buckets[s][key], now)
  IN  IF Len(bucket) >= LimitOf(key)
      THEN /\ buckets' = [buckets EXCEPT ![s][key] = bucket]
           /\ refusal' = <<s, key>> /\ UNCHANGED <<now, admitted>>
      ELSE /\ buckets' = [buckets EXCEPT ![s][key] = Append(bucket, now)]
           /\ admitted' = [admitted EXCEPT ![s][key] = Append(@, now)]
           /\ refusal' = <<>> /\ UNCHANGED now

Tick == now < MaxTime /\ now' = now + 1 /\ refusal' = <<>> /\ UNCHANGED <<buckets, admitted>>

\* A process restarts (uvicorn --reload): its buckets are empty.
Restart(s) ==
  /\ buckets' = [buckets EXCEPT ![s] = Empty] /\ admitted' = [admitted EXCEPT ![s] = Empty]
  /\ refusal' = <<>> /\ UNCHANGED now

Next == (\E s \in Servers, k \in Keys : Request(s, k)) \/ Tick \/ \E s \in Servers : Restart(s)

Spec == Init /\ [][Next]_vars

-----------------------------------------------------------------------------
(* Properties.                                                             *)

Within(times, from) == {i \in DOMAIN times : from <= times[i] /\ times[i] <= from + Window}

\* No window of a minute, wherever it starts, holds more requests of a key than
\* its limit, though refusals purge the bucket too.
LimitHolds ==
  \A s \in Servers, k \in Keys, t \in 0 .. now :
    Cardinality(Within(admitted[s][k], t)) <= LimitOf(k)

\* Nobody is refused but for requests of the same key in the last minute: a
\* judge's other kind of requests, and other clients, take nothing from it.
RefusedForCause ==
  refusal # <<>> =>
    LET s == refusal[1]  k == refusal[2]
    IN  Cardinality({i \in DOMAIN admitted[s][k] : now - admitted[s][k][i] <= Window}) = LimitOf(k)

\* The limiter admits no more, and refuses no more, than the limit says
\* (check_judge_rate_limit).
LimiterIsFair == LimitHolds /\ RefusedForCause
=============================================================================
