------------------------------ MODULE MCReview ------------------------------
(* Small instances of Review for TLC: one flag and the evaluation, or one   *)
(* event; two rulesets.                                                     *)
EXTENDS Review, TLC

\* Requests for every set of rows a request can lock.
KindsThatWait == {"patch", "ruleset"}

ClientSymmetry == Permutations(Clients) \cup Permutations(Rulesets)
=============================================================================
