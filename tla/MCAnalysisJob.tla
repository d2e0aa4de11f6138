--------------------------- MODULE MCAnalysisJob ---------------------------
(* Small instances of AnalysisJob for TLC.  Jobs do not touch each other's  *)
(* rows or messages and meet only in the worker processes, so most          *)
(* questions need one job and two workers.                                  *)
EXTENDS AnalysisJob, TLC

\* Workers are interchangeable; used by runs with no liveness property only.
WorkerSymmetry == Permutations(Workers)
=============================================================================
