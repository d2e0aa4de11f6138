--------------------------- MODULE MCJudgingEntry ---------------------------
(* Small instances of JudgingEntry for TLC: one judge, one or two videos.   *)
EXTENDS JudgingEntry, TLC

\* Every request but that of the results.
PairKinds == JudgeKinds \cup AdminKinds

\* The requests of a panel whose marks come from one page for each judge, while
\* the administrator invites, opens and locks.
PanelKinds == JudgeKinds \cup {"update", "addJudge", "results"}

\* The administrator's requests on the entry's own columns.
EntryKinds == {"update", "addVideo", "deleteEntry"}
=============================================================================
