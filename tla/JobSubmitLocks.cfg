CONSTANTS
  Jobs = {j1}
  NoJob = NoJob
  Workers = {w1}
  NumStages = 1
  MaxRetries = 1
  MaxRedeliver = 1
  MaxErrors = 0
  Kinds = {"edit", "submit", "reopen"}

SPECIFICATION Spec

PROPERTY
  RunsSpareSubmitted

CHECK_DEADLOCK FALSE
