CONSTANTS
  Jobs = {j1}
  NoJob = NoJob
  Workers = {w1}
  NumStages = 1
  MaxRetries = 1
  MaxRedeliver = 0
  MaxErrors = 0
  Kinds = {"cancel", "delete"}

SPECIFICATION FairSpec

PROPERTY
  CancelledJobStops

CHECK_DEADLOCK FALSE
