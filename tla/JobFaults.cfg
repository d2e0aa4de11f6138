CONSTANTS
  Jobs = {j1}
  NoJob = NoJob
  Workers = {w1, w2}
  NumStages = 1
  MaxRetries = 1
  MaxRedeliver = 1
  MaxErrors = 1
  Kinds = {"cancel", "delete"}

SPECIFICATION FairSpec

INVARIANTS
  TypeOK
  CancelledOnlyIfAsked
  RetryBound

PROPERTIES
  DeletedStaysDeleted
  DispatchedSettles

CHECK_DEADLOCK FALSE
