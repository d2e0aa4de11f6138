CONSTANTS
  Jobs = {j1}
  NoJob = NoJob
  Workers = {w1, w2}
  NumStages = 3
  MaxRetries = 2
  MaxRedeliver = 0
  MaxErrors = 1
  Kinds = {"cancel", "delete", "edit", "submit", "reopen"}

SPECIFICATION Spec

SYMMETRY WorkerSymmetry

INVARIANTS
  OneHolder
  PresetCancelNeverCompletes

PROPERTIES
  RunsSpareSubmitted
  ImplementsLifecycle

CHECK_DEADLOCK FALSE
