CONSTANTS
  Clients = {c1}
  Events = {e1}
  Deductions = {f1}
  Evaluations = {}
  Flags = {f1}
  Rulesets = {v1, v2}
  None = None
  Kinds <- AllKinds

SPECIFICATION Spec

INVARIANT
  ScoreNeverStale

CHECK_DEADLOCK FALSE
