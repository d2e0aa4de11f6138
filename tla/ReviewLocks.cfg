CONSTANTS
  Clients = {c1, c2}
  Events = {e1}
  Deductions = {f1}
  Evaluations = {}
  Flags = {f1}
  Rulesets = {v1, v2}
  None = None
  Kinds <- AllKinds

SPECIFICATION Spec

PROPERTY
  SubmittedIsLocked

CHECK_DEADLOCK FALSE
