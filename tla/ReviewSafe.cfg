CONSTANTS
  Clients = {c1, c2}
  Events = {}
  Deductions = {f1}
  Evaluations = {v}
  Flags = {f1}
  Rulesets = {v1, v2}
  None = None
  Kinds <- AllKinds

SPECIFICATION Spec

SYMMETRY ClientSymmetry

INVARIANTS
  TypeOK
  AloneIsFresh

PROPERTY
  SettledSubmissionStays

CHECK_DEADLOCK FALSE
