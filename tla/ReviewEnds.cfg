CONSTANTS
  Clients = {c1, c2}
  Events = {e1}
  Deductions = {}
  Evaluations = {}
  Flags = {}
  Rulesets = {v1, v2}
  None = None
  Kinds <- KindsThatWait

SPECIFICATION FairSpec

INVARIANT
  AloneIsFresh

PROPERTY
  RequestsEnd

CHECK_DEADLOCK FALSE
