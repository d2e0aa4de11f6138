CONSTANTS
  Clients = {c1, c2}
  Judges = {j1}
  Panel = {j1}
  Videos = {v1, v2}
  Fields = {f1}
  Marks = {m1}
  Blank = Blank
  Clicks = {k1}
  Settings = {s1}
  None = None
  Kinds <- PairKinds
  OneForm = FALSE

SPECIFICATION Spec

INVARIANT
  TypeOK

PROPERTIES
  QuietStays
  NeverUnsubmitted
  RevocationHolds

CHECK_DEADLOCK FALSE
