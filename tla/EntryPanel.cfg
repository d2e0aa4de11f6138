CONSTANTS
  Clients = {c1, c2, c3}
  Judges = {j1}
  Panel = {j1}
  Videos = {v1}
  Fields = {f1}
  Marks = {m1, m2}
  Blank = Blank
  Clicks = {k1}
  Settings = {s1}
  None = None
  Kinds <- PanelKinds
  OneForm = TRUE

SPECIFICATION Spec

INVARIANTS
  ResultsFinal
  SubmittedIsComplete

PROPERTY
  MarksFinal

CHECK_DEADLOCK FALSE
