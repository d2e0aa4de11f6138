CONSTANTS
  Videos = {v1, v2}
  Sources = {s1}
  Jobs = {j1}
  Clients = {c1, c2, c3}
  Backends <- BothBackends
  MaxErrors = 1
  None = None
  OnePage = TRUE

SPECIFICATION Spec

SYMMETRY IdSymmetry

INVARIANTS
  TypeOK
  StorageAgrees
  GoneHasNoBytes
  SourceOnce

PROPERTY
  RemovedForGood

CHECK_DEADLOCK FALSE
