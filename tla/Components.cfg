SPECIFICATION Spec
CONSTANTS
  None = None
  NaN = NaN
  Torn = Torn
  Apis = {p1, p2}
  Analyses = {j1, j2}
  Requests = {r1, r2}
SYMMETRY Alike
INVARIANTS
  TypeOK
  OrderIsNoMatter
  CapPerType
  OnlyIncludedCount
  TrimResists
  HumanDecides
  ReportAddsUp
  DecodeIsFaithful
  TrackingIsSound
  RuntimeIsSound
  TrainingIsSound
  CorpusIsWhole
  LabelsAreSound
  LimiterIsFair
\* Every component's history is bounded: each of them ends.
CHECK_DEADLOCK FALSE
