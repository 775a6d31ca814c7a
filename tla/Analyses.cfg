SPECIFICATION FairSpec
CONSTANTS
  Clients = {d1, d2}
  Others = {o}
  Sizes = {tiny, small}
  NoModel = none
INVARIANTS
  TypeOK
  OneAnalyzeAtATime
PROPERTIES
  SettledModel
  RawOnlyOnFallback
  AnalysisAnswered
