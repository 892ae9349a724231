CONSTANTS
  NegInf = NegInf
  Builds <- MCBuilds
  DELAY = 9
  II = 2
SPECIFICATION Spec
INVARIANTS
  TypeOK
  EdgesAreSpaced
  BubblesAreNeeded
  CountAgrees
  LaunchedStreamIsFile
PROPERTY HostEnds
