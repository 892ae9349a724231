CONSTANTS
  NegInf = NegInf
  Builds <- MCBuilds
  InstantiationVectors <- MCInstantiationVectors
  UnsetEntries <- MCUnsetEntries
  UnsetParameters = {0, 1}
  DELAY = 3
  II = 1
  Latency = 3
  FIFO_DEPTH = 2
  NUM_QUERIES = 3
SPECIFICATION RunSpec
INVARIANTS
  NoStaleRead
  FifoIsInOrder
  SameNode
  OperandsAreFinal
PROPERTIES
  ServiceSpec
  AllAnswered
