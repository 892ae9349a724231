CONSTANTS
  Structures <- MCStructures
  RootLists <- MCRootLists
  Batches <- MCBatches
  Alpha = 1
SPECIFICATION Spec
INVARIANTS
  EachNodeOnce
  ParentsFirst
  OperandsAreReady
  ReturnsExpected
  ScratchIsClean
PROPERTY CallsReturn
