CONSTANTS
  Structures <- MCStructures
  RootLists <- MCRootLists
  Evidences <- MCEvidences
  One = 4
SPECIFICATION Spec
INVARIANTS
  OperandsAreSet
  AnswerIsRight
  SolutionIsBest
  MarginalsAreRight
  FileIsReadBack
  NothingIsLeft
PROPERTY QueriesReturn
